------------------------------ MODULE StackDesk ------------------------------
(***************************************************************************)
(* One container of services/strategy_sma_stack_live: the single-threaded  *)
(* poll loop (main), its restart, and the OANDA account it trades through  *)
(* lib/oanda_adapter.  The broker is external: it closes trades on its own *)
(* (TP, SL), it may answer a request after the 10 s REST timeout, and the  *)
(* adapter turns every failed read of the open trades into an empty list.  *)
(*                                                                         *)
(* A price is represented by its provenance: the trade whose fill it is.   *)
(* A trade id is its position in trades; 0 stands for Python's None / 0.0. *)
(***************************************************************************)
EXTENDS Integers, Sequences, FiniteSets

CONSTANTS
    PairSeq,      (* CONFIGS: the pairs in the order the loop visits them   *)
    PsarPairs,    (* the pairs whose exit_mode is 'psar'                    *)
    Account,      (* the account of this container, as written in its rows  *)
    Faults,       (* what may fail: "db", "details", "candles"; "shrink" if  *)
                  (* an order may be smaller than the position it meets     *)
    MaxBars,      (* new S5 bars one poll may bring (9 in the code)         *)
    MaxTries,     (* place_market_order's max_retries (3 in the code)       *)
    ReVerify,     (* re-reads before a close is believed (3 in the code)    *)
    MaxBad,       (* bound: consecutive open-trade reads that lose trades   *)
    MaxLost,      (* bound: requests whose outcome is unknown at one time   *)
    MaxTrades,    (* bound: trades the broker ever opens                    *)
    MaxCrashes    (* bound: container restarts                              *)

Pairs == {PairSeq[k] : k \in DOMAIN PairSeq}

ASSUME PairSeqAssumption ==
    /\ PairSeq \in Seq(Pairs)
    /\ Len(PairSeq) > 0
    /\ \A j, k \in DOMAIN PairSeq : PairSeq[j] = PairSeq[k] => j = k

ASSUME PsarAssumption == PsarPairs \subseteq Pairs

ASSUME BoundsAssumption ==
    /\ MaxBars \in Nat /\ MaxTries \in Nat \ {0} /\ ReVerify \in Nat \ {0}
    /\ MaxBad \in Nat /\ MaxLost \in Nat /\ MaxTrades \in Nat /\ MaxCrashes \in Nat

VARIABLES
    trades,    (* broker: every trade of the account, in the order of its id *)
    inflight,  (* broker: requests that timed out and may still be executed  *)
    bad,       (* broker: consecutive reads of a pair that lost its trades   *)
    ledger,    (* the trades table of lib/db (shared by all containers)      *)
    st,        (* PairState of each pair: its position part                  *)
    pc,        (* where the loop is                                          *)
    cur,       (* index in PairSeq of the pair being processed               *)
    left,      (* bars of new_bars still to process                          *)
    n,         (* attempt number of the retry loop that is running (else 1)  *)
    want,      (* new_dir of the entry being placed (else 0)                 *)
    crashes

brokerVars == <<trades, inflight, bad>>
deskVars   == <<st, pc, cur, left, n, want>>
vars == <<trades, inflight, bad, ledger, st, pc, cur, left, n, want, crashes>>

Dirs == {-1, 1}
None == 0
Netted == -1    \* the fill of an order that opened no trade of its own
Boot == -2      \* the time of a restart, where it stands in for an entry time

Trade   == [pair : Pairs, dir : Dirs, closer : {"-", "bracket", "desk", "late", "net"},
            cut : BOOLEAN]
Request == [op : {"open"}, pair : Pairs, dir : Dirs, n : Nat]
             \cup [op : {"close"}, trade : Nat]
PairState == [pos_dir : {-1, 0, 1}, open_trade_id : Nat, entry_px : Nat \cup {Netted},
              entry_time : Nat \cup {Netted, Boot}, psar_armed : BOOLEAN,
              pending : {"none", "psar_trail", "psar_trail_est"}]
LedgerRow == [trade_id : {"010"} \X Nat, account : {Account}, trade : Nat,
              entry_px : Nat \cup {Netted}, entry_time : Nat \cup {Netted, Boot},
              reason : {"psar_trail", "psar_trail_est", "closed_broker"}]
Stages == {"warmup", "startup", "reconcile", "details", "reverify", "poll", "bars", "order"}

p == PairSeq[cur]     \* st.cfg.pair of the iteration that is running

IsOpen(t)  == t \in 1..Len(trades) /\ trades[t].closer = "-"
OpenOn(q)  == {t \in 1..Len(trades) : trades[t].pair = q /\ trades[t].closer = "-"}

-----------------------------------------------------------------------------
(* The broker as the adapter lets the strategy see it.                      *)

\* get_open_trades, filtered on the pair: the truth, or [] when the call fails.
OpenTradesRead(q, seen) ==
    \/ /\ seen = OpenOn(q)
       /\ bad' = [bad EXCEPT ![q] = 0]
    \/ /\ OpenOn(q) # {}
       /\ bad[q] < MaxBad
       /\ seen = {}
       /\ bad' = [bad EXCEPT ![q] = @ + 1]

Reads(q) == {OpenOn(q), {}}

\* get_trade_details gives a trade a close_price (OANDA's averageClosePrice) once it is
\* closed, or as soon as an opposite order has closed a part of it.
Priced(t) == IsOpen(t) => trades[t].cut

CloseAs(t, who) == [trades EXCEPT ![t].closer = who]

Netting(gone, part) ==
    [t \in 1..Len(trades) |-> IF t \in gone THEN [trades[t] EXCEPT !.closer = "net"]
                              ELSE IF t \in part THEN [trades[t] EXCEPT !.cut = TRUE]
                              ELSE trades[t]]

\* A market order is executed on the netting account.  It first closes opposite
\* trades, oldest first; where orders differ in size ("shrink") the last one it
\* reaches may only be cut.  What is left of it, if anything, opens a trade.
Executed(q, d, id) ==
    LET opposite == {t \in OpenOn(q) : trades[t].dir = -d}
        new      == [pair |-> q, dir |-> d, closer |-> "-", cut |-> FALSE]
    IN  \E gone \in SUBSET opposite : \E part \in SUBSET (opposite \ gone) :
           /\ \A o \in gone \cup part : \A t \in opposite : t < o => t \in gone
           /\ part # {} => "shrink" \in Faults
           /\ \/ /\ gone \cup part # {}
                 /\ trades' = Netting(gone, part)
                 /\ id = None
              \/ /\ gone = opposite
                 /\ Len(trades) < MaxTrades
                 /\ trades' = Append(Netting(gone, part), new)
                 /\ id = Len(trades) + 1

\* TP, SL or a manual close: the broker ends a trade without being asked.
BracketClose(t) ==
    /\ IsOpen(t)
    /\ trades' = CloseAs(t, "bracket")
    /\ UNCHANGED <<inflight, bad, ledger, deskVars, crashes>>

\* A request that timed out at the client is executed after all ...
DeliverLate(r) ==
    /\ inflight' = inflight \ {r}
    /\ \/ /\ r.op = "open"
          /\ \E id \in 0..MaxTrades : Executed(r.pair, r.dir, id)
       \/ /\ r.op = "close"
          /\ trades' = IF IsOpen(r.trade) THEN CloseAs(r.trade, "late") ELSE trades
    /\ UNCHANGED <<bad, ledger, deskVars, crashes>>

\* ... or never was.
DropRequest(r) ==
    /\ inflight' = inflight \ {r}
    /\ UNCHANGED <<trades, bad, ledger, deskVars, crashes>>

-----------------------------------------------------------------------------
(* Start of the container: warmup, then the startup adoption.               *)

Flat == [pos_dir |-> 0, open_trade_id |-> None, entry_px |-> None, entry_time |-> None,
         psar_armed |-> FALSE, pending |-> "none"]

\* What each adoption writes: warmup knows only the time of the restart, ...
WarmupAdopted(s, t) ==
    [s EXCEPT !.pos_dir = trades[t].dir, !.entry_px = t, !.open_trade_id = t,
              !.entry_time = Boot, !.psar_armed = FALSE]

\* ... the startup adoption of main leaves entry_time_iso alone, ...
StartupAdopted(s, t) ==
    [s EXCEPT !.pos_dir = trades[t].dir, !.open_trade_id = t, !.entry_px = t]

\* ... and so does the flip guard, which keeps an entry price it already has.
GuardAdopted(s, t) ==
    [s EXCEPT !.pos_dir = trades[t].dir, !.open_trade_id = t,
              !.entry_px = IF s.entry_px = None THEN t ELSE s.entry_px]

GoTo(stage) == pc' = stage /\ UNCHANGED cur

\* The loop over the pairs: the next one at stage, or the first one at after.
NextPair(stage, after) ==
    IF cur < Len(PairSeq) THEN cur' = cur + 1 /\ pc' = stage
                          ELSE cur' = 1 /\ pc' = after

\* warmup: the orphan adoption, skipped when the candles cannot be fetched.
Warmup ==
    /\ pc = "warmup"
    /\ NextPair("warmup", "startup")
    /\ \/ "candles" \in Faults /\ UNCHANGED <<st, bad>>
       \/ \E seen \in Reads(p) :
            /\ OpenTradesRead(p, seen)
            /\ \/ seen = {} /\ UNCHANGED st
               \/ \E t \in seen :
                    st' = [st EXCEPT ![p] = WarmupAdopted(st[p], t)]
    /\ UNCHANGED <<trades, inflight, ledger, left, n, want, crashes>>

\* main: the startup adoption, pair by pair, before the loop begins.
StartupAdoption ==
    /\ pc = "startup"
    /\ NextPair("startup", "reconcile")
    /\ \E seen \in Reads(p) :
         /\ OpenTradesRead(p, seen)
         /\ \/ seen = {} /\ UNCHANGED st
            \/ \E t \in seen :
                 st' = [st EXCEPT ![p] = StartupAdopted(st[p], t)]
    /\ UNCHANGED <<trades, inflight, ledger, left, n, want, crashes>>

-----------------------------------------------------------------------------
(* reconcile_open_trade                                                     *)

KeyWithoutId == <<"010", None>>    \* mutant: every row under one key

\* What write_trade_direct keys the row on: the literal prefix, the short id.
TradeKey == <<"010", st[p].open_trade_id>>

Row(reason) ==
    [trade_id |-> TradeKey, account |-> Account, trade |-> st[p].open_trade_id,
     entry_px |-> st[p].entry_px, entry_time |-> st[p].entry_time, reason |-> reason]

InsertOrReplace(row) ==             \* mutant: a row of the same trade_id is replaced
    {r \in ledger : r.trade_id # row.trade_id} \cup {row}

\* write_trade_direct: INSERT ... WHERE NOT EXISTS (same trade_id).  The empty string is no
\* TIMESTAMP: the row of a trade adopted before any entry fails on every attempt.
Insert(row) ==
    IF row.entry_time = None \/ \E r \in ledger : r.trade_id = row.trade_id
    THEN ledger
    ELSE ledger \cup {row}

ResetKeepsPending(s) ==             \* mutant: the captured fill survives its trade
    [s EXCEPT !.pos_dir = 0, !.entry_px = None, !.open_trade_id = None, !.psar_armed = FALSE]

ResetKeepsEntry(s) ==               \* mutant: the entry price survives its trade
    [s EXCEPT !.pos_dir = 0, !.open_trade_id = None, !.psar_armed = FALSE, !.pending = "none"]

\* The reset clears everything but entry_time_iso.
Reset(s) ==
    [s EXCEPT !.pos_dir = 0, !.entry_px = None, !.open_trade_id = None,
              !.psar_armed = FALSE, !.pending = "none"]

\* A confirmed close: write the row (or exhaust the 8 attempts), reset the state.
Conclude(reason) ==
    /\ \/ ledger' = Insert(Row(reason))
       \/ "db" \in Faults /\ UNCHANGED ledger
    /\ st' = [st EXCEPT ![p] = Reset(@)]
    /\ GoTo("poll")

\* mutant: a pending exit is concluded without asking the broker what is open
ReconcileTrusting ==
    /\ pc = "reconcile"
    /\ GoTo(IF st[p].pending # "none" \/ (st[p].pos_dir # 0 /\ ~IsOpen(st[p].open_trade_id))
            THEN "details" ELSE "poll")
    /\ UNCHANGED <<trades, inflight, bad, ledger, st, left, n, want, crashes>>

Reconcile ==
    /\ pc = "reconcile"
    /\ \/ /\ st[p].pos_dir = 0
          /\ GoTo("poll")
          /\ UNCHANGED bad
       \/ /\ st[p].pos_dir # 0
          /\ \E seen \in Reads(p) :
               /\ OpenTradesRead(p, seen)
               /\ GoTo(IF st[p].open_trade_id \in seen THEN "poll" ELSE "details")
    /\ UNCHANGED <<trades, inflight, ledger, st, left, n, want, crashes>>

\* The (up to five) reads of the trade's details and what follows from them.
Details ==
    /\ pc = "details"
    /\ LET id == st[p].open_trade_id
           readable == id # None /\ Priced(id)
       IN  \/ /\ st[p].pending # "none"
              /\ Conclude(st[p].pending)
           \/ /\ st[p].pending = "none"
              /\ readable
              /\ Conclude("closed_broker")
           \/ /\ st[p].pending = "none"
              /\ ~readable \/ "details" \in Faults
              /\ GoTo("reverify")
              /\ UNCHANGED <<ledger, st>>
    /\ UNCHANGED <<trades, inflight, bad, left, n, want, crashes>>

\* mutant: the first re-read that misses the trade is believed
ReverifyOnce ==
    /\ pc = "reverify"
    /\ \E seen \in Reads(p) :
         /\ OpenTradesRead(p, seen)
         /\ st' = IF st[p].open_trade_id \in seen THEN st ELSE [st EXCEPT ![p] = Reset(@)]
         /\ GoTo("poll")
    /\ UNCHANGED <<trades, inflight, ledger, left, n, want, crashes>>

\* mutant: an unreadable fill keeps the trade for the next cycle, for ever
ReverifyNever ==
    /\ pc = "reverify"
    /\ \E seen \in Reads(p) : OpenTradesRead(p, seen)
    /\ GoTo("poll")
    /\ UNCHANGED <<trades, inflight, ledger, st, left, n, want, crashes>>

\* One of the ReVerify re-reads; the last one that misses the trade resets.
Reverify ==
    /\ pc = "reverify"
    /\ \E seen \in Reads(p) :
         /\ OpenTradesRead(p, seen)
         /\ \/ /\ st[p].open_trade_id \in seen
               /\ GoTo("poll")
               /\ n' = 1
               /\ UNCHANGED st
            \/ /\ st[p].open_trade_id \notin seen
               /\ n < ReVerify
               /\ n' = n + 1
               /\ UNCHANGED <<st, pc, cur>>
            \/ /\ st[p].open_trade_id \notin seen
               /\ n = ReVerify
               /\ st' = [st EXCEPT ![p] = Reset(@)]
               /\ GoTo("poll")
               /\ n' = 1
    /\ UNCHANGED <<trades, inflight, ledger, left, want, crashes>>

-----------------------------------------------------------------------------
(* The S5 bars of the pair: process_s5_bar                                  *)

\* get_candles: the new bars (none when the fetch fails).
Poll ==
    /\ pc = "poll"
    /\ left' \in 0..MaxBars
    /\ GoTo("bars")
    /\ UNCHANGED <<brokerVars, ledger, st, n, want, crashes>>

BarsDone ==
    /\ pc = "bars"
    /\ left = 0
    /\ NextPair("reconcile", "reconcile")
    /\ UNCHANGED <<brokerVars, ledger, st, left, n, want, crashes>>

NewBarUnbounded == pc = "bars" /\ left' = left - 1     \* mutant: one bar too many

NewBar == pc = "bars" /\ left > 0 /\ left' = left - 1

Armed(s) == [s EXCEPT !.psar_armed = TRUE]

\* A bar that neither exits nor enters; it may arm the PSAR exit.
QuietBar ==
    /\ NewBar
    /\ \/ UNCHANGED st
       \/ /\ st[p].pos_dir # 0
          /\ p \in PsarPairs
          /\ st' = [st EXCEPT ![p] = Armed(@)]
    /\ UNCHANGED <<brokerVars, ledger, pc, cur, n, want, crashes>>

\* adapter.close_trade answers with the fill, or fails (with or without effect).
CloseTrade(t, reply) ==
    \/ /\ IsOpen(t)
       /\ trades' = CloseAs(t, "desk")
       /\ reply = "psar_trail"
       /\ UNCHANGED inflight
    \/ /\ reply = "psar_trail_est"
       /\ UNCHANGED <<trades, inflight>>
    \/ /\ Cardinality(inflight) < MaxLost
       /\ inflight' = inflight \cup {[op |-> "close", trade |-> t]}
       /\ reply = "psar_trail_est"
       /\ UNCHANGED trades

\* The bar's close crosses the armed PSAR (it may be the bar that arms it).
PsarExit ==
    /\ NewBar
    /\ st[p].pos_dir # 0
    /\ p \in PsarPairs
    /\ st[p].open_trade_id # None
    /\ \E reply \in {"psar_trail", "psar_trail_est"} :
         /\ CloseTrade(st[p].open_trade_id, reply)
         /\ st' = [st EXCEPT ![p] = [Armed(@) EXCEPT !.pending = reply]]
    /\ UNCHANGED <<bad, ledger, pc, cur, n, want, crashes>>

\* mutant: no flip guard
EntryUnguarded(d) ==
    /\ NewBar
    /\ st[p].pos_dir = 0
    /\ pc' = "order" /\ want' = d
    /\ UNCHANGED <<brokerVars, ledger, st, cur, n, crashes>>

\* Joint novelty while flat: the flip guard re-adopts or lets the order go out.
EntrySignal(d) ==
    /\ NewBar
    /\ st[p].pos_dir = 0
    /\ \E seen \in Reads(p) :
         /\ OpenTradesRead(p, seen)
         /\ \/ \E t \in seen :
                 /\ st' = [st EXCEPT ![p] = GuardAdopted(st[p], t)]
                 /\ UNCHANGED <<pc, want>>
            \/ /\ seen = {}
               /\ pc' = "order" /\ want' = d
               /\ UNCHANGED st
    /\ UNCHANGED <<trades, inflight, ledger, cur, n, crashes>>

-----------------------------------------------------------------------------
(* place_market_order                                                       *)

OrderDone == GoTo("bars") /\ n' = 1 /\ want' = 0

\* The state after a fill: its price and time are those of the trade it opened.
Entered(s, d, id) ==
    LET fill == IF id = None THEN Netted ELSE id
    IN  [s EXCEPT !.pos_dir = d, !.entry_px = fill, !.entry_time = fill,
                  !.open_trade_id = id, !.psar_armed = FALSE]

\* A fill that is acknowledged: the trade id is None if no trade was opened.
OrderFilled ==
    /\ pc = "order"
    /\ \E id \in 0..MaxTrades :
         /\ Executed(p, want, id)
         /\ st' = [st EXCEPT ![p] = Entered(@, want, id)]
    /\ OrderDone
    /\ UNCHANGED <<inflight, bad, ledger, left, crashes>>

\* Weekend block, or the broker cancels the order: no retry.
OrderRefused ==
    /\ pc = "order"
    /\ OrderDone
    /\ UNCHANGED <<brokerVars, ledger, st, left, crashes>>

\* HTTP error or timeout: try again; a timed-out order may still be executed.
OrderRetry ==
    /\ pc = "order"
    /\ \/ UNCHANGED inflight
       \/ /\ Cardinality(inflight) < MaxLost
          /\ inflight' = inflight \cup {[op |-> "open", pair |-> p, dir |-> want, n |-> n]}
    /\ \/ n < MaxTries /\ n' = n + 1 /\ UNCHANGED <<pc, cur, want>>
       \/ n = MaxTries /\ OrderDone
    /\ UNCHANGED <<trades, bad, ledger, st, left, crashes>>

-----------------------------------------------------------------------------
\* The process dies at any point and docker restarts it: everything is forgotten.
Crash ==
    /\ crashes < MaxCrashes
    /\ crashes' = crashes + 1
    /\ st' = [q \in Pairs |-> Flat]
    /\ pc' = "warmup" /\ cur' = 1 /\ left' = 0 /\ n' = 1 /\ want' = 0
    /\ UNCHANGED <<brokerVars, ledger>>

Init ==
    /\ trades = <<>> /\ inflight = {} /\ bad = [q \in Pairs |-> 0]
    /\ ledger = {}
    /\ st = [q \in Pairs |-> Flat]
    /\ pc = "warmup" /\ cur = 1 /\ left = 0 /\ n = 1 /\ want = 0
    /\ crashes = 0

DeskStep ==
    \/ Warmup \/ StartupAdoption
    \/ Reconcile \/ Details \/ Reverify
    \/ Poll \/ BarsDone \/ QuietBar \/ PsarExit
    \/ \E d \in Dirs : EntrySignal(d)
    \/ OrderFilled \/ OrderRefused \/ OrderRetry

BrokerStep ==
    \/ \E t \in 1..Len(trades) : BracketClose(t)
    \/ \E r \in inflight : DeliverLate(r) \/ DropRequest(r)

Next == DeskStep \/ BrokerStep \/ Crash

Spec == Init /\ [][Next]_vars

\* The loop never blocks: every call it makes returns within its timeout.
Fairness == WF_vars(DeskStep)

FairSpec == Spec /\ Fairness
-----------------------------------------------------------------------------
(* Properties.  The table is shared: they speak of this account's rows.     *)

OwnRows == {r \in ledger : r.account = Account}

TypeOK ==
    /\ trades \in Seq(Trade) /\ inflight \subseteq Request
    /\ bad \in [Pairs -> 0..MaxBad] /\ ledger \subseteq LedgerRow
    /\ st \in [Pairs -> PairState] /\ pc \in Stages
    /\ cur \in DOMAIN PairSeq /\ left \in 0..MaxBars
    /\ n \in Nat \ {0} /\ want \in {-1, 0, 1} /\ crashes \in 0..MaxCrashes
    /\ pc = "order" => want \in Dirs /\ st[p].pos_dir = 0

\* The position s the desk believes in on pair q is one the broker really opened
\* (tr are its trades): id, side and entry price belong to one trade of the pair,
\* and a captured PSAR fill belongs to that trade, never to an earlier one.
Tracks(q, s, tr) ==
    /\ s.pos_dir = 0 => s.open_trade_id = None /\ s.entry_px = None
    /\ s.open_trade_id = None => s.pending = "none"
    /\ s.open_trade_id # None =>
          /\ s.open_trade_id \in 1..Len(tr)
          /\ tr[s.open_trade_id].pair = q
          /\ tr[s.open_trade_id].dir = s.pos_dir
          /\ s.entry_px = s.open_trade_id
          /\ s.pending = "psar_trail" => tr[s.open_trade_id].closer = "desk"

Tracking == \A q \in Pairs : Tracks(q, st[q], trades)

\* Whatever fails, a row says what happened: its entry price is that of its own
\* trade, 'psar_trail' rows are trades our close really ended, and 'closed_broker'
\* rows are trades that are closed, or that an opposite order has at least cut.
RowsTruthful ==
    \A r \in OwnRows :
        /\ r.trade \in 1..Len(trades)
        /\ r.trade_id = <<"010", r.trade>>
        /\ r.entry_px = r.trade
        /\ r.reason = "psar_trail" => trades[r.trade].closer = "desk"
        /\ r.reason = "closed_broker" => Priced(r.trade)

\* No phantom rows: no trade of the table is still open at the broker.
NoPhantomRows == \A r \in OwnRows : ~IsOpen(r.trade)

\* The desk implements the trade book: with exact reads, or where no PSAR exit can leave
\* an estimate behind and no order cuts a trade, rows are only written for closed trades.
Book == INSTANCE TradeBook WITH
            Id     <- 1..MaxTrades,
            open   <- {t \in 1..Len(trades) : trades[t].closer = "-"},
            closed <- {t \in 1..Len(trades) : trades[t].closer # "-"},
            booked <- {r.trade : r \in OwnRows}

ImplementsBook == Book!Spec

\* The desk never holds two trades on a pair, across restarts and short outages
\* of the open-trades endpoint (the flip bleed the FLIP GUARD was written for).
SinglePosition == \A q \in Pairs : Cardinality(OpenOn(q)) <= 1

\* Short of a restart, reconcile gives a trade up only when it is really closed.
NoFalseClose ==
    [][\A q \in Pairs :
          /\ st[q].open_trade_id # None
          /\ st'[q].open_trade_id = None
          /\ crashes' = crashes
          => ~IsOpen(st[q].open_trade_id)]_vars

\* As the comment on hours_held has it ("Real hold time"): the hold time of a row
\* counts from the entry of its own trade, or from the restart that adopted it.
HoldTimeReal == \A r \in OwnRows : r.entry_time \in {Boot, r.trade}

\* Without a restart or a database failure no close is lost: a trade that has
\* ended is still being reconciled, or has its row.
NothingUnrecorded ==
    \A t \in 1..Len(trades) :
        IsOpen(t) \/ (\E q \in Pairs : st[q].open_trade_id = t) \/ (\E r \in OwnRows : r.trade = t)

\* A trade that has closed at the broker does not stay tracked for ever.
Released ==
    \A q \in Pairs : \A t \in 1..MaxTrades :
        (st[q].open_trade_id = t /\ t <= Len(trades) /\ ~IsOpen(t)) ~> (st[q].open_trade_id # t)

\* As the comment on the FLIP GUARD has it: with ANY position open on the pair
\* no entry goes out.
GuardStops == [][pc = "bars" /\ pc' = "order" => OpenOn(p) = {}]_vars

\* As the comments on pending_exit_px have it: the fill of a close the broker
\* acknowledged is what the row records.
AckedFillRecorded ==
    \A r \in OwnRows : trades[r.trade].closer = "desk" => r.reason = "psar_trail"
=============================================================================
