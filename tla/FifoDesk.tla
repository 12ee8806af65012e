------------------------------ MODULE FifoDesk ------------------------------
(***************************************************************************)
(* services/strategy_fifo_live: one pair on one account, traded by the     *)
(* point-and-figure engine.  S5 bars watch the trailing stop between M5    *)
(* closes; the closed M5 bar drives the engine, its exit and its entry.    *)
(* The trades carry no TP or SL.  The broker is external: a request that   *)
(* timed out may still be executed, and a failed read of the open trades   *)
(* is an empty list.                                                       *)
(*                                                                         *)
(* A trade id is its position in trades; 0 stands for None and for "".     *)
(***************************************************************************)
EXTENDS PnfEngine, FiniteSets

CONSTANTS
    Prices,       (* the prices of the pair                                 *)
    Faults,       (* what may fail: "db", "close", "nofill", "order", "read", "late" *)
    MaxTries,     (* place_market_order's max_retries (3 in the code)       *)
    MaxFailed,    (* bound: calls to the broker that fail                   *)
    MaxTrades,    (* bound: trades the broker ever opens                    *)
    MaxCrashes    (* bound: container restarts                              *)

ASSUME DeskAssumption ==
    /\ Prices \subseteq Nat /\ MaxTries \in Nat \ {0}
    /\ MaxFailed \in Nat /\ MaxTrades \in Nat /\ MaxCrashes \in Nat

VARIABLES
    trades,      (* broker: every trade of the account, in the order of its id  *)
    inflight,    (* broker: requests that timed out and may still be executed   *)
    ledger,      (* this service's rows of the trades table                     *)
    st,          (* PnFState                                                    *)
    tid,         (* oanda_tid                                                   *)
    entry_time,  (* bar time of the last entry, as the trade it opened          *)
    sig,         (* BarResult, or the exit check_s5_trail is about              *)
    fill,        (* fill_px of the exit: the broker's, "zero" if it answered
                    without a fill, or the bar's when the call fails            *)
    n,           (* attempt number of place_market_order                        *)
    pc,          (* where run_live is                                           *)
    failed,      (* history: broker calls that failed, or whose answer was lost *)
    crashes

brokerVars == <<trades, inflight>>
vars == <<trades, inflight, ledger, st, tid, entry_time, sig, fill, n, pc, failed, crashes>>

Netted == -1    \* an entry whose order opened no trade of its own

Bars == {b \in [bull : BOOLEAN, low : Prices, high : Prices] :
            b.low <= b.high /\ (b.low = b.high => b.bull)}

NoSig == [exit |-> "-", pos |-> 0, entry_px |-> None, entry |-> 0]

IsOpen(t)  == t \in 1..Len(trades) /\ trades[t].closer = "-"
OpenTrades == {t \in 1..Len(trades) : trades[t].closer = "-"}

Fail == failed < MaxFailed /\ failed' = failed + 1

-----------------------------------------------------------------------------
(* The broker.  Every order is UNITS units, so netting is trade for trade.  *)

CloseAs(t, who) == [trades EXCEPT ![t].closer = who]

Executed(d, id) ==
    LET opposite == {t \in OpenTrades : trades[t].dir = -d}
    IN  \/ \E t \in opposite :
             /\ \A o \in opposite : t <= o
             /\ trades' = CloseAs(t, "net")
             /\ id = None
        \/ /\ opposite = {}
           /\ Len(trades) < MaxTrades
           /\ trades' = Append(trades, [dir |-> d, closer |-> "-"])
           /\ id = Len(trades) + 1

\* A request the client gave up on is executed after all, or it never is.
ResolveLate(r) ==
    /\ inflight' = inflight \ {r}
    /\ \/ /\ r.op = "open"
          /\ \E id \in 0..MaxTrades : Executed(r.dir, id)
       \/ /\ r.op = "close"
          /\ trades' = IF IsOpen(r.trade) THEN CloseAs(r.trade, "late") ELSE trades
       \/ UNCHANGED trades
    /\ UNCHANGED <<ledger, st, tid, entry_time, sig, fill, n, pc, failed, crashes>>

-----------------------------------------------------------------------------
(* reconcile_open_position: once, when the process starts.                  *)

AdoptedLong(s, t, px) ==            \* mutant: the sign of the units is not read
    [s EXCEPT !.pos = 1, !.entry_px = t, !.hw_level = px]

Adopted(s, t, px) == [s EXCEPT !.pos = trades[t].dir, !.entry_px = t, !.hw_level = px]

\* The first open trade of the pair, at whatever price it was opened.
Reconcile ==
    /\ pc = "start"
    /\ pc' = "idle"
    /\ \/ \E t \in OpenTrades, px \in Prices :
            /\ st' = Adopted(st, t, px)
            /\ tid' = t
            /\ UNCHANGED failed
       \/ OpenTrades = {} /\ UNCHANGED <<st, tid, failed>>
       \/ "read" \in Faults /\ OpenTrades # {} /\ Fail /\ UNCHANGED <<st, tid>>
    /\ UNCHANGED <<brokerVars, ledger, entry_time, sig, fill, n, crashes>>

-----------------------------------------------------------------------------
(* run_live, the S5 part: check_s5_trail.                                   *)

\* adapter.close_trade: the fill, a failure with or without an effect, or status 200 of an
\* order the broker did not fill, which counts as a success at the price 0.0.
CloseTrade(t) ==
    \/ /\ IsOpen(t)
       /\ trades' = CloseAs(t, "desk")
       /\ fill' = "broker"
       /\ UNCHANGED <<inflight, failed>>
    \/ /\ ~IsOpen(t)
       /\ fill' = "bar"
       /\ UNCHANGED <<trades, inflight, failed>>
    \/ /\ "close" \in Faults
       /\ Fail
       /\ fill' = "bar"
       /\ inflight' \in {inflight} \cup
            (IF "late" \in Faults THEN {inflight \cup {[op |-> "close", trade |-> t]}} ELSE {})
       /\ UNCHANGED trades
    \/ /\ "nofill" \in Faults
       /\ IsOpen(t) /\ Fail
       /\ fill' = "zero"
       /\ UNCHANGED <<trades, inflight>>

\* S5 bars are polled only while a trade is held whose id is known.  One of them crosses
\* the trail and the trade is closed at once.  (No step: none crossed it, or it was missed.)
S5Trail ==
    /\ pc = "idle"
    /\ st.pos # 0 /\ tid # None
    /\ \E px \in Prices : TrailHit(st, px, px)
    /\ CloseTrade(tid)
    /\ sig' = [exit |-> "trail_s5", pos |-> st.pos, entry_px |-> st.entry_px, entry |-> 0]
    /\ pc' = "row"
    /\ UNCHANGED <<ledger, st, tid, entry_time, n, crashes>>

-----------------------------------------------------------------------------
(* run_live, the M5 part: process_bar.                                      *)

AfterExit(result) == IF result.entry # 0 THEN "order" ELSE "idle"

\* BarResult as the desk uses it: nothing of it outlives a bar without exit or entry.
Signal(r) ==
    IF (r.exit # "-" /\ tid # None) \/ r.entry # 0
    THEN [exit |-> r.exit, pos |-> r.pos, entry_px |-> r.entry_px, entry |-> r.entry]
    ELSE NoSig

\* mutant: the exit of the bar is not executed when the bar also enters
EngineSkipsExit ==
    /\ pc = "idle"
    /\ \E b \in Bars : \E r \in {BarResult(st, b, spreadOK) : spreadOK \in BOOLEAN} :
         /\ st' = r.st
         /\ sig' = Signal(r)
         /\ pc' = IF r.entry # 0 THEN "order" ELSE IF r.exit # "-" /\ tid # None THEN "exit" ELSE "idle"
    /\ UNCHANGED <<brokerVars, ledger, tid, entry_time, fill, n, failed, crashes>>

\* The engine takes the last M5 bar of the poll; bars between two polls are missed.  An exit
\* of a trade whose id is unknown is skipped.
Engine ==
    /\ pc = "idle"
    /\ \E b \in Bars : \E r \in {BarResult(st, b, spreadOK) : spreadOK \in BOOLEAN} :
         /\ st' = r.st
         /\ sig' = Signal(r)
         /\ pc' = IF r.exit # "-" /\ tid # None THEN "exit" ELSE AfterExit(r)
    /\ UNCHANGED <<brokerVars, ledger, tid, entry_time, fill, n, failed, crashes>>

M5Exit ==
    /\ pc = "exit"
    /\ CloseTrade(tid)
    /\ pc' = "row"
    /\ UNCHANGED <<ledger, st, tid, entry_time, sig, n, crashes>>

KeyOfPair == 1                      \* mutant: every row under one key

\* The row is keyed on the entry time.
TradeKey == entry_time

RowOfState ==                       \* mutant: the state after the engine, not the exited trade
    [trade_id |-> TradeKey, trade |-> tid, dir |-> sig.pos, entry_px |-> st.entry_px,
     reason |-> sig.exit, exit_px |-> fill]

RowAtFill ==                        \* mutant: the failure of the close does not reach the row
    [trade_id |-> TradeKey, trade |-> tid, dir |-> sig.pos, entry_px |-> sig.entry_px,
     reason |-> sig.exit, exit_px |-> "broker"]

Row == [trade_id |-> TradeKey, trade |-> tid, dir |-> sig.pos, entry_px |-> sig.entry_px,
        reason |-> sig.exit, exit_px |-> fill]

\* entry_time TIMESTAMP NOT NULL: every attempt to insert the row of an adopted trade, whose
\* entry time is the empty string, fails.
Insert(row) ==
    IF entry_time = None \/ \E r \in ledger : r.trade_id = row.trade_id
    THEN ledger
    ELSE ledger \cup {row}

S5Reset(s) == Closed(s)

\* write_trade_direct, then the desk forgets the trade, whatever the close answered.
WriteRow ==
    /\ pc = "row"
    /\ \/ /\ ledger' = Insert(Row)
          /\ UNCHANGED failed
       \/ "db" \in Faults /\ Fail /\ UNCHANGED ledger
    /\ tid' = None
    /\ fill' = "bar"
    /\ \/ /\ sig.exit = "trail_s5"
          /\ st' = S5Reset(st)
          /\ sig' = NoSig
          /\ pc' = "idle"
       \/ /\ sig.exit # "trail_s5"
          /\ pc' = AfterExit(sig)
          /\ sig' = IF sig.entry # 0 THEN sig ELSE NoSig
          /\ UNCHANGED st
    /\ UNCHANGED <<brokerVars, entry_time, n, crashes>>

OrderDone == pc' = "idle" /\ n' = 1 /\ sig' = NoSig

\* place_market_order without brackets: filled, and the id is None if it only netted.
OrderFilled ==
    /\ pc = "order"
    /\ \E id \in 0..MaxTrades : LET px == IF id = None THEN Netted ELSE id IN
         /\ Executed(sig.entry, id)
         /\ tid' = id
         /\ st' = [st EXCEPT !.entry_px = px]
         /\ entry_time' = px
    /\ OrderDone
    /\ UNCHANGED <<inflight, ledger, fill, failed, crashes>>

\* The entry failed: the engine's position is taken back.
Unopened(s) == [Closed(s) EXCEPT !.pending = 0]

OrderRefused ==
    /\ pc = "order"
    /\ st' = Unopened(st)
    /\ OrderDone
    /\ UNCHANGED <<brokerVars, ledger, tid, entry_time, fill, failed, crashes>>

\* An attempt fails, or times out and may be executed later: try again or give up.
OrderRetry ==
    /\ pc = "order"
    /\ "order" \in Faults
    /\ \/ UNCHANGED <<inflight, failed>>
       \/ /\ "late" \in Faults
          /\ Fail
          /\ inflight' = inflight \cup {[op |-> "open", dir |-> sig.entry, n |-> n]}
    /\ \/ n < MaxTries /\ n' = n + 1 /\ UNCHANGED <<st, pc, sig>>
       \/ n = MaxTries /\ OrderDone /\ st' = Unopened(st)
    /\ UNCHANGED <<trades, ledger, tid, entry_time, fill, crashes>>

\* The container is restarted: the chart and the globals start empty.
Crash ==
    /\ crashes < MaxCrashes
    /\ crashes' = crashes + 1
    /\ st' = Fresh /\ tid' = None /\ entry_time' = None
    /\ sig' = NoSig /\ fill' = "bar" /\ n' = 1 /\ pc' = "start"
    /\ UNCHANGED <<brokerVars, ledger, failed>>

Init ==
    /\ trades = <<>> /\ inflight = {} /\ ledger = {}
    /\ st = Fresh /\ tid = None /\ entry_time = None
    /\ sig = NoSig /\ fill = "bar" /\ n = 1 /\ pc = "start"
    /\ failed = 0 /\ crashes = 0

Next ==
    \/ Reconcile \/ S5Trail \/ Engine \/ M5Exit \/ WriteRow
    \/ OrderFilled \/ OrderRefused \/ OrderRetry
    \/ Crash
    \/ \E r \in inflight : ResolveLate(r)

Spec == Init /\ [][Next]_vars
-----------------------------------------------------------------------------
(* Properties.                                                              *)

Fills   == {"broker", "bar", "zero"}
Signals == [exit : {"-", "trail", "x7", "trail_s5"}, pos : {-1, 0, 1}, entry_px : Int,
            entry : {-1, 0, 1}]
Rows    == [trade_id : Nat \cup {Netted}, trade : Nat, dir : Dirs, entry_px : Int,
            reason : {"trail", "x7", "trail_s5"}, exit_px : Fills]
Requests == [op : {"open"}, dir : Dirs, n : Nat] \cup [op : {"close"}, trade : Nat]

TypeOK ==
    /\ trades \in Seq([dir : Dirs, closer : {"-", "desk", "late", "net"}])
    /\ inflight \subseteq Requests /\ ledger \subseteq Rows
    /\ st \in PnFState /\ Len(st.col_hist) <= HistDepth
    /\ tid \in Nat /\ entry_time \in Nat \cup {Netted}
    /\ sig \in Signals /\ fill \in Fills
    /\ n \in Nat \ {0} /\ pc \in {"start", "idle", "exit", "row", "order"}
    /\ failed \in 0..MaxFailed /\ crashes \in 0..MaxCrashes

\* The trade the desk would close is the one its position and its row are about,
\* at every stage: also while the engine has already turned the position around.
DeskTracks ==
    /\ tid # None => tid \in 1..Len(trades)
    /\ pc = "idle" =>
          /\ st.pos = 0 => tid = None
          /\ tid # None => trades[tid].dir = st.pos /\ st.entry_px = tid
    /\ pc \in {"exit", "row"} =>
          tid # None /\ trades[tid].dir = sig.pos /\ sig.entry_px = tid
    /\ pc \in {"start", "order"} => tid = None

\* A row says what happened: side, entry price and entry time are those of its own trade,
\* and an exit price that is the broker's, not 0.0 and not the bar's, belongs to a close of
\* that trade.
RowsTruthful ==
    \A r \in ledger :
        /\ r.trade \in 1..Len(trades)
        /\ r.dir = trades[r.trade].dir
        /\ r.entry_px = r.trade /\ r.trade_id = r.trade
        /\ r.exit_px = "broker" => trades[r.trade].closer = "desk"

\* The desk forgets a trade whatever its close answered, and the trade has no TP or
\* SL: each open trade nobody watches any more is due to a broker call of its own
\* that failed.
OrphansAccounted == pc # "start" => Cardinality(OpenTrades \ {tid}) <= failed

\* Each trade the desk closed has a row, save one for each failed broker call or write and
\* one for each restart: a trade adopted after a restart never gets a row.
LossesAccounted ==
    Cardinality({t \in 1..Len(trades) : /\ trades[t].closer = "desk"
                                        /\ t # tid
                                        /\ \A r \in ledger : r.trade # t}) <= failed + crashes

\* The exit prices that say the trade has closed: the broker's, and, where no close
\* fails, the bar's, which then stands for a trade that was closed already; never 0.0.
Certain == IF "close" \in Faults THEN {"broker"} ELSE {"broker", "bar"}

\* Whatever fails, times out, is netted or adopted, the trades and their certain rows
\* are a trade book: a trade closes for good before it is booked, and stays booked.
Book == INSTANCE TradeBook WITH
            Id     <- 1..MaxTrades,
            open   <- OpenTrades,
            closed <- {t \in 1..Len(trades) : trades[t].closer # "-"},
            booked <- {r.trade : r \in {q \in ledger : q.exit_px \in Certain}}

ImplementsBook == Book!Spec

\* An entry that is pending follows the column of the chart and waits only while
\* flat, though exits, failed orders and adoptions change the position outside the
\* engine.
PendingFollowsChart ==
    st.pending # 0 => st.pos = 0 /\ st.dir = st.pending /\ st.col_hist # <<>>

\* While a trade is held its stop only moves in its favour.
TrailRatchets ==
    [][tid # None /\ tid' = tid /\ pc' = "idle"
        => st.pos * st'.hw_level >= st.pos * st.hw_level]_vars
=============================================================================
