------------------------------ MODULE NeatDesk ------------------------------
(***************************************************************************)
(* services/strategy_neat: one process trades every pair of one account on *)
(* messages of the curator and sends its closed trades to the DB writer.   *)
(*                                                                         *)
(* run() takes one message at a time.  A handler's broker calls, and the   *)
(* record it sends, are tasks of their own: todo is the rest of the        *)
(* handler, so the broker, the writer and restarts come in between.        *)
(* Networks, overlay, spread and sizes are free choices; every order is    *)
(* FX_VALIDATION_UNITS units, so netting is trade for trade.               *)
(* A trade id is its position in trades; 0 stands for None.                *)
(***************************************************************************)
EXTENDS TradeWriter, Integers, FiniteSets

CONSTANTS
    Pairs,
    Modes,        (* input modes the process may run in: "boxes" (pnf, mtf_mc, strength),
                     "asi" (asi_mc, asi_mc_v3), "h1" (asi_mc_v3_h1, asi_mc_v7_h1, s1_h1) *)
    Faults,       (* what may fail: "close", "order", "read", "details", "trail"         *)
    MaxFailed,    (* bound: broker calls that fail                                       *)
    MaxTrades,    (* bound: trades the broker ever opens                                 *)
    MaxRestarts   (* bound: restarts of this process and of portfolio_mgr                *)

ASSUME NeatAssumption ==
    /\ IsFiniteSet(Pairs) /\ Modes \subseteq {"boxes", "asi", "h1"}
    /\ MaxFailed \in Nat /\ MaxTrades \in Nat /\ MaxRestarts \in Nat

VARIABLES
    trades,       (* broker: every trade of the account, in the order of its id *)
    inflight,     (* broker: orders that timed out and may still be executed    *)
    st,           (* PairState of each pair                                     *)
    todo,         (* tasks of the handler that is running                       *)
    mode,         (* input_mode                                                 *)
    bound,        (* whether run()'s local datetime has been bound              *)
    held,         (* history: trades the desk ever tracked                      *)
    adopted,      (* history: those it adopted                                  *)
    excused,      (* history: <<t, n>> if failure n may have left t untracked    *)
    failed,
    restarts

brokerVars == <<trades, inflight>>
history    == <<held, adopted, excused>>
deskVars   == <<st, todo, mode, bound, held, adopted, excused, failed, restarts>>
vars       == <<brokerVars, deskVars, writerVars>>

None == 0

\* entry is the provenance of open_entry_price, the trade it is the fill of.  time is
\* open_time: none, of an adopted trade (without a UTC offset), or of an own trade (with
\* one).
PairState == [tid : Nat, dir : {-1, 0, 1}, entry : Nat,
              time : {"-", "naive", "aware"},
              trail : BOOLEAN]      \* broker_trailing_active

Flat == [tid |-> None, dir |-> 0, entry |-> 0, time |-> "-", trail |-> FALSE]

\* by is the exit reason: one of the desk's own (S5_SOFT_STOP, WEEKEND_CLOSE, MAX_HOLD,
\* NETWORK_CLOSE, NETWORK_FLIP), or BROKER_CLOSED, BROKER_SL, BROKER_TP.
Task(op, p)     == [op |-> op, pair |-> p, dir |-> 0, by |-> "-", px |-> "-"]
Close(p)        == Task("close", p)
Order(p, d)     == [Task("order", p) EXCEPT !.dir = d]
Send(p, by, px) == [Task("send", p) EXCEPT !.by = by, !.px = px]

Held(p)  == st[p].tid # None
Tracked  == {st[p].tid : p \in Pairs} \ {None}
IsOpen(t)  == t \in 1..Len(trades) /\ trades[t].closer = "-"
OpenTrades == {t \in 1..Len(trades) : trades[t].closer = "-"}

Fail == failed < MaxFailed /\ failed' = failed + 1

\* The head of todo is an op task; it is replaced by the tasks it leads to.
Doing(op)  == todo # <<>> /\ Head(todo).op = op
Then(more) == todo' = more \o Tail(todo)
-----------------------------------------------------------------------------
(* The broker.                                                              *)

CloseAs(t, who) == [trades EXCEPT ![t].closer = who]

\* A market order nets the oldest opposite trade, or opens one with SL and TP.
Executed(p, d, id) ==
    LET opposite == {t \in OpenTrades : trades[t].pair = p /\ trades[t].dir = -d}
    IN  \/ \E t \in opposite :
             /\ \A o \in opposite : t <= o
             /\ trades' = CloseAs(t, "net")
             /\ id = None
        \/ /\ opposite = {}
           /\ Len(trades) < MaxTrades
           /\ trades' = Append(trades, [pair |-> p, dir |-> d, closer |-> "-", trail |-> FALSE])
           /\ id = Len(trades) + 1

\* SL, TP or trailing stop: any open trade may end between any two steps.
BrokerClose(t) ==
    /\ IsOpen(t)
    /\ trades' = CloseAs(t, "broker")
    /\ UNCHANGED <<inflight, deskVars, writerVars>>

\* An order the client gave up on is executed after all, or it never is.
ResolveLate(r) ==
    /\ inflight' = inflight \ {r}
    /\ \/ \E id \in 0..MaxTrades :
            /\ Executed(r.pair, r.dir, id)
            /\ excused' = excused \cup (({id} \ {None}) \X {r.n})
       \/ UNCHANGED <<trades, excused>>
    /\ UNCHANGED <<st, todo, mode, bound, held, adopted, failed, restarts, writerVars>>
-----------------------------------------------------------------------------
(* The start: _reconcile_positions, and what a restart leaves.              *)

\* Each open trade of a pair is adopted in turn: the last one of the list stays.
Adopt ==
    /\ Doing("adopt")
    /\ \/ \E last \in [Pairs -> OpenTrades \cup {None}] :
            /\ \A p \in Pairs :
                 LET own == {t \in OpenTrades : trades[t].pair = p}
                 IN  IF own = {} THEN last[p] = None ELSE last[p] \in own
            /\ st' = [p \in Pairs |->
                        IF last[p] = None THEN st[p]
                        ELSE [st[p] EXCEPT !.tid = last[p], !.dir = trades[last[p]].dir,
                                           !.entry = last[p], !.time = "naive"]]
            /\ held' = held \cup ({last[p] : p \in Pairs} \ {None})
            /\ adopted' = adopted \cup ({last[p] : p \in Pairs} \ {None})
            /\ UNCHANGED <<excused, failed>>
       \/ /\ "read" \in Faults /\ OpenTrades # {} /\ Fail
          /\ excused' = excused \cup (OpenTrades \X {failed'})
          /\ UNCHANGED <<st, held, adopted>>
    /\ Then(<<>>)
    /\ UNCHANGED <<brokerVars, mode, bound, restarts, writerVars>>

AllFlat == [p \in Pairs |-> Flat]
Booting == <<[op |-> "adopt"]>>

Restart ==
    /\ restarts < MaxRestarts
    /\ restarts' = restarts + 1
    /\ st' = AllFlat /\ todo' = Booting /\ bound' = FALSE
    /\ SenderGone(Tracked)
    /\ UNCHANGED <<brokerVars, mode, history, failed>>

RestartWriter ==
    /\ restarts < MaxRestarts
    /\ restarts' = restarts + 1
    /\ WriterRestart
    /\ UNCHANGED <<brokerVars, st, todo, mode, bound, history, failed>>
-----------------------------------------------------------------------------
(* run(): the messages, and the idle second.                                *)

\* The mode's own indicator: MFE, max hold, then the network, unless the message only
\* brings prices (S5 in the H1 modes), its inputs are zero or the range bar is not full.
OwnIndicator(p) ==
    /\ todo = <<>>
    /\ mode \in {"asi", "h1"}
    /\ \E ticks \in {<<Task("tick", p)>>, <<>>} :
         todo' = (IF Held(p) THEN <<Task("mfe", p), Task("hold", p)>> ELSE <<>>) \o ticks
    /\ UNCHANGED <<brokerVars, st, mode, bound, history, failed, restarts, writerVars>>

\* The default branch: every indicator of the box modes, the H1 ones of the ASI modes.
\* Its import binds the name datetime for all of run().
OtherIndicator(p) ==
    /\ todo = <<>>
    /\ mode \in {"boxes", "asi"} /\ Held(p)
    /\ todo' = <<Task("mfe", p), Task("hold", p)>>
    /\ bound' = TRUE
    /\ UNCHANGED <<brokerVars, st, mode, history, failed, restarts, writerVars>>

\* A box of a pnf_box message, which every mode obeys: CLOSE, or ENTER in the direction of
\* the process, here long.  (No step: the output asks for what is, or the box is that of the
\* last exit, in which the pair is not entered again.)
PnfBox(p) ==
    /\ todo = <<>>
    /\ todo' = IF Held(p) THEN <<Close(p)>> ELSE <<Order(p, 1)>>
    /\ UNCHANGED <<brokerVars, st, mode, bound, history, failed, restarts, writerVars>>

\* _s5_fast_exit_check: the soft stop.
Candle(p) ==
    /\ todo = <<>>
    /\ Held(p)
    /\ todo' = <<Close(p)>>
    /\ UNCHANGED <<brokerVars, st, mode, bound, history, failed, restarts, writerVars>>

GoneAll(seen) == {p \in Pairs : Held(p)}    \* mutant: the ids are not compared

Gone(seen) == {p \in Pairs : Held(p) /\ st[p].tid \notin seen}

ForEach(op, ps) == LET s == SetToSeq(ps) IN [i \in 1..Len(s) |-> Task(op, s[i])]

\* _detect_broker_closes, after a second without a message: one read of the open trades
\* for all pairs.  A read that fails is an empty list.
Idle ==
    /\ todo = <<>>
    /\ Tracked # {}
    /\ \/ todo' = ForEach("details", Gone(OpenTrades)) /\ UNCHANGED <<excused, failed>>
       \/ /\ "read" \in Faults /\ Tracked \cap OpenTrades # {} /\ Fail
          /\ todo' = ForEach("details", Gone({}))
          /\ excused' = excused \cup ((Tracked \cap OpenTrades) \X {failed'})
    /\ UNCHANGED <<brokerVars, st, mode, bound, held, adopted, restarts, writerVars>>

\* _close_all_weekend, from the loop, from the idle tasks or at shutdown.
CloseAllWeekend ==
    /\ todo = <<>>
    /\ Tracked # {}
    /\ todo' = ForEach("close", {p \in Pairs : Held(p)})
    /\ UNCHANGED <<brokerVars, st, mode, bound, history, failed, restarts, writerVars>>
-----------------------------------------------------------------------------
(* The tasks of the handlers.                                               *)

\* _update_mfe_mae: once the MFE has reached its target, the broker's trailing stop is
\* set, up to three times.  (No step: it has not, the stop is set already, or the trade has
\* closed and refuses it.)
UpdateMfe ==
    /\ Doing("mfe")
    /\ LET p == Head(todo).pair
           t == st[p].tid
           trailing == [trades EXCEPT ![t].trail = TRUE]
       IN  \/ UNCHANGED <<trades, st, failed>>
           \/ /\ Held(p) /\ ~st[p].trail /\ IsOpen(t)
              /\ \/ /\ trades' = trailing
                    /\ st' = [st EXCEPT ![p].trail = TRUE]
                    /\ UNCHANGED failed
                 \/ /\ "trail" \in Faults /\ Fail
                    /\ trades' \in {trades, trailing}
                    /\ UNCHANGED st
    /\ Then(<<>>)
    /\ UNCHANGED <<inflight, mode, bound, history, restarts, writerVars>>

\* Whether a trade has been held for max_hold_hours can be told of an own trade only: the
\* check raises, and is skipped, while datetime is unbound, and for the time without offset
\* of an adopted trade.
HoldExceeded(p) == bound /\ st[p].time = "aware"

MaxHold ==
    /\ Doing("hold")
    /\ \/ Then(<<>>)
       \/ HoldExceeded(Head(todo).pair) /\ Then(<<Close(Head(todo).pair)>>)
    /\ UNCHANGED <<brokerVars, st, mode, bound, history, failed, restarts, writerVars>>

\* _on_asi_mc_tick.  erOk is the range gate, out the output that dominates, if any.
Decision(p, out3, erOk) ==
    LET enter(d) == IF erOk THEN <<Order(p, d)>> ELSE <<>>
        d == st[p].dir
    IN  CASE ~Held(p) /\ out3 \in {-1, 1} -> enter(out3)
          [] Held(p) /\ out3 = 0          -> <<Close(p)>>
          [] Held(p) /\ out3 = -d         -> <<Close(p)>> \o enter(out3)
          [] OTHER                        -> <<>>

Tick ==
    /\ Doing("tick")
    /\ LET p == Head(todo).pair
       IN  \/ \E out3 \in {-1, 0, 1}, erOk \in BOOLEAN :
                Then(Decision(p, out3, erOk) \o <<Task("mfe", p)>>)
           \/ Held(p) /\ Then(<<Close(p)>>)
           \/ Then(<<>>)
    /\ UNCHANGED <<brokerVars, st, mode, bound, history, failed, restarts, writerVars>>

\* _close_trade: the fill, or last_mid when the close fails, is answered without a fill or
\* the trade is gone.
CloseTrade ==
    /\ Doing("close")
    /\ LET p == Head(todo).pair
           t == st[p].tid
       IN  \/ /\ Held(p) /\ IsOpen(t)
              /\ trades' = CloseAs(t, "desk")
              /\ Then(<<Send(p, "desk", "broker")>>)
              /\ UNCHANGED <<excused, failed>>
           \/ /\ Held(p) /\ ~IsOpen(t)
              /\ Then(<<Send(p, "desk", "mid")>>)
              /\ UNCHANGED <<trades, excused, failed>>
           \/ /\ Held(p) /\ "close" \in Faults /\ IsOpen(t) /\ Fail
              /\ Then(<<Send(p, "desk", "mid")>>)
              /\ excused' = excused \cup {<<t, failed'>>}
              /\ UNCHANGED trades
           \/ ~Held(p) /\ Then(<<>>) /\ UNCHANGED <<trades, excused, failed>>
    /\ UNCHANGED <<inflight, st, mode, bound, held, adopted, restarts, writerVars>>

ResetKeepingTrail(s) ==             \* mutant: broker_trailing_active survives
    [Flat EXCEPT !.trail = s.trail]

\* The state s of the pair after the trade.  open_time is left as it is, and read by
\* nothing before the next entry sets it.
Reset(s) == Flat

\* open_time of a trade the desk adopted is without offset: the subtraction that
\* computes hours_held raises, and the record is not sent.
Sendable(s) == s.time # "naive"

RecordAfterReset(task, s) ==        \* mutant: the state is reset before the record is made
    [trade_id |-> None, pair |-> task.pair, dir |-> 0, entry |-> 0, px |-> task.px, by |-> task.by]

RecordAtFill(task, s) ==            \* mutant: last_mid is taken for the broker's price
    [trade_id |-> s.tid, pair |-> task.pair, dir |-> s.dir, entry |-> s.entry,
     px |-> "broker", by |-> task.by]

Record(task, s) ==
    [trade_id |-> s.tid, pair |-> task.pair, dir |-> s.dir, entry |-> s.entry,
     px |-> task.px, by |-> task.by]

\* send_trade blocks while the socket is full; the state is reset after it.
SendTrade ==
    /\ Doing("send")
    /\ LET task == Head(todo)
           s == st[task.pair]
       IN  /\ \/ Sendable(s) /\ CanSend /\ Sent(Record(task, s))
              \/ ~Sendable(s) /\ UNCHANGED writerVars
           /\ st' = [st EXCEPT ![task.pair] = Reset(s)]
    /\ Then(<<>>)
    /\ UNCHANGED <<brokerVars, mode, bound, history, failed, restarts>>

\* place_market_order and what _open_trade and _open_trade_direction make of it.
Opened(s, id, d) ==
    [s EXCEPT !.tid = id, !.dir = d, !.entry = id, !.time = "aware"]

OrderFilled ==
    /\ Doing("order")
    /\ \E id \in 0..MaxTrades : LET p == Head(todo).pair
                                    d == Head(todo).dir IN
         /\ Executed(p, d, id)
         /\ st' = IF id = None THEN st ELSE [st EXCEPT ![p] = Opened(st[p], id, d)]
         /\ held' = held \cup ({id} \ {None})
    /\ Then(<<>>)
    /\ UNCHANGED <<inflight, mode, bound, adopted, excused, failed, restarts, writerVars>>

\* Overlay, spread, sizing or weekend forbid it, the broker cancels it, or every
\* attempt fails; an attempt may have reached the broker all the same, and is then
\* executed later or, having been tried again, as well.
OrderFailed ==
    /\ Doing("order")
    /\ \/ Then(<<>>) /\ UNCHANGED <<inflight, failed>>
       \/ /\ "order" \in Faults /\ Fail
          /\ inflight' = inflight \cup {[pair |-> Head(todo).pair, dir |-> Head(todo).dir,
                                         n |-> failed]}
          /\ todo' \in {todo, Tail(todo)}
    /\ UNCHANGED <<trades, st, mode, bound, history, restarts, writerVars>>

\* The close price if the details have one, else last_mid.
Details ==
    /\ Doing("details")
    /\ LET p == Head(todo).pair
       IN  \/ /\ ~IsOpen(st[p].tid)
              /\ Then(<<Send(p, "broker", "broker")>>)
              /\ UNCHANGED failed
           \/ /\ IsOpen(st[p].tid)
              /\ Then(<<Send(p, "broker", "mid")>>)
              /\ UNCHANGED failed
           \/ /\ "details" \in Faults /\ ~IsOpen(st[p].tid) /\ Fail
              /\ Then(<<Send(p, "broker", "mid")>>)
    /\ UNCHANGED <<brokerVars, st, mode, bound, history, restarts, writerVars>>
-----------------------------------------------------------------------------
Init ==
    /\ trades = <<>> /\ inflight = {}
    /\ st = AllFlat /\ todo = Booting /\ mode \in Modes /\ bound = FALSE
    /\ held = {} /\ adopted = {} /\ excused = {}
    /\ failed = 0 /\ restarts = 0
    /\ WriterInit

Message(p) == OwnIndicator(p) \/ OtherIndicator(p) \/ PnfBox(p) \/ Candle(p)

Handler ==
    \/ Adopt \/ UpdateMfe \/ MaxHold \/ Tick
    \/ CloseTrade \/ SendTrade \/ OrderFilled \/ OrderFailed
    \/ Details

Writer == (Deliver \/ WriteTrade \/ OthersWrite) /\ UNCHANGED <<brokerVars, deskVars>>

Next ==
    \/ \E p \in Pairs : Message(p)
    \/ Idle \/ CloseAllWeekend
    \/ Handler
    \/ Writer
    \/ Restart \/ RestartWriter
    \/ \E t \in 1..Len(trades) : BrokerClose(t)
    \/ \E r \in inflight : ResolveLate(r)

Spec == Init /\ [][Next]_vars
-----------------------------------------------------------------------------
(* Properties.                                                              *)

Ops == {"adopt", "mfe", "hold", "tick", "close", "send", "order", "details"}
TypeOK ==
    /\ trades \in Seq([pair : Pairs, dir : {-1, 1}, closer : {"-", "desk", "broker", "net"},
                       trail : BOOLEAN])
    /\ inflight \subseteq [pair : Pairs, dir : {-1, 1}, n : Nat]
    /\ st \in [Pairs -> PairState] /\ mode \in Modes /\ bound \in BOOLEAN
    /\ \A i \in 1..Len(todo) : todo[i].op \in Ops
    /\ held \subseteq 1..Len(trades) /\ adopted \subseteq held
    /\ excused \subseteq (1..Len(trades)) \X Nat
    /\ failed \in 0..MaxFailed /\ restarts \in 0..MaxRestarts
    /\ Records \subseteq [trade_id : Nat, pair : Pairs, dir : {-1, 0, 1}, entry : Nat,
                          px : {"broker", "mid"}, by : {"desk", "broker"}]
    /\ foreign \subseteq OtherIds /\ lost \subseteq 1..Len(trades)
    /\ Len(out) <= Hwm /\ Len(inbox) <= Hwm

\* A pair's state is about one real trade of that pair, and the desk believes in a
\* trailing stop only where the broker has one.
DeskTracks ==
    \A p \in Pairs :
        IF Held(p)
        THEN LET t == st[p].tid IN
             /\ t \in 1..Len(trades)
             /\ trades[t].pair = p /\ trades[t].dir = st[p].dir /\ st[p].entry = t
             /\ st[p].trail => trades[t].trail
        ELSE st[p].dir = 0 /\ ~st[p].trail

\* What is sent, under way or written is about its own trade; an exit price of the
\* broker's is that of a trade that was closed by whom the record says.
RecordsTruthful ==
    \A r \in Records :
        /\ r.trade_id \in 1..Len(trades)
        /\ r.pair = trades[r.trade_id].pair /\ r.dir = trades[r.trade_id].dir
        /\ r.entry = r.trade_id
        /\ r.px = "broker" =>
             IF r.by = "broker" THEN trades[r.trade_id].closer \in {"broker", "net"}
                                           ELSE trades[r.trade_id].closer = "desk"

\* The broker holds no more trades the desk does not know of than calls that failed
\* account for.
OrphansAccounted ==
    (todo # <<>> => Head(todo).op # "adopt")
        => Cardinality(OpenTrades \ Tracked) <= Cardinality(excused)

\* Every trade the desk ever tracked and gave up has a record on its way or a row,
\* unless a restart or a lock lost it, it was adopted, or a row of another account had
\* its trade id, on which alone the table tells trades apart.
NothingUnrecorded ==
    held \subseteq Tracked \cup Ids(Records) \cup lost \cup adopted \cup foreign

\* The exit prices that say the trade has closed: the broker's, and, where neither a
\* close nor a read of the open trades fails, last_mid.
Certain ==
    IF {"close", "read"} \cap Faults = {} THEN {"broker", "mid"} ELSE {"broker"}

\* Whatever fails, restarts or is lost on the way to the table, the trades and their
\* certain rows are a trade book: a trade closes for good before it is booked.
Book == INSTANCE TradeBook WITH
            Id     <- 1..MaxTrades,
            open   <- OpenTrades,
            closed <- {t \in 1..Len(trades) : trades[t].closer # "-"},
            booked <- Ids({r \in rows : r.px \in Certain})

ImplementsBook == Book!Spec
=============================================================================
