# The live trading stack in TLA+

The repository holds the research of a trading project and the services it ran: a set of
Docker containers that poll an OANDA account each, aggregate candles, enter and leave
positions, and write every closed trade to one DuckDB table. The modules here specify the
part of it where state is kept in several places at once, that is the live desks, their
broker accounts, the risk overlay and the table of trades, and check and prove what keeps
them in agreement.

## 1. Inventory

| Component | State | Operations | Talks to | What is hard | Correct when |
|---|---|---|---|---|---|
| **SMA-stack desk** `services/strategy_sma_stack_live` | per pair: position, entry price and time, trade id, armed flag, captured exit; all in memory | warmup, startup adoption, `reconcile_open_trade`, `process_s5_bar` (PSAR exit, flip guard, entry), restart | adapter, ledger | the broker ends trades on its own; reads fail as "no trades"; close and order answers are lost; nothing survives a restart | one position per pair; no open trade is given up; each row is true of its own trade; no close is lost |
| **SMA-stack signal** (same file) | two timeframes: bar in progress, counter, closes, alignment, novelty | `TFBar.update`, `on_tf_bar_emit`, the entry condition, warmup | S5 candles | two counters over one stream; latched flags; a restart finds alignments that are not new | entries are new on both timeframes; bars are the aggregate of their own ticks |
| **OANDA adapter** `lib/oanda_adapter.py` | none | market order (3 attempts), close, open trades, details, candles (5 attempts) | OANDA REST, 10 s timeout | every failure becomes `[]`, `None` or `success=False`; a timeout says nothing about the effect | callers never mistake a failure for an answer |
| **Trade ledger** `lib/db.py` | the trades table | `write_trade_direct` (dedup on `trade_id`, 8 attempts), `TradeDBSender` / `TradeDBWriter` (ZMQ) | every strategy container | lock contention of ~15 writers; ids of several accounts | one row per closed trade, whole |
| **NEAT strategy** `services/strategy_neat` | per pair: trade id, side, entry price and time, trailing stop set; one message loop for all pairs | adoption, indicator, box, candle and idle handlers, trailing stop, max hold, closes, orders, weekend close | curator and overlay messages, OANDA, the ledger's ZMQ socket | a failed read closes every trade in the books; a close that fails is forgotten; errors swallowed by `try` | each pair is about one real trade; records are true; none is lost without a cause |
| **P&F FIFO desks** `lib/pnf_engine.py`, `services/strategy_fifo_live`, `strategy_fifo_paper` | chart column, history ring, position, trail level, pending entry, trade id | bar processing, S5 trail, exit and entry, restart adoption | OANDA, ledger | failed closes that reset the state, exit and entry on one bar, S5 and M5 both change the position | chart, position and rows agree with the broker; the stop only tightens |
| **Portfolio manager** `services/portfolio_mgr` | account state, high-water marks, blocked sides | account poll, risk overlay, publication, ledger writer thread | accounts, ZMQ, the NEAT desks | the accounts are read one after another while they trade, failed reads count as no trades, a daily mark compared by the hour | blocks and throttle follow the exposure and the day's drawdown |
| **Curator** `services/curator` | buffers per pair, accumulators | S5 and H1 polling, watchdog, publication | OANDA, ZMQ, DuckDB | overlapping polls; a watchdog inside the loop it watches | each candle counted once; a stalled feed restarts |
| **Zone recovery** `services/strategy_zr_random`, `strategy_zr_paper` | a hedging cycle in a JSON file | open, hedge, close all legs, persist | two accounts | partial closes, non-atomic persistence | no leg is forgotten |
| Other live and paper strategies, dashboards, indicators, sizing, protocol | see `PROJECT.json` | | | | |

How they interact: each live strategy container is one single-threaded loop. The desks that
poll their own candles (SMA stack, FIFO) share nothing with the others but the trades table
(a file on the `fx-db` volume) and, where two strategies are configured on one account, the
broker's netting of that account. The NEAT desks are fed by ZMQ: the curator's messages come
in, trade records go out to the writer thread in the portfolio manager, whose risk overlay
comes back. Concurrency is therefore between a desk and *its broker* (brackets fill,
timed-out requests are executed late), between desks through the *table*, between a desk and
the *writer* and the *manager*, and between a process and its own *restart*
(`restart: always` in `docker-compose.yml`).

The hazards of this code are listed, each at its line, in `PROJECT.json`; the properties
below exist because of them.

## 2. Plan

Done, in this order:

1. the SMA-stack desk with its broker (`StackDesk`), the trade book it implements
   (`TradeBook`), two desks over one table (`TwoDesks`), the entry signal (`StackSignal`);
2. the point-and-figure engine and the desk it drives (`PnfEngine`, `FifoDesk`);
3. the path of a record to the table and the desk that sends it (`TradeWriter`, `NeatDesk`);
4. the manager's round and the desks that obey it (`RiskOverlay`);
5. one desk among any other writers of the table (`SharedTable`);
6. proofs about each of these but `TwoDesks`, whose only property is one the code violates.

Left, in this order:

1. `CandleFeed`: the curator's overlapping polls, accumulators and watchdog.
2. `ZoneRecovery`: the hedging cycle, its state file and crashes in between.
3. The paper FIFO desk over `PnfEngine`, against the live one.
4. Extensions of the core: gaps in the S5 stream for `StackSignal`; the `units` column for
   `StackDesk`.
5. A proof that each desk of `TwoDesks` is a container of `SharedTable`, whose other rows are
   those of the other desk; section 3 only argues it.

## 3. The modules

### StackDesk: one container and its account

*State.* `st[pair]` is the position part of `PairState`. `pc`, `cur`, `left`, `n` and `want`
are the place in the program: the phase, the pair of the running iteration, the bars of
`new_bars` still to process, the attempt of the retry loop that runs, the direction of the
order being placed. `trades`, `inflight` and `bad` are the broker's: every trade ever
opened and how it ended, the requests whose answer was lost, and how many reads in a row
have failed on each pair. `ledger` is the trades table.

A trade is named by its position in `trades`; a *price* is named by the trade whose fill it
is. So `entry_px = 2` means "the entry fill of trade 2", and a property can ask whether the
price in a row belongs to the row's trade. What is done with the number is left out. `None`
(0) stands for Python's `None` and for `0.0`; `Netted` (-1) for the fill of an order that
only reduced opposite trades and opened none (`trade_id` is `None`); an `entry_time` of `None`
for the empty string an adoption leaves where no entry preceded it. `cut` marks an open trade
of which an opposite order has closed a part: OANDA gives it an average close price already,
and the code takes any such price for the close of the trade (`Priced`).

`Insert` is `write_trade_direct`: it drops a row whose `trade_id` is there, and refuses one
with an empty entry time, which is no `TIMESTAMP` and fails on all eight attempts
(`lib/db.py:192`). A trade adopted before any entry therefore never gets a row.

| Code | Action |
|---|---|
| `warmup`, orphan adoption; the early return when candles are missing | `Warmup` |
| `main`, startup adoption | `StartupAdoption` |
| `reconcile_open_trade`: first read of the open trades | `Reconcile` |
| ... the reads of the details, the captured exit, the row, the reset | `Details` (`Conclude`) |
| ... the re-verify loop, one action per read | `Reverify` |
| `main`: `get_candles`, the loop over the new bars, the next pair | `Poll`, `BarsDone` |
| `process_s5_bar`: no trade, MFE and arming | `QuietBar` |
| ... the PSAR exit with `close_trade` | `PsarExit` |
| ... joint novelty while flat, the flip guard | `EntrySignal` |
| `place_market_order`: a fill, a refusal, another attempt | `OrderFilled`, `OrderRefused`, `OrderRetry` |
| container restart | `Crash` |
| the broker: TP or SL, a late execution, a request that never arrives | `BracketClose`, `DeliverLate`, `DropRequest` |

An action holds at most one exchange with the broker, so brackets and late executions fall
between any two exchanges, as they do in reality. The loops over the details (up to five
reads, one second apart) are one action because they end at the first readable answer and a
closed trade stays closed: what they leave undetermined, whether any of them succeeded, is a
choice.

*Faults.* `get_open_trades` returns `[]` on any error; `bad` bounds how often in a row
(`MaxBad`) that may happen on a pair while a trade is open there. `inflight` bounds requests
in doubt (`MaxLost`). `Faults` says which of the database, the details and the warmup
candles may fail, and whether an order may be smaller than what it meets (`shrink`). A
request in doubt may still be executed at any later time, also after the process has
restarted.

*The broker.* OANDA is external and modelled by what the code relies on: it nets opposite
positions first in, first out, so an order closes the oldest opposite trades, may cut the
next one (`shrink`: `_refresh_units` changes the order size by the hour), and opens a trade
with what remains (`Netting`, `Executed`).

### TradeBook: what a desk promises about the table

`open`, `closed`, `booked`: a trade opens, closes for good, and only then may be booked, once
and for ever. `StackDesk!Book` is the refinement mapping: the broker's trades by their state,
and the trades that have a row of this account. Netting closes several trades and may open
one in a single transaction, hence the sets in `Open` and `Close`.

`FifoDesk` and `NeatDesk` implement it as well. They write rows on the strength of less: a
row with the bar's or the tick's price is written whether or not the close succeeded. So
their mappings book the rows of a `Certain` price, the broker's, which says that the trade
has closed; where no close (and, for the NEAT desk, no read of the open trades) can fail,
rows with an estimate count too, since the trade then was closed already.

### TwoDesks: two accounts, one table

`fx-sma-stack-live` (account 010) and `fx-sma-fade-live` (account 001, `EXIT_PROFILE=fade`,
so no PSAR pairs) as two instances of `StackDesk` that share only `ledger`. The broker
numbers the trades of each account on its own.

### SharedTable: one desk among any writers

A container writes to a table that other containers write to as well, and sees nothing else
of them. `SharedTable` adds to a `StackDesk` one action, `OthersWrite`: a row of another
account (`OtherRows`, any set of them) goes through the same `Insert`, under whatever
`trade_id`, the container's own included. No service that `docker-compose.yml` starts has the
account of this one; those configured for it have the profile `off`. `Alone` is the
refinement mapping: the container with only its own rows for a table. A row of its own that
the table refuses because of another's id is, to `Alone`, a write that failed, so `Alone` has
`db` among its faults. Either desk of `TwoDesks` is such a container, with the rows of the
other desk for `OtherRows`.

### StackSignal: when an entry fires

`ProcessS5Bar` is one call of `process_s5_bar` on the two `TFState`s. Which alignment a
completed bar has (three SMAs, their order and slopes) is a choice; everything made of it
(`was_aligned`, `novelty`, the joint condition, the early returns) is the code's. `recent`,
`seen1` and `seen2` are history variables: the S5 bars of the running TF2 bar, and the last
two alignments of each timeframe. `Restart` is warmup followed by the clearing of the
novelties in `main`.

`StackDesk` does not read `StackSignal`'s state: there, an entry signal may come on any bar
while flat, which covers every stream the signal could produce.

### PnfEngine and FifoDesk: the point-and-figure desk

`PnfEngine` holds `lib/pnf_engine.py` as operators on one engine state, as `process_bar` is a
function of it. A price is a number of price steps, a box is `BS` of them; `LowEdges` are the
box boundaries at which `int()` of the float quotient falls a box short. `FifoDesk` is the
loop of `strategy_fifo_live` around it.

| Code | Definition |
|---|---|
| `_update_pnf`: first box, extension, reversal, the ring of column heights | `UpdatePnf`, `Reversed`, `Pushed` |
| `process_bar`: both prices in bar order, high-water level, trail and X7, E2 | `BarResult` |
| `reconcile_open_position` | `Reconcile` |
| `check_s5_trail` and its close | `S5Trail` |
| the last M5 bar of a poll, through the engine | `Engine` |
| the exit of the bar, its row and what the desk forgets | `M5Exit`, `WriteRow` |
| `place_market_order`: filled, refused or tried again; the engine's position taken back | `OrderFilled`, `OrderRefused`, `OrderRetry` |
| container restart | `Crash` |
| the broker: a request that timed out, executed after all or never | `ResolveLate` |

`sig` is the `BarResult` the desk still has to execute, and `pc` where it is in doing so; the
engine's own position has already moved on by then, which is what the properties are about.
The trades have neither TP nor SL, so only the desk closes them. Every order is `UNITS`
units, so netting is trade for trade. `failed` counts the broker calls and writes that went
wrong, and bounds them. Among `Faults`, `nofill` is a close answered 200 without
`orderFillTransaction`: the adapter calls it a success at the price 0.0, and the desk books
that price (`fill = "zero"`) and forgets a trade that is open. The row of an adopted trade has
the empty entry time, which the table refuses every time, as above: it is never written.

### TradeWriter and NeatDesk: records on their way

`TradeWriter` is the path of a record: `out`, the strategy's PUSH socket; `inbox`, the PULL
socket in the portfolio manager; `rows`, the process's rows of the table; `foreign`, the
trade ids of the rows other accounts' containers have in it (`OthersWrite`, with ids of
`OtherIds`); `lost`, a history of the ids of records that never became a row. The writer's
thread takes a record out of the socket and makes a single attempt; the table drops a record
whose raw id is there, whosever row has it. `NeatDesk` extends it with the process of
`strategy_neat`.

| Code | Definition |
|---|---|
| `send_trade`, the socket in between, `TradeDBWriter`'s round | `CanSend`/`Sent`, `Deliver`, `WriteTrade` |
| restarts of either side | `WriterRestart`, `SenderGone`, `Restart`, `RestartWriter` |
| `_reconcile_positions` | `Adopt` |
| `run`: the branch of the mode's own indicator, the default branch | `OwnIndicator`, `OtherIndicator` |
| `_on_pnf_box`, `_s5_fast_exit_check` | `PnfBox`, `Candle` |
| the idle second: `_detect_broker_closes`; `_close_all_weekend` | `Idle`, `Details`; `CloseAllWeekend` |
| `_update_mfe_mae` with the broker's trailing stop; the max-hold check | `UpdateMfe`; `MaxHold` |
| `_on_asi_mc_tick` | `Tick` (`Decision`) |
| `_close_trade`, the record it sends, the reset | `CloseTrade`, `SendTrade` |
| `_open_trade`, `_open_trade_direction` with `place_market_order` | `OrderFilled`, `OrderFailed` |
| the broker's SL, TP and trailing stop; a late execution | `BrokerClose`; `ResolveLate` |

A handler makes several broker calls, so `todo` holds what is left of the running handler as
tasks, and each task is a step: the broker, the writer and restarts come in between. What a
network decides, whether overlay, spread or sizing forbid an order, whether the MFE has
reached its target or a trade its maximal age, and which message comes next are choices.
`time` is `open_time` by what the code can do with it: an adopted trade's has no UTC offset,
so that subtracting it raises inside the `try` that sends the record. `bound` says whether
the local name `datetime` has been bound in `run`, without which the max-hold check raises
too.

### RiskOverlay: the manager's round

`pc` and `left` are the place in the round: the poll of the accounts, the pass that reads
every account's open trades for the currency exposures, and the second pass for the counts;
one account per step each. Between two calls the accounts trade and their NAVs move. Shares
and scales are compared as rounded by the code, to a tenth of a percent and to two decimals:
`OverCap` and `Drawdown` have the thresholds this amounts to. `due` names the readers whose
socket still holds the last overlay; one that restarts misses it, since ZMQ PUB repeats
nothing.

| Code | Definition |
|---|---|
| `_poll_accounts`, one account per step; an account whose poll fails keeps its state | `PollAccount` |
| `_get_currency_exposure`, one account per step | `ReadExposure` |
| the second pass over the open trades | `ReadPositions` |
| `_compute_risk_overlay` and its publication | `Publish` (`Mark`, `Drawdown`, `Exposing`, `Crowded`, `AtCap`) |
| a desk's drain of `risk_sub`, `_check_risk_overlay` | `Receive`, `Allowed` |
| restarts of the manager and of a desk | `ManagerRestart`, `ReaderRestart` |
| trading, prices, the clock | `Open`, `Close`, `NavMoves`, `NextHour` |

`peak`, `fresh`, `done`, `stable` and `clean` are history variables: the best total of the
day, whether a round has been made since hour 0 and in this hour, and what the accounts held
throughout the running round, and whether none of its reads has failed.

## 4. What the runs check

| Run | Instance | Properties |
|---|---|---|
| `desk_outage` | two bracket pairs, orders of any size, database and details may fail, reads of open trades fail up to two in a row, one restart, two trades | `SinglePosition`, `NoFalseClose`, `Released`, `TypeOK` |
| `desk_trail` | one PSAR pair, all of `Faults`, one request in doubt, two bars per poll, one attempt per order and one re-verify read, one restart, two trades; another account's row under the id of the first trade (`SharedSpec`) | `Tracking`, `RowsTruthful`, `NoPhantomRows`, `ImplementsBook`, `AloneInTable` |
| `desk_record` | two pairs, one of each exit mode, nothing fails, two bars per poll, three trades | `NothingUnrecorded` |
| `signal` | TF1 of two and TF2 of four S5 bars, two prices, a history of two bars | `FreshOnBoth`, `Lockstep`, `FiresAtBarEnd`, `InProgressIsAggregate`, `TypeOK` |
| `fifo` | boxes of two price steps, four prices, one boundary that rounds down, columns of two remembered, X7 on; one failed call or write of any kind (a close without a fill too), two attempts, two trades, one restart | `DeskTracks`, `RowsTruthful`, `OrphansAccounted`, `LossesAccounted`, `PendingFollowsChart`, `TrailRatchets`, `ImplementsBook`, `TypeOK` |
| `neat` | one pair in the ASI mode, sockets of one record, lock races, another account's row under the raw id of the first trade, one failed broker call of any kind, two trades, one restart of either side | `DeskTracks`, `RecordsTruthful`, `OrphansAccounted`, `NothingUnrecorded`, `ImplementsBook`, `TypeOK` |
| `overlay` | two accounts that trade EUR/USD, of pairs EUR/USD and GBP/USD; account 1 reads the overlay, account 2 is long from the start; NAVs of 16 and 17, trades of 1, caps and drawdown limit of 3 percent, concentration limit 1, two positions at most, days of two hours, two trades or NAV moves, one failed poll or read, one restart | `MarkIsTodays`, `HoldingsBlock`, `ExposureContained`, `ThrottleReleases`, `CapEnforced`, `TypeOK` |
| `v_prefix`, `v_phantom`, `v_guard`, `v_acked`, `v_hold` | one pair, the one fault each needs | one property each, violated: see section 7 |

*Properties of the desk.* `Tracking`: the position the desk believes in is one real trade of
that pair: id, side and entry price of the same trade, and a captured PSAR fill that is that
trade's. `RowsTruthful`: the same for every row. `SinglePosition`: never two open trades on a
pair. `NoFalseClose`: short of a restart the desk forgets a trade only when it is closed.
`Released`: it forgets a closed trade eventually. `NoPhantomRows`: no trade with a row is
open. `ImplementsBook`: the refinement. `NothingUnrecorded`: a trade that has ended is being
reconciled or has a row. `AloneInTable`: among the other writers of the table the desk behaves
as one that is alone with it and whose writes may fail; no row of its own is ever replaced,
and nothing it believes depends on the others.

*Properties of the signal.* `FreshOnBoth`: an entry only when both timeframes' last bar is
aligned its way and the bar before was not. `FiresAtBarEnd`: only where a TF1 bar ends,
never on a novelty that is still latched between bars (TF2's may serve several TF1 bars).
`Lockstep`: the counters stay in phase. `InProgressIsAggregate`: each bar in progress is the
aggregate (`BarOf`, the reference definition) of exactly the S5 bars counted into it.

*Properties of the FIFO desk.* `DeskTracks`: at every stage, also between the engine's turn
and the close it asks for, the trade the desk would close is the one its position and its
row are about. `RowsTruthful`: side, entry price and a broker's exit price in a row are
those of the row's trade. `OrphansAccounted`: open trades nobody watches are at most as many
as failed calls. `LossesAccounted`: the same for closed trades without a row, failures and
restarts; a trade adopted at a restart is the one that restart accounts for.
`PendingFollowsChart`: a pending entry has the column's direction, waits only while flat,
and has a completed column behind it. `TrailRatchets`: while a trade is held its stop moves
only in its favour. `ImplementsBook`: a row of a certain price is about a closed trade,
booked once and for good.

*Properties of the NEAT desk.* `DeskTracks`, `OrphansAccounted` as above, with the trailing
stop: the desk believes in one only where the broker has one. `RecordsTruthful`: whatever is
sent, under way or written is about its own trade, and says truly who closed it when its exit
price is the broker's. `NothingUnrecorded`: a trade the desk tracked and gave up has a record
on its way or a row, was lost with a process, a socket or a lock, was dropped for another
account's row of the same raw id, or had been adopted.
`OrphansAccounted` counts in `excused`, a history variable, the pairs of a trade and the number
of the failure that left it behind: one failed idle read loses all trades, and one trade may be
lost, adopted by a restart and lost again. `ImplementsBook` as for the FIFO desk, through the
sockets and the writer.

*Properties of the overlay.* `MarkIsTodays`: the daily mark is the best total since hour 0 or
since the manager's start. `HoldingsBlock`: a side that enough accounts held throughout a
round without a failed read is blocked by it. `ExposureContained`: no side left open pushes a
currency further out that is over its cap by more than the rounding hides (half a tenth of a
percent), by the reads of that round. `ThrottleReleases`: a drawdown block ends.
`CapEnforced`: once the accounts hold the maximum for good, every reader stops entering for
good.

*Bounds and why they are enough.* One pair of a `StackDesk` shows everything that happens
within a pair; pairs meet only in the order of the loop and in the table, for which two
suffice. Two trades are needed for anything stale to reach a *next* trade, for a flip and
for two positions; the third in `desk_record` lets a pair trade again after both pairs have.
Two bars per poll are needed for a bar to follow an exit or an entry in the same cycle.
`MaxBad = 2` is the longest outage the startup survives: two adoptions read each pair before
the first guard, so the third lost read in a row is the guard's own. `MaxTries = 2` has a
first and a last attempt. `desk_trail` has one attempt and one re-verify read (1.2 million
states, two minutes): a second order comes there from a second signal, the repeated attempt
is in `desk_outage` and `desk_record`, and the re-verify loop in full in `desk_outage`. One
restart can fall anywhere, and later ones start from the same empty memory. For the signal,
periods of 2 and 4 with one dividing the other have the shape of the configured 6/12, 12/60
and 24/120; two prices order high, low, open and close in all ways that `update` tells
apart.

For the FIFO desk, four prices give four boxes once boundaries round either way: a column
can start, grow, reverse and reverse again, with a column long enough for E2 and one that is
not, and one boundary of each kind. Two trades let a stale value reach the next trade and
let an exit and an entry fall on one bar. Runs with no close failing (for the NEAT desk no
read either), where `Certain` is wider, were made once. For the NEAT desk the ASI mode
suffices: a process in it gets each kind of message, in the other modes only some, so their
behaviours are among its own. One pair suffices since pairs share only the message loop, the
idle read and the sockets; the theorems of section 5 are for any set of pairs and modes.
Sockets of one record are full at once, which is where sending blocks. The other account's
row has the id of the first of the two trades, so one record can be dropped and one not.

For the overlay, one account that holds a trade from the start, at a concentration limit of
one, leaves both changes of the market for what happens between the reads of the round that
blocks it. The two pairs share the dollar as their quote; only one of them is traded, so the
side of a pair nobody holds is blocked too. One trade is 2.94, 3.03 or 3.13 percent of the
total for NAVs of 16 and 17 and the cap 3: below it, over it but rounded to it, and over it.
The drawdowns 0, 2.9, 3.0 and 5.9 percent at a limit of 3 reach each of the three throttles.

The `StackDesk` instances differ because the properties hold under different failures, which
is itself a result: `desk_outage` has no PSAR pair and no request in doubt since an
estimated exit (section 7) or a duplicate order breaks `NoFalseClose` or `SinglePosition`;
`desk_trail` has exact reads since `NoPhantomRows` is false otherwise.

*Fairness.* `Released` needs weak fairness of `DeskStep`. The loop of a container
never waits for another party: every exchange has a timeout (`poll_timeout=10` in the
adapter), every retry loop is bounded, and `main` catches the exceptions of a cycle. Nothing
is assumed of the broker, nor of restarts. An outage is bounded by `MaxBad`, not by fairness.
`ThrottleReleases` and `CapEnforced` need weak fairness of the manager's `Round` (its loop
catches every exception and polls again after its interval), of `Receive` (a desk drains
`risk_sub` at the top of each iteration) and of `NextHour` (time passes). With `Stalls` FALSE
an hour does not pass without a round, 15 seconds against an hour; failures are bounded by
`MaxFailed`. `fifo` and `neat` check safety and need none.

Deadlock is checked in every run: the loop always has a next step.

## 5. What is proved

Proofs are in modules of their own. They hold for every list of pairs, every set of PSAR
pairs and of faults, and every value of the bounds allowed by `PairSeqAssumption`,
`PsarAssumption` and `BoundsAssumption`; extra assumptions are named in the theorem.

**`StackDeskProofs`**, no further assumption: reads may fail, requests may be executed late,
the process may die at any point.
- `TypeCorrect`, and `Inductive`: `IInv == TypeOK /\ Tracking /\ BootClean /\ RowsTruthful
  /\ Whole`. `Tracking` is needed for `RowsTruthful` because a row is copied from `st`.
  `BootClean` (no captured exit before the loop starts) is needed for `Tracking` because an
  adoption keeps `pending_exit_px`. The key lemma is that a tracked position stays tracked
  however the broker's trades change, since trades only ever are cut or end (`TrackingStep`
  and the facts about `Netting` and `Executed` it rests on). `Whole` says that no trade is
  cut where no order is smaller than what it meets; the theorems that need it say so.
- `TrackingHolds`, `RowsAreTruthful`. A `closed_broker` row is true in that its trade has
  closed or an opposite order has cut it; the second is what the code makes of a cut trade.

**`StackDeskRefinement`**, assuming `ExactExit`: reads of open trades are exact, or no pair
has a PSAR exit and no order cuts a trade.
- `NoPhantoms`: through `RInv`, which adds to `IInv` that only PSAR pairs have a captured
  exit (`PsarOnly`), that with exact reads the details are read only of a trade that has
  ended (`DetailsClosed`), and that trades are within their bound.
- `DeskImplementsBook`: initial states map to the empty book; each action maps to `Open`,
  `Close`, `Book` or a stutter.

**`StackDeskOutage`**
- `NoFalseCloses`, assuming no order that cuts a trade and `ShortOutage`: no PSAR pairs and
  `MaxBad <= ReVerify`. `OInv`
  adds `Missed`: when an open trade is being given up, every read since the first has failed,
  so `bad >= n`; after `ReVerify` re-reads `bad` would exceed its bound. The bound is tight:
  with `MaxBad = ReVerify + 1` TLC finds an open trade given up.
- `OnePosition`, assuming `BriefOutage`: in addition `MaxBad <= 2`, no request in doubt, and
  candles at the start. `SInv` counts, pair by pair, how many reads of the start have passed
  over an open trade that the desk does not know: both adoptions and the guard must have
  missed it before an order can go out, one read more than the bound allows. Orders may be of
  any size: one goes out on a flat account only, so nothing is ever cut (`Uncut`).

- `NoCloseIsLost`, assuming `QuietRun` (no restart, reads and details that answer, a database
  that answers, no request in doubt): `NothingUnrecorded`. `KInv` adds to `IInv` that every
  trade is tracked or has its row (`Kept`), that an order goes out on a flat account
  (`Clear`), so that it opens a trade of its own, that details are read only of a trade that
  is gone (`Gone`), and that a tracked trade has an entry time (`Timed`), without which the
  table would refuse its row.

**`SharedTableProofs`**, assuming of the others only that their rows are not of this account
(`OthersAssumption`).
- `ContainerAlone`: `SharedSpec => AloneInTable`. Every action of the container that does not
  write is the same action of `Alone` (`SilentSteps`, with one fault more); `InsertAlone` is
  the case that matters, a row refused for another's id (one without an entry time is refused
  in both); another's row is a stutter.
- `TrackingAmongOthers`, `RowsTruthfulAmongOthers`; `NoPhantomsAmongOthers` and
  `BookAmongOthers` (under `ExactExit`), `NoFalseCloseAmongOthers` (`ShortOutage`, no cut
  trades), `OnePositionAmongOthers` (`BriefOutage`): the theorems of the three modules
  above, cited of the instance `Solo` with the container's own rows and a database that may
  fail, and carried over by `ContainerAlone`'s lemmas. `NoCloseIsLost` is not among them,
  since it needs writes that succeed; `v_prefix` shows that among others it is false.

**`StackSignalProofs`**, for all periods with `N1` dividing `N2`, all `Need` and price sets.
- `SignalTypeCorrect`, `EntriesAreFresh`: `SInv` ties the flags of a timeframe to the history
  variables (`Remembers`).
- `TimeframesInLockstep`, `EntriesAtBarEnd`: `LInv` adds `Lockstep /\ FiresAtBarEnd`;
  arithmetic on `%` is isolated in lemmas about counters.
- `BarsAreAggregates`: `AInv` adds that the S5 bars since the TF2 bar began are as many as
  TF2 counted, and that each bar in progress holds the first open, last close and extremes of
  its share of them (`Holds`).

**`RiskOverlayProofs`**
- `MarkIsOfTheDay`, assuming `RealDay`: a day has at least two hours and none passes without
  a round. `MarkInv` says where the comparison of hours and the day agree: the first round of
  hour 0 is still to come exactly when the mark was taken at another hour. With days of one
  hour, or with a stall of a whole hour, the property is false.
- `ConcentrationIsBlocked`, no further assumption, about rounds in which no read failed:
  `HoldInv` says that what was held since
  the round began has been counted in every account that was read.
- `OverlayTypeCorrect`, no further assumption. NAVs and exposures are sums over finite sets
  (`MapThenSumSet`, a recursive function on their subsets). That such a sum exists, is the
  only one and is a number (`SumExists`, `SumsAgree`, `SumType`) is proved by a smallest
  subset for which it is not (`SmallestSubset`, from the well-foundedness of strict
  inclusion on finite sets), without an induction theorem.
- `ExposureIsContained`, no further assumption: where a currency is over its cap, the exposure
  is not 0 and the side that would add to it is the one blocked (`OverCapExposed`,
  `OtherSideReduces`); a side left open moves the exposure back towards 0. Over its cap means
  by more than half a tenth of a percent of the total: less is rounded away before the code
  compares, and such an excess does stay open.

**`FifoDeskProofs`**, no further assumption.
- `FifoTypeCorrect`, `FifoDeskTracks`, `FifoRowsTruthful`, `PendingIsSound`: `FInv` adds to
  them `Stages`, what is still to be executed at each stage of the desk's round. The lemma it
  rests on is about the engine (`BarFacts`): what `BarResult` does to position, pending
  entry, high-water level and column for any bar and spread.
- `StopsRatchet`: from the same invariant, as an action property.
- `FifoOrphansAccounted`, `FifoLossesAccounted`: `Accounts` makes the two bounds inductive.
  An order in doubt counts as an orphan before it is executed (`OrphanCount`); an open trade
  counts as unrecorded unless the desk holds it under an entry time of its own (`LossCount`).
  Between a close and its row, and between a restart and its adoption, one trade is between
  the two counts.
  An adopted trade, whose row the table refuses, was left by a restart that counts for it.
- `FifoImplementsBook`: `BInv` adds that the row about to be written at a certain price is
  about a closed trade; each action maps to `Open`, `Close`, `Book` or a stutter. A row at 0.0,
  the price of a close without a fill, is never certain and books nothing.

**`NeatDeskProofs`**, no further assumption.
- `NeatTypeCorrect`, `NeatTracks`, `NeatRecordsTruthful`, `NeatNothingUnrecorded`: `NInv`
  adds `Stage`, the shape of the agenda. An order stands only for a flat pair or behind its
  own close, a record only at the head, right after the close or the details it is made
  from, and the idle read names each pair once. Without it a record could be made of a state
  that has already been reset. `Settled` says that the record of a trade the desk closed is
  the next thing it does; `Naive` that a time without offset is that of an adopted trade.
  A record whose id another account's row has (`foreign`) is dropped, and that is a cause of
  its own in `NothingUnrecorded`.
- `NeatOrphansAccounted`: `Accounts` says that the failures noted are numbered up to `failed`
  (`Numbered`) and counts the open trades that no pair keeps (`OrphanCount`). A pair keeps its
  trade until the running handler is bound to drop it; a restart forgets one trade per pair at
  most, which the adoption takes up again or, if its read fails, is noted of each.
- `NeatImplementsBook`: `OnlyClosed` says that, where neither close nor read fails, a trade
  being dropped or on record is closed; otherwise `RecordsTruthful` says it of the broker's
  prices. The writer's insert is `Book`; losses, restarts and the sockets are stutters.

Only model-checked: `Released`, `ThrottleReleases` and `CapEnforced`. They are liveness
properties under fairness, and so are their steps through `ENABLED`. Every invariant and action
property of the passing runs is a theorem, for `NoPhantomRows`, `NoFalseClose`,
`SinglePosition`, `MarkIsTodays` and `StackDesk!NothingUnrecorded` under the assumption named
with it; each is satisfied by the constants of the run that checks the property.

## 6. What is not modelled

*StackDesk.* Order sizes, but for an order that cuts a larger trade; the `units` column. The
value of the MFE, SMA and PSAR arithmetic: arming, triggers and alignments are choices. The
times of S5 bars, so neither gaps nor the clock alignment of timeframes after a restart. The
details of a candle in the desk. `_refresh_units`, logging, Telegram. Trades on the account
made by hand. A crash is modelled between two actions: a crash within one, between the
broker's effect and the assignment, equals a late execution followed by a restart, or the
broker's action and then the crash.

*FIFO desk.* The paper desk, the status file, counters, messages. Which M5 candles a poll
skips is no part of the state: the engine may meet any bar next.

*NEAT desk.* The networks and their inputs, sizes, spread, several genomes in one process,
shadow trades, the content of a curator message beyond what it makes the handler do.

*Portfolio manager.* The Sharpe-based allocation, the `portfolio_state` message, the
`account_summary` table and the exchange rate; every trade has the same notional. Rounding is
exact in the model: a value midway between two steps, where doubles may go either way, goes
down.

*Whole components.* The curator and the zone-recovery strategies are next in the plan. The
other live strategies vary the loop of `StackDesk`. Indicators, features, sizing and the
research code are numerical code without the control TLC could say anything about; it is
most of the repository by size. Dashboards and monitors only read. Every component is listed
with its reason in `PROJECT.json`.

## 7. Where the code departs from its comments

Five departures are runs that TLC refutes, with the comment each quotes in `PROJECT.json`:

1. `v_prefix`: rows are keyed on the literal `010` for every account, so two accounts whose
   broker gave the same short id to a trade share a key, and the second row is dropped.
2. `v_phantom`: a *failed* PSAR close leaves an estimated exit that `reconcile_open_trade`
   trusts without its re-verify; with one lost read, a row is written for an open trade.
3. `v_guard`: the flip guard cannot see a failed read, since the adapter returns `[]`.
4. `v_acked`: a second triggering bar in the same poll closes the trade again and replaces
   the acknowledged fill by an estimate.
5. `v_hold`: the flip guard adopts without an entry time and the reset does not clear it, so
   the hold time of a row counts from an earlier trade's entry. (Without an earlier entry the
   table refuses the row, `lib/db.py:192`.)

Others are in the models as the code has them, and the properties are stated around them:

- `strategy_neat/main.py:916`: an adopted trade's `open_time` has no UTC offset, so its
  record is never sent. `NothingUnrecorded` excepts adopted trades.
- `strategy_neat/main.py:1056`: `datetime` is a local name of `run` that only one branch
  binds (line 1143), so the max-hold check raises until that branch has run, and for ever in
  the H1 modes. `HoldExceeded` has `bound` as a conjunct.
- `strategy_neat/main.py:1243`: a failed read of the open trades closes every tracked trade
  in the books, as the `except` that should skip the round is never reached. `Idle` does so,
  and `OrphansAccounted` counts it.
- `strategy_neat/main.py:924, 1312`: records carry the raw OANDA id, which is unique in its
  account only, into the table all accounts share. The comment at
  `strategy_sma_stack_live/main.py:587-588` names this collision. `OthersWrite` and `Insert`
  have it, and `NothingUnrecorded` names it as a cause.
- `lib/db.py:192`: `entry_time` is `NOT NULL`, and an adopted trade's may be the empty string
  (`strategy_sma_stack_live/main.py:476`, always in `strategy_fifo_live`). Its row is refused on
  every attempt. `Insert` of both desks refuses it; `LossesAccounted` counts it.
- `lib/oanda_adapter.py:99`: a close answered 200 without a fill is a success at 0.0, and
  `check_s5_trail` "Returns True if position was closed". `CloseTrade` of `FifoDesk` has it
  (`nofill`); the row says 0.0 and the open trade is one of `OrphansAccounted`.
- `strategy_sma_stack_live/main.py:544`: an `averageClosePrice` is taken for the close of the
  trade, but a trade that was cut has one and is open (`oanda_adapter.py:222`). With a request
  in doubt and a lost read, such a trade is booked as `closed_broker`. `Priced` has it;
  `RowsTruthful` allows it and `NoFalseCloses` excludes it.
- `portfolio_mgr/main.py:277`: the share is rounded to a tenth of a percent before it is
  compared with the cap, so a slight excess blocks nothing. `OverCap` rounds.
- `strategy_fifo_live/main.py:213`: the comment leaves the trail to the S5 check, but a trail
  exit of the M5 bar is executed as well. `M5Exit` does both.
- `lib/pnf_engine.py:65`: "no float drift" does not hold on all box boundaries. `LowEdges` are
  those that round down.
- `lib/db.py:305`: the ZMQ writer is not the only one that writes the file; `Locked` is the
  race that costs it a record.

## 8. Running

    tlc -config desk_outage.cfg MCStackDesk      (also desk_record, v_*)
    tlc -config desk_trail.cfg MCSharedTable
    tlc -config signal.cfg MCStackSignal
    tlc -config v_prefix.cfg MCTwoDesks
    tlc -config fifo.cfg MCFifoDesk
    tlc -config neat.cfg MCNeatDesk
    tlc -config overlay.cfg MCRiskOverlay
    tlapm StackDeskProofs.tla                    (also StackDeskRefinement, StackDeskOutage,
                                                  SharedTableProofs, StackSignalProofs,
                                                  FifoDeskProofs, NeatDeskProofs,
                                                  RiskOverlayProofs)
