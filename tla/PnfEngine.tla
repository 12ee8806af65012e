----------------------------- MODULE PnfEngine -----------------------------
(***************************************************************************)
(* lib/pnf_engine.py: the point-and-figure chart and the entry and exit    *)
(* rules that every FIFO-Trends service imports.  Operators on one engine  *)
(* state, no variables: process_bar is pure, its caller does the I/O.      *)
(*                                                                         *)
(* A price is a natural number of price steps, a box is BS of them.  int() *)
(* of the float quotient price / bs may fall one box low when the price is *)
(* exactly a box boundary (int(150.05 / 0.05) is 3000): LowEdges are the   *)
(* boundaries where it does.  An entry price is its provenance, the trade  *)
(* it is the fill of.                                                      *)
(***************************************************************************)
EXTENDS Integers, Sequences, SequencesExt

CONSTANTS
    BS,             (* price steps in a box: box_pips * pip                    *)
    Rev,            (* boxes of a reversal                                     *)
    NMin,           (* n_min: length of the column an entry must come from     *)
    TrailD,         (* trail distance in boxes                                 *)
    X7K,            (* columns in the X7 average; 0 turns X7 off               *)
    HistDepth,      (* MAX_COL_HIST (10 in the code)                           *)
    PriceBasedRev,  (* cfg.price_based_rev                                     *)
    LowEdges        (* box boundaries that the float quotient rounds down      *)

ASSUME EngineAssumption ==
    /\ BS \in Nat \ {0} /\ Rev \in Nat \ {0} /\ NMin \in Nat /\ TrailD \in Nat
    /\ X7K \in Nat /\ HistDepth \in Nat \ {0} /\ PriceBasedRev \in BOOLEAN
    /\ \A e \in LowEdges : e \in Nat /\ e > 0 /\ e % BS = 0

Dirs == {-1, 1}
None == 0
Mid  == -2    \* the entry price of process_bar: the bar's close, until the fill is known

PnFState == [idx : Int, dir : {-1, 0, 1}, col_count : Nat, prev_col : Nat, col_hist : Seq(Nat),
             pos : {-1, 0, 1}, entry_px : Int, hw_level : Int, pending : {-1, 0, 1}]

Fresh == [idx |-> 0, dir |-> 0, col_count |-> 0, prev_col |-> 0, col_hist |-> <<>>,
          pos |-> 0, entry_px |-> None, hw_level |-> 0, pending |-> 0]

-----------------------------------------------------------------------------
(* _update_pnf: one price of the bar moves the chart.                       *)

Box(price) == price \div BS - (IF price \in LowEdges THEN 1 ELSE 0)

Level(s) == s.idx * BS

\* Boxes the price lies beyond the column's extreme (negative: boxes it fell back).
Gain(s, price) == s.dir * (Box(price) - s.idx)

RevTriggered(s, price) ==
    IF PriceBasedRev THEN s.dir * (Level(s) - price) >= Rev * BS
                     ELSE Gain(s, price) <= -Rev

Reverses(s, price) == s.dir # 0 /\ Gain(s, price) < 1 /\ RevTriggered(s, price)

PushedUncapped(hist, height) == <<height>> \o hist    \* mutant: a buffer that never wraps

\* The ring buffer of completed column heights, latest first.
Pushed(hist, height) ==
    SubSeq(<<height>> \o hist, 1, IF Len(hist) < HistDepth THEN Len(hist) + 1 ELSE HistDepth)

Started(s, price)  == [s EXCEPT !.idx = Box(price), !.dir = 1, !.col_count = 1]

Extended(s, price) == [s EXCEPT !.idx = Box(price), !.col_count = @ + Gain(s, price)]

Reversed(s, price) ==
    [s EXCEPT !.idx = Box(price), !.dir = -@, !.prev_col = s.col_count,
              !.col_hist = Pushed(@, s.col_count),
              !.col_count = IF Gain(s, price) < -1 THEN -Gain(s, price) ELSE 1]

UpdatePnf(s, price) ==
    CASE s.dir = 0                         -> Started(s, price)
      [] s.dir # 0 /\ Gain(s, price) >= 1  -> Extended(s, price)
      [] Reverses(s, price)                -> Reversed(s, price)
      [] OTHER                             -> s

-----------------------------------------------------------------------------
(* process_bar: one closed M5 bar.                                          *)

First(bar)  == IF bar.bull THEN bar.high ELSE bar.low
Second(bar) == IF bar.bull THEN bar.low ELSE bar.high

HighWaterLast(s) ==                 \* mutant: the last extreme, not the best one
    IF s.pos # 0 /\ s.dir = s.pos THEN [s EXCEPT !.hw_level = Level(s)] ELSE s

\* The high-water level follows the chart's extreme in the direction of the position.
HighWater(s) ==
    IF s.pos # 0 /\ s.dir = s.pos /\ s.pos * Level(s) > s.pos * s.hw_level
    THEN [s EXCEPT !.hw_level = Level(s)] ELSE s

TrailHit(s, low, high) ==
    \/ s.pos = 1  /\ low  <= s.hw_level - TrailD * BS
    \/ s.pos = -1 /\ high >= s.hw_level + TrailD * BS

\* X7: the opposite column is as long as the mean of the last X7K completed ones.
X7Hit(s) ==
    LET last == SubSeq(s.col_hist, 1, IF Len(s.col_hist) < X7K THEN Len(s.col_hist) ELSE X7K)
        sum  == FoldLeft(LAMBDA a, b : a + b, 0, last)
    IN  /\ s.pos # 0 /\ s.dir # s.pos
        /\ sum > 0
        /\ s.col_count * Len(last) >= sum

ExitReason(s, bar) ==
    CASE TrailHit(s, bar.low, bar.high)             -> "trail"
      [] ~TrailHit(s, bar.low, bar.high) /\ X7Hit(s) -> "x7"
      [] OTHER                                      -> "-"

Closed(s) == [s EXCEPT !.pos = 0, !.entry_px = None, !.hw_level = 0]

PendingKept(s, qualified, did_rev) ==      \* mutant: a reversal does not cancel
    IF qualified THEN s.dir ELSE s.pending

\* The E2 direction: set by a reversal out of a long column while the spread is
\* narrow, cancelled by a reversal the other way whatever the spread is.
Pending(s, qualified, did_rev) ==
    LET p == IF qualified THEN s.dir ELSE s.pending
    IN  IF did_rev /\ p # s.dir THEN 0 ELSE p

Enters(s, spreadOK) == spreadOK /\ s.pending # 0 /\ s.dir = s.pending /\ s.col_count > Rev

Opened(s) == [s EXCEPT !.pos = s.pending, !.entry_px = Mid, !.hw_level = Level(s), !.pending = 0]

\* What process_bar returns: the exit (of which position) and the entry, if any.
\* The column that the first price of the bar ended is preferred to the second's.
BarResult(s, bar, spreadOK) ==
    LET mid       == UpdatePnf(s, First(bar))
        chart     == UpdatePnf(mid, Second(bar))
        rev1      == Reverses(s, First(bar))
        did_rev   == rev1 \/ Reverses(mid, Second(bar))
        prev_col  == IF rev1 THEN mid.prev_col ELSE chart.prev_col
        held      == HighWater(chart)
        reason    == ExitReason(held, bar)
        flat      == IF reason = "-" THEN held ELSE Closed(held)
        qualified == spreadOK /\ did_rev /\ prev_col >= NMin
        waiting   == [flat EXCEPT !.pending = Pending(flat, qualified, did_rev)]
        enters    == flat.pos = 0 /\ Enters(waiting, spreadOK)
    IN  [st    |-> IF flat.pos # 0 THEN flat ELSE IF enters THEN Opened(waiting) ELSE waiting,
         exit  |-> reason, pos |-> held.pos, entry_px |-> held.entry_px,
         entry |-> IF enters THEN waiting.pending ELSE 0]
=============================================================================
