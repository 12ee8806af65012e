---------------------------- MODULE FifoDeskProofs ----------------------------
(***************************************************************************)
(* Theorems about FifoDesk: whatever the box size, reversal, trail and     *)
(* history of the engine, the prices, the faults and the bounds.           *)
(***************************************************************************)
EXTENDS FifoDesk, SequenceTheorems, FiniteSetTheorems, TLAPS

\* A chart whose history is within the ring buffer.
Sized(s) == s \in PnFState /\ Len(s.col_hist) <= HistDepth

\* PendingFollowsChart, of any engine state.
PendingOk(s) == s.pending # 0 => s.pos = 0 /\ s.dir = s.pending /\ s.col_hist # <<>>

\* What the engine's chart leaves alone.
SamePosition(s, t) ==
    t.pos = s.pos /\ t.entry_px = s.entry_px /\ t.hw_level = s.hw_level /\ t.pending = s.pending

-----------------------------------------------------------------------------
(* The engine.                                                              *)

\* A price has a box, and a distance in boxes from the column's extreme.
LEMMA BoxType ==
    ASSUME NEW s \in PnFState, NEW price \in Nat
    PROVE  Box(price) \in Int /\ Gain(s, price) \in Int
<1>1. Box(price) \in Int
  BY EngineAssumption DEF Box
<1> DEFINE away == Box(price) - s.idx
<1>2. away \in Int /\ s.dir \in {-1, 0, 1}
  BY <1>1 DEF PnFState
<1> HIDE DEF away
<1>3. s.dir * away \in Int
  BY <1>2
<1> QED
  BY <1>1, <1>3 DEF Gain, away

\* The ring buffer holds heights, never too many, and one at least once one is pushed.
LEMMA PushedFacts ==
    ASSUME NEW hist \in Seq(Nat), NEW height \in Nat, Len(hist) <= HistDepth
    PROVE  /\ Pushed(hist, height) \in Seq(Nat) /\ Len(Pushed(hist, height)) <= HistDepth
           /\ Pushed(hist, height) # <<>>
<1> DEFINE all == <<height>> \o hist
           k   == IF Len(hist) < HistDepth THEN Len(hist) + 1 ELSE HistDepth
<1>1. <<height>> \in Seq(Nat) /\ Len(<<height>>) = 1 /\ Len(hist) \in Nat
  BY LenProperties
<1>2. all \in Seq(Nat) /\ Len(all) = Len(hist) + 1
  BY <1>1, ConcatProperties
<1>3. k \in Nat /\ k >= 1 /\ k <= HistDepth /\ k <= Len(hist) + 1
  BY <1>1, EngineAssumption
<1> HIDE DEF all, k
<1>4. \A i \in 1..k : all[i] \in Nat
  BY <1>1, <1>2, <1>3, ElementOfSeq
<1>5. SubSeq(all, 1, k) \in Seq(Nat) /\ Len(SubSeq(all, 1, k)) = k
  BY <1>3, <1>4, SubSeqProperties
<1>6. SubSeq(all, 1, k) # <<>>
  <2> DEFINE kept == SubSeq(all, 1, k)
  <2>1. Len(kept) # 0
    BY <1>3, <1>5
  <2> HIDE DEF kept
  <2>2. kept # <<>>
    BY <2>1
  <2> QED
    BY <2>2 DEF kept
<1> QED
  BY <1>3, <1>5, <1>6 DEF Pushed, all, k

\* One price moves the chart only; a reversal turns the column and is remembered.
LEMMA UpdateFacts ==
    ASSUME NEW s, Sized(s), NEW price \in Nat
    PROVE  LET t == UpdatePnf(s, price)
           IN  /\ Sized(t) /\ SamePosition(s, t) /\ t.dir # 0
               /\ Reverses(s, price) => t.col_hist # <<>>
               /\ ~Reverses(s, price) =>
                    t.col_hist = s.col_hist /\ (s.dir # 0 => t.dir = s.dir)
<1> DEFINE t == UpdatePnf(s, price)
           box == Box(price)
           gain == Gain(s, price)
<1>1. box \in Int /\ gain \in Int /\ s \in PnFState /\ Len(s.col_hist) <= HistDepth
  BY BoxType DEF Sized
<1>2. CASE s.dir = 0
  <2>0. ~Reverses(s, price)
    BY <1>2 DEF Reverses
  <2>1. t = [s EXCEPT !.idx = box, !.dir = 1, !.col_count = 1]
    BY <1>2, <2>0 DEF UpdatePnf, Started
  <2> HIDE DEF t, box
  <2>2. t \in PnFState /\ t.dir = 1 /\ t.col_hist = s.col_hist /\ SamePosition(s, t)
    BY <1>1, <2>1 DEF PnFState, SamePosition
  <2> QED
    BY <1>1, <1>2, <2>2 DEF Sized, t, Reverses
<1>3. CASE s.dir # 0 /\ gain >= 1
  <2> DEFINE count == s.col_count + gain
  <2>1. ~Reverses(s, price)
    BY <1>1, <1>3 DEF Reverses
  <2>2. count \in Nat
    BY <1>1, <1>3 DEF PnFState
  <2>3. t = [s EXCEPT !.idx = box, !.col_count = count]
    BY <1>3, <2>1 DEF UpdatePnf, Extended
  <2> HIDE DEF t, box, count, gain
  <2>4. t \in PnFState /\ t.dir = s.dir /\ t.col_hist = s.col_hist /\ SamePosition(s, t)
    BY <1>1, <2>2, <2>3 DEF PnFState, SamePosition
  <2> QED
    BY <1>1, <1>3, <2>1, <2>4 DEF Sized, t
<1>4. CASE Reverses(s, price)
  <2> DEFINE hist == Pushed(s.col_hist, s.col_count)
             count == IF gain < -1 THEN -gain ELSE 1
             dir == -s.dir
             height == s.col_count
  <2>1. s.dir # 0 /\ ~(gain >= 1)
    BY <1>1, <1>4 DEF Reverses
  <2>2. t = [s EXCEPT !.idx = box, !.dir = dir, !.prev_col = height, !.col_hist = hist,
                      !.col_count = count]
    BY <1>4, <2>1 DEF UpdatePnf, Reversed
  <2>3. hist \in Seq(Nat) /\ Len(hist) <= HistDepth /\ hist # <<>>
    BY <1>1, PushedFacts DEF PnFState
  <2>4. count \in Nat /\ dir \in {-1, 0, 1} /\ dir # 0 /\ height \in Nat
    BY <1>1, <2>1 DEF PnFState
  <2> HIDE DEF t, box, count, hist, dir, height, gain
  <2>5. t \in PnFState /\ t.dir = dir /\ t.col_hist = hist /\ SamePosition(s, t)
    BY <1>1, <2>2, <2>3, <2>4 DEF PnFState, SamePosition
  <2> QED
    BY <1>4, <2>3, <2>4, <2>5 DEF Sized, t
<1>5. CASE s.dir # 0 /\ ~(gain >= 1) /\ ~Reverses(s, price)
  <2>1. t = s
    BY <1>5 DEF UpdatePnf
  <2> QED
    BY <1>1, <1>5, <2>1 DEF Sized, SamePosition
<1> QED
  BY <1>2, <1>3, <1>4, <1>5

\* The high-water level only moves in the favour of the position.
LEMMA HighWaterFacts ==
    ASSUME NEW s, Sized(s)
    PROVE  LET t == HighWater(s)
           IN  /\ Sized(t) /\ t.pos = s.pos /\ t.entry_px = s.entry_px
               /\ t.dir = s.dir /\ t.pending = s.pending /\ t.col_hist = s.col_hist
               /\ t.hw_level \in Int /\ s.pos * t.hw_level >= s.pos * s.hw_level
<1> DEFINE level == Level(s)
<1>1. s \in PnFState /\ Len(s.col_hist) <= HistDepth /\ s.hw_level \in Int /\ s.pos \in {-1, 0, 1}
  BY DEF Sized, PnFState
<1>2. level \in Int
  BY <1>1, EngineAssumption DEF Level, PnFState
<1> HIDE DEF level
<1>3. CASE HighWater(s) = s
  BY <1>1, <1>3 DEF Sized
<1>4. CASE s.pos * level > s.pos * s.hw_level /\ HighWater(s) = [s EXCEPT !.hw_level = level]
  <2>1. LET t == HighWater(s)
        IN  /\ t \in PnFState /\ t.pos = s.pos /\ t.entry_px = s.entry_px /\ t.dir = s.dir
            /\ t.pending = s.pending /\ t.col_hist = s.col_hist /\ t.hw_level = level
    BY <1>1, <1>2, <1>4 DEF PnFState
  <2>2. s.pos * level >= s.pos * s.hw_level
    BY <1>1, <1>2, <1>4
  <2> QED
    BY <1>1, <1>2, <2>1, <2>2 DEF Sized
<1> QED
  BY <1>3, <1>4 DEF HighWater, level

\* What an engine state is after an exit, and after an entry.
LEMMA ClosedFacts ==
    ASSUME NEW s, Sized(s)
    PROVE  /\ Sized(Closed(s)) /\ Closed(s).pos = 0 /\ Closed(s).entry_px = None
           /\ Closed(s).dir = s.dir /\ Closed(s).pending = s.pending
           /\ Closed(s).col_hist = s.col_hist
           /\ Sized(Unopened(s)) /\ Unopened(s).pos = 0 /\ Unopened(s).pending = 0
<1>1. s \in PnFState /\ Len(s.col_hist) <= HistDepth
  BY DEF Sized
<1>2. /\ Closed(s) \in PnFState /\ Closed(s).pos = 0 /\ Closed(s).entry_px = None
      /\ Closed(s).dir = s.dir /\ Closed(s).pending = s.pending /\ Closed(s).col_hist = s.col_hist
  <2> DEFINE flat == 0
             none == None
             low  == 0
  <2>1. Closed(s) = [s EXCEPT !.pos = flat, !.entry_px = none, !.hw_level = low]
    BY DEF Closed
  <2>2. flat \in {-1, 0, 1} /\ none \in Int /\ low \in Int
    BY DEF None
  <2> HIDE DEF flat, none, low
  <2>3. /\ Closed(s) \in PnFState /\ Closed(s).pos = flat /\ Closed(s).entry_px = none
        /\ Closed(s).dir = s.dir /\ Closed(s).pending = s.pending /\ Closed(s).col_hist = s.col_hist
    BY <1>1, <2>1, <2>2 DEF PnFState
  <2> QED
    BY <2>3 DEF flat, none
<1> DEFINE c == Closed(s)
<1>3. Unopened(s) = [c EXCEPT !.pending = 0]
  BY DEF Unopened
<1> HIDE DEF c
<1>4. c \in PnFState /\ c.pos = 0 /\ c.col_hist = s.col_hist
  BY <1>2 DEF c
<1>5. /\ Unopened(s) \in PnFState /\ Unopened(s).pos = 0 /\ Unopened(s).pending = 0
      /\ Unopened(s).col_hist = s.col_hist
  BY <1>3, <1>4 DEF PnFState
<1> QED
  BY <1>1, <1>2, <1>5 DEF Sized

LEMMA OpenedFacts ==
    ASSUME NEW s, Sized(s)
    PROVE  /\ Sized(Opened(s)) /\ Opened(s).pos = s.pending /\ Opened(s).pending = 0
<1> DEFINE level == Level(s)
           dir   == s.pending
<1>1. s \in PnFState /\ Len(s.col_hist) <= HistDepth /\ dir \in {-1, 0, 1} /\ Mid \in Int
  BY DEF Sized, PnFState, Mid
<1>2. level \in Int
  BY <1>1, EngineAssumption DEF Level, PnFState
<1>3. Opened(s) = [s EXCEPT !.pos = dir, !.entry_px = Mid, !.hw_level = level, !.pending = 0]
  BY DEF Opened
<1> HIDE DEF level, dir
<1>4. /\ Opened(s) \in PnFState /\ Opened(s).pos = dir /\ Opened(s).pending = 0
      /\ Opened(s).col_hist = s.col_hist
  BY <1>1, <1>2, <1>3 DEF PnFState
<1> QED
  BY <1>1, <1>4 DEF Sized, dir

\* A bar: it closes the position it was given or none; without an exit a position
\* goes on, its level no worse; it enters only from flat, and what is pending is sound.
LEMMA BarFacts ==
    ASSUME NEW s, Sized(s), PendingOk(s), NEW b \in Bars, NEW ok \in BOOLEAN
    PROVE  LET r == BarResult(s, b, ok)
           IN  /\ Sized(r.st) /\ PendingOk(r.st)
               /\ r.exit \in {"-", "trail", "x7"}
               /\ r.pos = s.pos /\ r.entry_px = s.entry_px /\ r.entry \in {-1, 0, 1}
               /\ r.exit = "-" /\ s.pos # 0 =>
                    /\ r.entry = 0 /\ r.st.pos = s.pos /\ r.st.entry_px = s.entry_px
                    /\ s.pos * r.st.hw_level >= s.pos * s.hw_level
               /\ r.entry = 0 /\ (r.exit # "-" \/ s.pos = 0) => r.st.pos = 0
               /\ r.entry # 0 => r.st.pos = r.entry
<1> DEFINE mid       == UpdatePnf(s, First(b))
           chart     == UpdatePnf(mid, Second(b))
           rev1      == Reverses(s, First(b))
           rev2      == Reverses(mid, Second(b))
           prev_col  == IF rev1 THEN mid.prev_col ELSE chart.prev_col
           held      == HighWater(chart)
           reason    == ExitReason(held, b)
           flat      == IF reason = "-" THEN held ELSE Closed(held)
           qualified == ok /\ (rev1 \/ rev2) /\ prev_col >= NMin
           wait      == Pending(flat, qualified, rev1 \/ rev2)
           waiting   == [flat EXCEPT !.pending = wait]
           enters    == flat.pos = 0 /\ Enters(waiting, ok)
           r         == BarResult(s, b, ok)
<1>1. r = [st    |-> IF flat.pos # 0 THEN flat ELSE IF enters THEN Opened(waiting) ELSE waiting,
           exit  |-> reason, pos |-> held.pos, entry_px |-> held.entry_px,
           entry |-> IF enters THEN waiting.pending ELSE 0]
  BY DEF BarResult
<1>2. First(b) \in Nat /\ Second(b) \in Nat
  BY DeskAssumption DEF First, Second, Bars
<1>3. /\ Sized(mid) /\ SamePosition(s, mid) /\ mid.dir # 0
      /\ rev1 => mid.col_hist # <<>>
      /\ ~rev1 => mid.col_hist = s.col_hist /\ (s.dir # 0 => mid.dir = s.dir)
  BY <1>2, UpdateFacts
<1> HIDE DEF mid, rev1
<1>4. /\ Sized(chart) /\ SamePosition(mid, chart) /\ chart.dir # 0
      /\ rev2 => chart.col_hist # <<>>
      /\ ~rev2 => chart.col_hist = mid.col_hist /\ chart.dir = mid.dir
  BY <1>2, <1>3, UpdateFacts
<1> HIDE DEF chart, rev2
<1>5. /\ SamePosition(s, chart) /\ chart.dir # 0
      /\ rev1 \/ rev2 => chart.col_hist # <<>>
      /\ ~rev1 /\ ~rev2 => chart.col_hist = s.col_hist /\ (s.dir # 0 => chart.dir = s.dir)
  BY <1>3, <1>4 DEF SamePosition
<1>6. /\ Sized(held) /\ held.pos = s.pos /\ held.entry_px = s.entry_px
      /\ held.dir = chart.dir /\ held.pending = s.pending /\ held.col_hist = chart.col_hist
      /\ s.pos * held.hw_level >= s.pos * s.hw_level
  BY <1>4, <1>5, HighWaterFacts DEF SamePosition
<1> HIDE DEF held
<1>7. reason \in {"-", "trail", "x7"}
  BY DEF ExitReason
<1> HIDE DEF reason
<1>8. /\ Sized(flat) /\ flat.dir = chart.dir /\ flat.pending = s.pending
      /\ flat.col_hist = chart.col_hist
      /\ reason = "-" => flat = held
      /\ reason # "-" => flat.pos = 0
  BY <1>6, ClosedFacts
<1> HIDE DEF flat, qualified
<1>9. qualified => rev1 \/ rev2
  BY DEF qualified
<1>10. wait \in {-1, 0, 1}
  BY <1>8 DEF Pending, Sized, PnFState
<1>11. flat.pos = 0 /\ wait # 0 => wait = chart.dir /\ chart.col_hist # <<>>
  BY <1>5, <1>8, <1>9 DEF Pending, PendingOk
<1> HIDE DEF wait
<1>12. /\ Sized(waiting) /\ waiting.pending = wait /\ waiting.pos = flat.pos
       /\ waiting.dir = flat.dir /\ waiting.col_hist = flat.col_hist
  BY <1>8, <1>10 DEF Sized, PnFState
<1> HIDE DEF waiting
<1>13. enters => /\ Sized(Opened(waiting)) /\ Opened(waiting).pending = 0
                 /\ Opened(waiting).pos = waiting.pending
  BY <1>12, OpenedFacts
<1>14. enters => flat.pos = 0
  OBVIOUS
<1> HIDE DEF enters, r
<1>15. Sized(r.st)
  BY <1>1, <1>8, <1>12, <1>13
<1>16. PendingOk(r.st)
  <2>1. CASE flat.pos # 0
    <3>1. s.pos # 0
      BY <1>6, <1>8, <2>1
    <3>2. r.st = flat /\ flat.pending = 0
      BY <1>1, <1>8, <2>1, <3>1 DEF PendingOk
    <3> QED
      BY <3>2 DEF PendingOk
  <2>2. CASE flat.pos = 0 /\ enters
    BY <1>1, <1>13, <2>2 DEF PendingOk
  <2>3. CASE flat.pos = 0 /\ ~enters
    BY <1>1, <1>8, <1>11, <1>12, <2>3 DEF PendingOk
  <2> QED
    BY <2>1, <2>2, <2>3
<1>17. r.exit = reason /\ r.pos = s.pos /\ r.entry_px = s.entry_px /\ r.entry \in {-1, 0, 1}
  BY <1>1, <1>6, <1>10, <1>12
<1>18. ASSUME reason = "-", s.pos # 0
       PROVE  r.entry = 0 /\ r.st = held
  BY <1>1, <1>6, <1>8, <1>14, <1>18
<1>19. r.entry = 0 /\ (reason # "-" \/ s.pos = 0) => r.st.pos = 0
  <2> SUFFICES ASSUME r.entry = 0, reason # "-" \/ s.pos = 0 PROVE r.st.pos = 0
    OBVIOUS
  <2>1. flat.pos = 0
    BY <1>6, <1>8
  <2>2. enters => waiting.pending # 0
    BY DEF enters, Enters
  <2> QED
    BY <1>1, <1>12, <2>1, <2>2
<1>20. r.entry # 0 => r.st.pos = r.entry
  BY <1>1, <1>13, <1>14
<1> QED
  BY <1>6, <1>7, <1>15, <1>16, <1>17, <1>18, <1>19, <1>20 DEF r

-----------------------------------------------------------------------------
(* The invariant.                                                           *)

Trade == [dir : Dirs, closer : {"-", "desk", "late", "net"}]

\* The broker opens trades and closes them for good.
Grows ==
    /\ trades' \in Seq(Trade) /\ Len(trades) <= Len(trades')
    /\ \A t \in 1..Len(trades) :
         /\ trades'[t].dir = trades[t].dir
         /\ trades[t].closer # "-" => trades'[t].closer = trades[t].closer

\* What TypeOK leaves to say of each stage: the exit that is recorded, the
\* position the entry is about, and the fill.
Stages ==
    /\ pc = "start" => st = Fresh /\ entry_time = None
    /\ pc = "exit" => sig.exit \in {"trail", "x7"}
    /\ pc = "row" => /\ sig.exit # "-"
                     /\ fill = "broker" => trades[tid].closer = "desk"
    /\ pc \in {"exit", "row"} /\ sig.exit # "trail_s5" /\ sig.entry = 0 => st.pos = 0
    /\ pc \in {"exit", "row", "order"} /\ sig.entry # 0 => st.pos = sig.entry
    /\ pc = "order" => sig.entry # 0
    /\ tid # None => entry_time \in {None, tid}

FInv == TypeOK /\ DeskTracks /\ RowsTruthful /\ PendingFollowsChart /\ Stages

\* What the proofs below need of TypeOK.
LEMMA FFacts ==
    ASSUME FInv
    PROVE  /\ trades \in Seq(Trade) /\ Len(trades) \in Nat /\ Sized(st) /\ PendingOk(st)
           /\ sig \in Signals /\ tid \in Nat /\ entry_time \in Nat \cup {Netted}
           /\ fill \in Fills /\ inflight \subseteq Requests /\ ledger \subseteq Rows
           /\ None \notin 1..Len(trades)
BY LenProperties DEF FInv, TypeOK, Sized, Trade, PendingFollowsChart, PendingOk, None

\* Closing a trade.
LEMMA CloseAsGrows ==
    ASSUME FInv, NEW t \in 1..Len(trades), trades[t].closer = "-",
           NEW who \in {"desk", "late", "net"}, trades' = CloseAs(t, who)
    PROVE  Grows /\ trades'[t].closer = who
<1>1. trades \in Seq(Trade) /\ trades[t] \in Trade
  BY FFacts, ElementOfSeq
<1> DEFINE closed == [trades[t] EXCEPT !.closer = who]
<1>2. closed \in Trade /\ closed.dir = trades[t].dir /\ closed.closer = who
  BY <1>1 DEF Trade
<1>3. trades' = [trades EXCEPT ![t] = closed]
  BY DEF CloseAs
<1> HIDE DEF closed
<1>4. /\ trades' \in Seq(Trade) /\ Len(trades') = Len(trades)
      /\ \A u \in 1..Len(trades) : trades'[u] = IF u = t THEN closed ELSE trades[u]
  BY <1>1, <1>2, <1>3, ExceptSeq
<1>5. Len(trades) \in Nat
  BY FFacts
<1> QED
  BY <1>2, <1>4, <1>5 DEF Grows

\* Executing an order: it opens the next trade, its own side, or nets an old one.
LEMMA ExecutedGrows ==
    ASSUME FInv, NEW d \in Dirs, NEW id \in 0..MaxTrades, Executed(d, id)
    PROVE  /\ Grows
           /\ id # None => id \in 1..Len(trades') /\ trades'[id].dir = d
<1>1. trades \in Seq(Trade) /\ Len(trades) \in Nat
  BY FFacts
<1>2. CASE \E t \in OpenTrades : trades' = CloseAs(t, "net") /\ id = None
  BY <1>2, CloseAsGrows DEF OpenTrades
<1>3. CASE trades' = Append(trades, [dir |-> d, closer |-> "-"]) /\ id = Len(trades) + 1
  <2> DEFINE new == [dir |-> d, closer |-> "-"]
  <2>1. new \in Trade /\ new.dir = d
    BY DEF Trade
  <2> HIDE DEF new
  <2>2. /\ trades' \in Seq(Trade) /\ Len(trades') = Len(trades) + 1
        /\ trades'[Len(trades) + 1] = new
        /\ \A u \in 1..Len(trades) : trades'[u] = trades[u]
    BY <1>1, <1>3, <2>1, AppendProperties DEF new
  <2> QED
    BY <1>1, <1>3, <2>1, <2>2 DEF Grows
<1> QED
  BY <1>2, <1>3 DEF Executed

\* The rows stay true while the broker's trades grow.
LEMMA RowsKept ==
    ASSUME FInv, Grows, ledger' = ledger
    PROVE  RowsTruthful'
<1>1. \A r \in ledger : /\ r.trade \in 1..Len(trades) /\ r.dir = trades[r.trade].dir
                        /\ r.exit_px = "broker" => trades[r.trade].closer = "desk"
  BY DEF FInv, RowsTruthful
<1>2. Len(trades) \in Nat /\ Len(trades') \in Nat
  BY FFacts, LenProperties DEF Grows
<1>3. ASSUME NEW r \in ledger
      PROVE  /\ r.trade \in 1..Len(trades') /\ r.dir = trades'[r.trade].dir
             /\ r.exit_px = "broker" => trades'[r.trade].closer = "desk"
  BY <1>1, <1>2 DEF Grows
<1> QED
  BY <1>3 DEF FInv, RowsTruthful

\* What the desk knows when it starts.
LEMMA FreshFacts == Sized(Fresh) /\ PendingOk(Fresh) /\ Fresh.pos = 0 /\ NoSig \in Signals
<1> DEFINE hist == <<>>
<1>1. hist \in Seq(Nat) /\ Len(hist) = 0
  BY LenProperties
<1>2. Fresh = [idx |-> 0, dir |-> 0, col_count |-> 0, prev_col |-> 0, col_hist |-> hist,
               pos |-> 0, entry_px |-> None, hw_level |-> 0, pending |-> 0]
  BY DEF Fresh
<1> HIDE DEF hist
<1> QED
  BY <1>1, <1>2, EngineAssumption DEF PnFState, None, Sized, PendingOk, NoSig, Signals

\* The initial state.
LEMMA InitFInv == Init => FInv
<1> SUFFICES ASSUME Init PROVE FInv
  OBVIOUS
<1>1. Sized(Fresh) /\ Fresh.pending = 0 /\ Fresh.pos = 0 /\ NoSig \in Signals
  BY FreshFacts DEF Fresh
<1>3. trades \in Seq([dir : Dirs, closer : {"-", "desk", "late", "net"}])
  BY DEF Init
<1>4. TypeOK
  BY <1>1, <1>3, DeskAssumption DEF Init, TypeOK, Fills, None, Sized
<1>5. DeskTracks /\ RowsTruthful /\ PendingFollowsChart /\ Stages
  BY <1>1 DEF Init, DeskTracks, RowsTruthful, PendingFollowsChart, Stages, None
<1> QED
  BY <1>4, <1>5 DEF FInv

-----------------------------------------------------------------------------
(* Every step.                                                              *)

\* The first open trade is adopted, if the read shows it.
LEMMA ReconcileKeeps == FInv /\ Reconcile => FInv'
<1> SUFFICES ASSUME FInv, Reconcile PROVE FInv'
  OBVIOUS
<1>1. /\ pc = "start" /\ pc' = "idle" /\ tid = None /\ st = Fresh /\ entry_time = None
      /\ UNCHANGED <<trades, inflight, ledger, entry_time, sig, fill, n, crashes>>
  BY DEF Reconcile, brokerVars, FInv, DeskTracks, Stages
<1>2. failed' \in 0..MaxFailed
  BY DeskAssumption DEF Reconcile, Fail, FInv, TypeOK
<1>3. /\ Sized(st') /\ PendingOk(st') /\ tid' \in Nat
      /\ tid' # None => tid' \in 1..Len(trades)
      /\ st'.pos = 0 => tid' = None
      /\ tid' # None => trades[tid'].dir = st'.pos /\ st'.entry_px = tid'
  <2>1. CASE UNCHANGED <<st, tid>>
    BY <1>1, <2>1, FreshFacts DEF None
  <2>2. ASSUME NEW t \in OpenTrades, NEW px \in Prices, st' = Adopted(st, t, px), tid' = t
        PROVE  /\ Sized(st') /\ PendingOk(st') /\ t \in 1..Len(trades)
               /\ st'.pos # 0 /\ trades[t].dir = st'.pos /\ st'.entry_px = t
    <3> DEFINE dir == trades[t].dir
               level == px
    <3>1. t \in 1..Len(trades) /\ dir \in Dirs /\ t \in Int /\ level \in Int
      <4>1. t \in 1..Len(trades) /\ t \in Int
        BY FFacts DEF OpenTrades
      <4>2. trades[t] \in Trade
        BY <4>1, FFacts, ElementOfSeq
      <4> QED
        BY <4>1, <4>2, DeskAssumption DEF Trade
    <3>2. st' = [Fresh EXCEPT !.pos = dir, !.entry_px = t, !.hw_level = level]
      BY <1>1, <2>2 DEF Adopted
    <3>3. Fresh.pending = 0 /\ Fresh \in PnFState /\ Len(Fresh.col_hist) <= HistDepth
      BY FreshFacts DEF Sized, Fresh
    <3> HIDE DEF dir, level
    <3>4. /\ st' \in PnFState /\ st'.pos = dir /\ st'.entry_px = t /\ st'.pending = 0
          /\ st'.col_hist = Fresh.col_hist
      BY <3>1, <3>2, <3>3 DEF PnFState, Dirs
    <3> QED
      BY <2>2, <3>1, <3>3, <3>4 DEF dir, Sized, PendingOk, Dirs
  <2>3. \A t \in OpenTrades : t \in Nat
    BY FFacts DEF OpenTrades
  <2> QED
    BY <2>1, <2>2, <2>3 DEF Reconcile
<1>4. TypeOK'
  BY <1>1, <1>2, <1>3 DEF FInv, TypeOK, Sized
<1>5. DeskTracks' /\ RowsTruthful' /\ PendingFollowsChart'
  BY <1>1, <1>3 DEF FInv, DeskTracks, RowsTruthful, PendingFollowsChart, PendingOk
<1>6. Stages'
  BY <1>1 DEF Stages
<1> QED
  BY <1>4, <1>5, <1>6 DEF FInv

LEMMA StillGrows == FInv /\ UNCHANGED trades => Grows
BY FFacts DEF Grows

\* A close answers "broker" only when the trade is closed by it.
LEMMA CloseTradeFacts ==
    ASSUME FInv, tid \in 1..Len(trades), CloseTrade(tid)
    PROVE  /\ Grows /\ inflight' \subseteq Requests /\ failed' \in 0..MaxFailed
           /\ fill' \in Fills /\ (fill' = "broker" => trades'[tid].closer = "desk")
<1>1. /\ inflight \subseteq Requests /\ tid \in Nat /\ failed \in 0..MaxFailed
      /\ (UNCHANGED trades => Grows)
  BY FFacts, StillGrows DEF FInv, TypeOK
<1>2. CASE IsOpen(tid) /\ trades' = CloseAs(tid, "desk") /\ fill' = "broker"
           /\ UNCHANGED <<inflight, failed>>
  <2>1. trades[tid].closer = "-"
    BY <1>2 DEF IsOpen
  <2>2. Grows /\ trades'[tid].closer = "desk"
    BY <1>2, <2>1, CloseAsGrows
  <2> QED
    BY <1>1, <1>2, <2>2 DEF Fills
<1>3. CASE fill' = "bar" /\ UNCHANGED <<trades, inflight, failed>>
  BY <1>1, <1>3 DEF Fills
<1>4. CASE /\ Fail /\ fill' \in {"bar", "zero"} /\ UNCHANGED trades
           /\ inflight' \in {inflight, inflight \cup {[op |-> "close", trade |-> tid]}}
  <2> DEFINE req == [op |-> "close", trade |-> tid]
  <2>1. req \in Requests
    BY <1>1 DEF Requests
  <2> HIDE DEF req
  <2>2. inflight' \subseteq Requests
    BY <1>1, <1>4, <2>1 DEF req
  <2>3. failed' \in 0..MaxFailed
    BY <1>1, <1>4, DeskAssumption DEF Fail
  <2> QED
    BY <1>1, <1>4, <2>2, <2>3 DEF Fills
<1> QED
  BY <1>2, <1>3, <1>4 DEF CloseTrade

LEMMA S5TrailKeeps == FInv /\ S5Trail => FInv'
<1> SUFFICES ASSUME FInv, S5Trail PROVE FInv'
  OBVIOUS
<1>1. /\ pc = "idle" /\ pc' = "row" /\ st.pos # 0 /\ tid # None
      /\ sig' = [exit |-> "trail_s5", pos |-> st.pos, entry_px |-> st.entry_px, entry |-> 0]
      /\ CloseTrade(tid)
      /\ UNCHANGED <<ledger, st, tid, entry_time, n, crashes>>
  BY DEF S5Trail
<1>2. /\ tid \in 1..Len(trades) /\ trades[tid].dir = st.pos /\ st.entry_px = tid
      /\ st.pos \in {-1, 0, 1} /\ st.entry_px \in Int
  BY <1>1, FFacts DEF FInv, DeskTracks, Sized, PnFState
<1>3. /\ Grows /\ inflight' \subseteq Requests /\ failed' \in 0..MaxFailed
      /\ fill' \in Fills /\ (fill' = "broker" => trades'[tid].closer = "desk")
  BY <1>1, <1>2, CloseTradeFacts
<1>4. Len(trades) \in Nat /\ Len(trades') \in Nat /\ tid \in 1..Len(trades')
      /\ trades'[tid].dir = trades[tid].dir
  BY <1>2, <1>3, FFacts, LenProperties DEF Grows
<1>5. sig' \in Signals
  BY <1>1, <1>2 DEF Signals
<1>6. TypeOK'
  BY <1>1, <1>3, <1>5 DEF FInv, TypeOK, Grows, Trade
<1>7. DeskTracks'
  BY <1>1, <1>2, <1>4 DEF DeskTracks
<1>8. RowsTruthful' /\ PendingFollowsChart'
  BY <1>1, <1>3, RowsKept DEF FInv, PendingFollowsChart
<1>9. Stages'
  BY <1>1, <1>3 DEF FInv, Stages
<1> QED
  BY <1>6, <1>7, <1>8, <1>9 DEF FInv

LEMMA M5ExitKeeps == FInv /\ M5Exit => FInv'
<1> SUFFICES ASSUME FInv, M5Exit PROVE FInv'
  OBVIOUS
<1>1. /\ pc = "exit" /\ pc' = "row" /\ CloseTrade(tid)
      /\ UNCHANGED <<ledger, st, tid, entry_time, sig, n, crashes>>
  BY DEF M5Exit
<1>2. /\ tid # None /\ tid \in 1..Len(trades) /\ trades[tid].dir = sig.pos /\ sig.entry_px = tid
  BY <1>1 DEF FInv, DeskTracks
<1>3. /\ Grows /\ inflight' \subseteq Requests /\ failed' \in 0..MaxFailed
      /\ fill' \in Fills /\ (fill' = "broker" => trades'[tid].closer = "desk")
  BY <1>1, <1>2, CloseTradeFacts
<1>4. Len(trades) \in Nat /\ Len(trades') \in Nat /\ tid \in 1..Len(trades')
      /\ trades'[tid].dir = trades[tid].dir
  BY <1>2, <1>3, FFacts, LenProperties DEF Grows
<1>5. TypeOK'
  BY <1>1, <1>3 DEF FInv, TypeOK, Grows, Trade
<1>6. DeskTracks'
  BY <1>1, <1>2, <1>4 DEF DeskTracks
<1>7. RowsTruthful' /\ PendingFollowsChart'
  BY <1>1, <1>3, RowsKept DEF FInv, PendingFollowsChart
<1>8. Stages'
  BY <1>1, <1>3 DEF FInv, Stages
<1> QED
  BY <1>5, <1>6, <1>7, <1>8 DEF FInv

\* The engine takes a bar: the exit of the trade held, the entry of a flat desk, or
\* neither.
LEMMA EngineKeeps == FInv /\ Engine => FInv'
<1> SUFFICES ASSUME FInv, Engine PROVE FInv'
  OBVIOUS
<1>1. PICK b \in Bars, ok \in BOOLEAN :
        LET r == BarResult(st, b, ok)
        IN  /\ st' = r.st /\ sig' = Signal(r)
            /\ pc' = IF r.exit # "-" /\ tid # None THEN "exit" ELSE AfterExit(r)
  BY DEF Engine, FInv, Stages
<1>2. /\ pc = "idle"
      /\ UNCHANGED <<trades, inflight, ledger, tid, entry_time, fill, n, failed, crashes>>
  BY DEF Engine, brokerVars
<1> DEFINE r == BarResult(st, b, ok)
<1>3. /\ Sized(r.st) /\ PendingOk(r.st) /\ r.exit \in {"-", "trail", "x7"}
      /\ r.pos = st.pos /\ r.entry_px = st.entry_px /\ r.entry \in {-1, 0, 1}
      /\ r.exit = "-" /\ st.pos # 0 =>
           r.entry = 0 /\ r.st.pos = st.pos /\ r.st.entry_px = st.entry_px
      /\ r.entry = 0 /\ (r.exit # "-" \/ st.pos = 0) => r.st.pos = 0
      /\ r.entry # 0 => r.st.pos = r.entry
  BY <1>1, FFacts, BarFacts
<1>4. /\ st' = r.st /\ sig' = Signal(r)
      /\ pc' = IF r.exit # "-" /\ tid # None THEN "exit" ELSE AfterExit(r)
  BY <1>1
<1> HIDE DEF r
<1>5. /\ st.pos = 0 => tid = None
      /\ tid # None => trades[tid].dir = st.pos /\ st.entry_px = tid
      /\ tid # None => tid \in 1..Len(trades) /\ entry_time \in {None, tid}
      /\ st.pos \in {-1, 0, 1} /\ st.entry_px \in Int
  BY <1>2, FFacts DEF FInv, DeskTracks, Sized, PnFState, Stages
<1>6. NoSig \in Signals
  BY FreshFacts
<1>7. CASE r.exit # "-" /\ tid # None
  <2>1. /\ pc' = "exit"
        /\ sig' = [exit |-> r.exit, pos |-> st.pos, entry_px |-> st.entry_px, entry |-> r.entry]
    BY <1>3, <1>4, <1>7 DEF Signal
  <2>2. sig' \in Signals
    BY <1>3, <1>5, <2>1 DEF Signals
  <2>3. TypeOK'
    BY <1>2, <1>3, <1>4, <2>1, <2>2 DEF FInv, TypeOK, Sized
  <2>4. DeskTracks'
    BY <1>2, <1>5, <1>7, <2>1 DEF DeskTracks
  <2>5. RowsTruthful' /\ PendingFollowsChart'
    BY <1>2, <1>3, <1>4 DEF FInv, RowsTruthful, PendingFollowsChart, PendingOk
  <2>6. Stages'
    BY <1>2, <1>3, <1>4, <1>5, <1>7, <2>1 DEF Stages
  <2> QED
    BY <2>3, <2>4, <2>5, <2>6 DEF FInv
<1>8. CASE r.entry # 0 /\ (r.exit = "-" \/ tid = None)
  <2>1. /\ pc' = "order" /\ tid = None
        /\ sig' = [exit |-> r.exit, pos |-> st.pos, entry_px |-> st.entry_px, entry |-> r.entry]
    BY <1>3, <1>4, <1>5, <1>8 DEF Signal, AfterExit
  <2>2. sig' \in Signals
    BY <1>3, <1>5, <2>1 DEF Signals
  <2>3. TypeOK'
    BY <1>2, <1>3, <1>4, <2>1, <2>2 DEF FInv, TypeOK, Sized
  <2>4. DeskTracks'
    BY <1>2, <2>1 DEF DeskTracks
  <2>5. RowsTruthful' /\ PendingFollowsChart'
    BY <1>2, <1>3, <1>4 DEF FInv, RowsTruthful, PendingFollowsChart, PendingOk
  <2>6. Stages'
    BY <1>2, <1>3, <1>4, <1>5, <1>8, <2>1 DEF Stages
  <2> QED
    BY <2>3, <2>4, <2>5, <2>6 DEF FInv
<1>9. CASE r.entry = 0 /\ (r.exit = "-" \/ tid = None)
  <2>1. pc' = "idle" /\ sig' = NoSig
    BY <1>4, <1>9 DEF Signal, AfterExit
  <2>2. TypeOK'
    BY <1>2, <1>3, <1>4, <1>6, <2>1 DEF FInv, TypeOK, Sized
  <2>3. DeskTracks'
    BY <1>2, <1>3, <1>4, <1>5, <1>9, <2>1 DEF DeskTracks
  <2>4. RowsTruthful' /\ PendingFollowsChart'
    BY <1>2, <1>3, <1>4 DEF FInv, RowsTruthful, PendingFollowsChart, PendingOk
  <2>5. Stages'
    BY <1>2, <1>5, <2>1 DEF Stages
  <2> QED
    BY <2>2, <2>3, <2>4, <2>5 DEF FInv
<1> QED
  BY <1>7, <1>8, <1>9

\* The row that is written is a true one.
LEMMA RowFacts ==
    ASSUME FInv, pc = "row"
    PROVE  /\ Row \in Rows /\ Row.trade \in 1..Len(trades) /\ Row.dir = trades[Row.trade].dir
           /\ Row.entry_px = Row.trade /\ (entry_time # None => Row.trade_id = Row.trade)
           /\ Row.exit_px = "broker" => trades[Row.trade].closer = "desk"
<1>1. /\ tid \in 1..Len(trades) /\ tid # None /\ trades[tid].dir = sig.pos /\ sig.entry_px = tid
      /\ entry_time \in {None, tid} /\ sig.exit # "-"
      /\ fill = "broker" => trades[tid].closer = "desk"
  BY DEF FInv, DeskTracks, Stages
<1>2. trades[tid] \in Trade
  BY <1>1, FFacts, ElementOfSeq
<1>3. /\ sig.pos \in Dirs /\ sig.entry_px \in Int /\ sig.exit \in {"trail", "x7", "trail_s5"}
      /\ tid \in Nat /\ fill \in Fills /\ entry_time \in Nat \cup {Netted}
  BY <1>1, <1>2, FFacts DEF Trade, Signals
<1> QED
  BY <1>1, <1>3 DEF Row, Rows, TradeKey

LEMMA WriteRowKeeps == FInv /\ WriteRow => FInv'
<1> SUFFICES ASSUME FInv, WriteRow PROVE FInv'
  OBVIOUS
<1>1. /\ pc = "row" /\ tid' = None /\ fill' = "bar"
      /\ UNCHANGED <<trades, inflight, entry_time, n, crashes>>
  BY DEF WriteRow, brokerVars
<1>2. failed' \in 0..MaxFailed
  BY DeskAssumption DEF WriteRow, Fail, FInv, TypeOK
<1>3. ledger' = ledger \/ (ledger' = ledger \cup {Row} /\ entry_time # None)
  BY DEF WriteRow, Insert
<1>4. ledger' \subseteq Rows /\ RowsTruthful'
  BY <1>1, <1>3, RowFacts DEF FInv, TypeOK, RowsTruthful
<1>5. CASE /\ sig.exit = "trail_s5" /\ st' = Closed(st) /\ sig' = NoSig /\ pc' = "idle"
  <2>1. /\ Sized(st') /\ st'.pos = 0 /\ st'.dir = st.dir /\ st'.pending = st.pending
        /\ st'.col_hist = st.col_hist
    BY <1>5, ClosedFacts, FFacts
  <2>2. TypeOK'
    BY <1>1, <1>2, <1>4, <1>5, <2>1, FreshFacts DEF FInv, TypeOK, Sized, Fills, None
  <2>3. DeskTracks' /\ PendingFollowsChart'
    BY <1>1, <1>5, <2>1 DEF FInv, DeskTracks, PendingFollowsChart
  <2>4. Stages'
    BY <1>1, <1>5 DEF Stages
  <2> QED
    BY <1>4, <2>2, <2>3, <2>4 DEF FInv
<1>6. CASE /\ sig.exit # "trail_s5" /\ pc' = AfterExit(sig) /\ UNCHANGED st
           /\ sig' = IF sig.entry # 0 THEN sig ELSE NoSig
  <2>1. \/ pc' = "order" /\ sig' = sig /\ sig.entry # 0
        \/ pc' = "idle" /\ sig' = NoSig
    BY <1>6 DEF AfterExit
  <2>2. sig' \in Signals
    BY <2>1, FreshFacts, FFacts
  <2>3. TypeOK'
    BY <1>1, <1>2, <1>4, <1>6, <2>1, <2>2 DEF FInv, TypeOK, Fills, None
  <2>4. DeskTracks' /\ PendingFollowsChart'
    BY <1>1, <1>6, <2>1 DEF FInv, DeskTracks, PendingFollowsChart
  <2>5. Stages'
    BY <1>1, <1>6, <2>1 DEF FInv, Stages
  <2> QED
    BY <1>4, <2>3, <2>4, <2>5 DEF FInv
<1> QED
  BY <1>5, <1>6 DEF WriteRow, S5Reset

\* The entry is filled: the desk is about the trade it opened, or about none.
LEMMA OrderFilledKeeps == FInv /\ OrderFilled => FInv'
<1> SUFFICES ASSUME FInv, OrderFilled PROVE FInv'
  OBVIOUS
<1>1. /\ pc = "order" /\ pc' = "idle" /\ n' = 1 /\ sig' = NoSig
      /\ UNCHANGED <<inflight, ledger, fill, failed, crashes>>
  BY DEF OrderFilled, OrderDone
<1>2. PICK id \in 0..MaxTrades :
        LET px == IF id = None THEN Netted ELSE id
        IN  /\ Executed(sig.entry, id) /\ tid' = id
            /\ st' = [st EXCEPT !.entry_px = px] /\ entry_time' = px
  BY DEF OrderFilled
<1> DEFINE px == IF id = None THEN Netted ELSE id
<1>3. sig.entry \in Dirs /\ st.pos = sig.entry /\ id \in Nat
  BY <1>1, <1>2, FFacts, DeskAssumption DEF FInv, Stages, Signals, Dirs
<1>4. Grows /\ (id # None => id \in 1..Len(trades') /\ trades'[id].dir = sig.entry)
  BY <1>2, <1>3, ExecutedGrows
<1>5. px \in Nat \cup {Netted} /\ px \in Int /\ (id # None => px = id)
  BY <1>3 DEF Netted
<1>6. tid' = id /\ st' = [st EXCEPT !.entry_px = px] /\ entry_time' = px
  BY <1>2
<1> HIDE DEF px
<1>7. /\ Sized(st') /\ st'.pos = st.pos /\ st'.entry_px = px /\ st'.pending = st.pending
      /\ st'.dir = st.dir /\ st'.col_hist = st.col_hist
  BY <1>5, <1>6, FFacts DEF Sized, PnFState
<1>8. TypeOK'
  BY <1>1, <1>3, <1>4, <1>5, <1>6, <1>7, FreshFacts DEF FInv, TypeOK, Sized, Grows, Trade
<1>9. DeskTracks'
  BY <1>1, <1>3, <1>4, <1>5, <1>6, <1>7 DEF DeskTracks, Dirs
<1>10. RowsTruthful' /\ PendingFollowsChart'
  BY <1>1, <1>4, <1>7, RowsKept DEF FInv, PendingFollowsChart
<1>11. Stages'
  BY <1>1, <1>5, <1>6 DEF Stages
<1> QED
  BY <1>8, <1>9, <1>10, <1>11 DEF FInv

\* An entry that failed leaves the desk flat, one to be retried leaves it alone.
LEMMA OrderFailedKeeps == FInv /\ (OrderRefused \/ OrderRetry) => FInv'
<1> SUFFICES ASSUME FInv, OrderRefused \/ OrderRetry PROVE FInv'
  OBVIOUS
<1>1. pc = "order" /\ tid = None /\ UNCHANGED <<trades, ledger, tid, entry_time, fill, crashes>>
  BY DEF OrderRefused, OrderRetry, brokerVars, FInv, DeskTracks
<1>2. inflight' \subseteq Requests /\ failed' \in 0..MaxFailed
  <2>1. CASE UNCHANGED <<inflight, failed>>
    BY <2>1 DEF FInv, TypeOK
  <2>2. CASE Fail /\ inflight' = inflight \cup {[op |-> "open", dir |-> sig.entry, n |-> n]}
    <3>1. sig.entry \in Dirs /\ n \in Nat
      BY <1>1 DEF FInv, TypeOK, Stages, Signals, Dirs
    <3> DEFINE req == [op |-> "open", dir |-> sig.entry, n |-> n]
    <3>2. req \in Requests
      BY <3>1 DEF Requests
    <3> HIDE DEF req
    <3> QED
      BY <2>2, <3>2, DeskAssumption DEF FInv, TypeOK, Fail, req
  <2> QED
    BY <2>1, <2>2 DEF OrderRefused, OrderRetry, brokerVars
<1>3. CASE OrderDone /\ st' = Unopened(st)
  <2>1. Sized(st') /\ st'.pos = 0 /\ st'.pending = 0
    BY <1>3, ClosedFacts, FFacts
  <2>2. TypeOK'
    BY <1>1, <1>2, <1>3, <2>1, FreshFacts DEF FInv, TypeOK, Sized, OrderDone
  <2>3. DeskTracks' /\ RowsTruthful' /\ PendingFollowsChart'
    BY <1>1, <1>3, <2>1 DEF FInv, DeskTracks, RowsTruthful, PendingFollowsChart, OrderDone
  <2>4. Stages'
    BY <1>1, <1>3 DEF Stages, OrderDone
  <2> QED
    BY <2>2, <2>3, <2>4 DEF FInv
<1>4. CASE n' = n + 1 /\ UNCHANGED <<st, pc, sig>>
  <2>1. TypeOK'
    BY <1>1, <1>2, <1>4 DEF FInv, TypeOK
  <2>2. DeskTracks' /\ RowsTruthful' /\ PendingFollowsChart' /\ Stages'
    BY <1>1, <1>4 DEF FInv, DeskTracks, RowsTruthful, PendingFollowsChart, Stages
  <2> QED
    BY <2>1, <2>2 DEF FInv
<1> QED
  BY <1>3, <1>4 DEF OrderRefused, OrderRetry

LEMMA CrashKeeps == FInv /\ Crash => FInv'
<1> SUFFICES ASSUME FInv, Crash PROVE FInv'
  OBVIOUS
<1>1. /\ st' = Fresh /\ tid' = None /\ entry_time' = None /\ sig' = NoSig
      /\ fill' = "bar" /\ n' = 1 /\ pc' = "start" /\ UNCHANGED <<trades, inflight, ledger, failed>>
  BY DEF Crash, brokerVars
<1>2. crashes' \in 0..MaxCrashes
  BY DeskAssumption DEF Crash, FInv, TypeOK
<1>3. TypeOK'
  BY <1>1, <1>2, FreshFacts DEF FInv, TypeOK, Sized, Fills, None
<1>4. DeskTracks' /\ RowsTruthful' /\ PendingFollowsChart' /\ Stages'
  BY <1>1, FreshFacts DEF FInv, DeskTracks, RowsTruthful, PendingFollowsChart, PendingOk, Stages
<1> QED
  BY <1>3, <1>4 DEF FInv

\* A late execution touches the broker only.
LEMMA ResolveLateKeeps == ASSUME NEW q \in inflight, FInv, ResolveLate(q) PROVE FInv'
<1>1. /\ inflight' \subseteq inflight
      /\ UNCHANGED <<ledger, st, tid, entry_time, sig, fill, n, pc, failed, crashes>>
  BY DEF ResolveLate
<1>2. Grows
  <2>1. CASE q.op = "open" /\ \E id \in 0..MaxTrades : Executed(q.dir, id)
    <3>1. q.dir \in Dirs
      BY <2>1, FFacts DEF Requests
    <3> QED
      BY <2>1, <3>1, ExecutedGrows
  <2>2. CASE IsOpen(q.trade) /\ trades' = CloseAs(q.trade, "late")
    BY <2>2, CloseAsGrows DEF IsOpen
  <2>3. CASE UNCHANGED trades
    BY <2>3, StillGrows
  <2> QED
    BY <2>1, <2>2, <2>3 DEF ResolveLate
<1>3. Len(trades) \in Nat /\ Len(trades') \in Nat
  BY <1>2, FFacts, LenProperties DEF Grows
<1>4. TypeOK'
  BY <1>1, <1>2 DEF FInv, TypeOK, Grows, Trade
<1>5. DeskTracks'
  <2>1. tid # None => tid \in 1..Len(trades') /\ trades'[tid].dir = trades[tid].dir
    BY <1>2, <1>3 DEF FInv, DeskTracks, Grows
  <2> QED
    BY <1>1, <2>1 DEF FInv, DeskTracks
<1>6. RowsTruthful' /\ PendingFollowsChart'
  BY <1>1, <1>2, RowsKept DEF FInv, PendingFollowsChart
<1>7. Stages'
  <2>1. pc = "row" /\ fill = "broker" => trades'[tid].closer = "desk"
    <3>1. pc = "row" => tid \in 1..Len(trades)
      BY DEF FInv, DeskTracks
    <3> QED
      BY <1>2, <3>1 DEF FInv, Stages, Grows
  <2> QED
    BY <1>1, <2>1 DEF FInv, Stages
<1> QED
  BY <1>4, <1>5, <1>6, <1>7 DEF FInv

LEMMA StepFInv == FInv /\ [Next]_vars => FInv'
<1> SUFFICES ASSUME FInv, [Next]_vars PROVE FInv'
  OBVIOUS
<1>1. CASE UNCHANGED vars
  <2>1. UNCHANGED <<trades, inflight, ledger, st, tid, entry_time, sig, fill, n, pc, failed, crashes>>
    BY <1>1 DEF vars
  <2>2. TypeOK'
    BY <2>1 DEF FInv, TypeOK
  <2>3. DeskTracks' /\ RowsTruthful' /\ PendingFollowsChart' /\ Stages'
    BY <2>1 DEF FInv, DeskTracks, RowsTruthful, PendingFollowsChart, Stages
  <2> QED
    BY <2>2, <2>3 DEF FInv
<1> QED
  BY <1>1, ReconcileKeeps, S5TrailKeeps, EngineKeeps, M5ExitKeeps, WriteRowKeeps, OrderFilledKeeps,
     OrderFailedKeeps, CrashKeeps, ResolveLateKeeps DEF Next

LEMMA DeskInvariant == Spec => []FInv
BY InitFInv, StepFInv, PTL DEF Spec

-----------------------------------------------------------------------------
(* What failed calls and restarts account for.                              *)

\* The orders that timed out and may still open a trade nobody waits for.
Late == {r \in inflight : r.op = "open"}

\* The open trades but x, with those an order may still open.
Orphans(x) == Cardinality(OpenTrades \ {x}) + Cardinality(Late)

\* Trades that have no row, and those of them whose row is certain to be written under
\* a key of its own: the trade held, if it is the one entry_time is of.
Unrecorded == {t \in 1..Len(trades) : /\ trades[t].closer \in {"-", "desk"}
                                      /\ \A r \in ledger : r.trade # t}
Secured    == {tid} \cap {entry_time}

\* OrphansAccounted, with the orders under way.  A restart may leave one trade open that
\* its first step then adopts; between a close and its row the trade is accounted for.
OrphanCount ==
    /\ pc = "start" => \E x \in Nat : Orphans(x) <= failed
    /\ pc = "row" => Orphans(None) <= failed
    /\ pc \notin {"start", "row"} => Orphans(tid) <= failed

\* LossesAccounted, with the trades still open and the orders under way.
LossCount == Cardinality(Unrecorded \ Secured) + Cardinality(Late) <= failed + crashes

Accounts == IsFiniteSet(inflight) /\ OrphanCount /\ LossCount

\* Fewer elements, and at most one more.
LEMMA Fewer ==
    ASSUME NEW S, IsFiniteSet(S), NEW T, T \subseteq S
    PROVE  IsFiniteSet(T) /\ Cardinality(T) \in Nat /\ Cardinality(S) \in Nat
           /\ Cardinality(T) <= Cardinality(S)
BY FS_Subset, FS_CardinalityType

LEMMA OneMore ==
    ASSUME NEW S, IsFiniteSet(S), NEW x, NEW T, T \subseteq S \cup {x}
    PROVE  IsFiniteSet(T) /\ Cardinality(T) \in Nat /\ Cardinality(S) \in Nat
           /\ Cardinality(T) <= Cardinality(S) + 1
<1>1. IsFiniteSet(S \cup {x}) /\ Cardinality(S \cup {x}) <= Cardinality(S) + 1
      /\ Cardinality(S) \in Nat
  BY FS_AddElement, FS_CardinalityType
<1>2. IsFiniteSet(T) /\ Cardinality(T) \in Nat /\ Cardinality(T) <= Cardinality(S \cup {x})
      /\ Cardinality(S \cup {x}) \in Nat
  BY <1>1, Fewer
<1> QED
  BY <1>1, <1>2

\* Everything counted is finite.
LEMMA CountFacts ==
    ASSUME FInv, IsFiniteSet(inflight)
    PROVE  /\ IsFiniteSet(OpenTrades) /\ IsFiniteSet(Unrecorded) /\ IsFiniteSet(Late)
           /\ \A x : IsFiniteSet(OpenTrades \ {x}) /\ Cardinality(OpenTrades \ {x}) \in Nat
           /\ IsFiniteSet(Unrecorded \ Secured) /\ Cardinality(Unrecorded \ Secured) \in Nat
           /\ Cardinality(Late) \in Nat /\ failed \in Nat /\ crashes \in Nat /\ tid \in Nat
<1>1. IsFiniteSet(1..Len(trades))
  BY FFacts, FS_Interval
<1>2. OpenTrades \subseteq 1..Len(trades) /\ Unrecorded \subseteq 1..Len(trades)
      /\ Late \subseteq inflight
  BY DEF OpenTrades, Unrecorded, Late
<1>3. IsFiniteSet(OpenTrades) /\ IsFiniteSet(Unrecorded) /\ IsFiniteSet(Late)
  BY <1>1, <1>2, Fewer
<1>4. \A x : IsFiniteSet(OpenTrades \ {x}) /\ Cardinality(OpenTrades \ {x}) \in Nat
  BY <1>3, Fewer
<1>5. /\ IsFiniteSet(Unrecorded \ Secured) /\ Cardinality(Unrecorded \ Secured) \in Nat
      /\ Cardinality(Late) \in Nat
  BY <1>3, Fewer
<1>6. failed \in Nat /\ crashes \in Nat /\ tid \in Nat
  BY DeskAssumption DEF FInv, TypeOK
<1> QED
  BY <1>3, <1>4, <1>5, <1>6

\* A close takes its trade out of the open ones; netting and a late close out of both.
LEMMA CloseCounts ==
    ASSUME FInv, NEW t \in 1..Len(trades), trades[t].closer = "-",
           NEW who \in {"desk", "late", "net"}, trades' = CloseAs(t, who), UNCHANGED ledger
    PROVE  OpenTrades' \subseteq OpenTrades \ {t} /\ Unrecorded' \subseteq Unrecorded
<1>1. Grows /\ trades'[t].closer = who
  BY CloseAsGrows
<1>2. Len(trades') = Len(trades)
  <2>1. DOMAIN trades' = DOMAIN trades /\ Len(trades) \in Nat /\ Len(trades') \in Nat
        /\ DOMAIN trades = 1..Len(trades) /\ DOMAIN trades' = 1..Len(trades')
    BY <1>1, FFacts, LenProperties DEF CloseAs, Grows
  <2> QED
    BY <2>1
<1>3. ASSUME NEW u \in 1..Len(trades), u # t PROVE trades'[u].closer = trades[u].closer
  BY <1>3, FFacts DEF CloseAs
<1> QED
  BY <1>1, <1>2, <1>3 DEF OpenTrades, Unrecorded

\* An order opens its own trade, or none.
LEMMA ExecutedCounts ==
    ASSUME FInv, NEW d \in Dirs, NEW id \in 0..MaxTrades, Executed(d, id), UNCHANGED ledger
    PROVE  /\ OpenTrades' \subseteq OpenTrades \cup ({id} \ {None})
           /\ Unrecorded' \subseteq Unrecorded \cup ({id} \ {None})
           /\ id # None => id \notin OpenTrades /\ id \notin Unrecorded
<1>1. trades \in Seq(Trade) /\ Len(trades) \in Nat
  BY FFacts
<1>2. CASE \E t \in OpenTrades : trades' = CloseAs(t, "net") /\ id = None
  <2>1. PICK t \in OpenTrades : trades' = CloseAs(t, "net") /\ id = None
    BY <1>2
  <2>2. t \in 1..Len(trades) /\ trades[t].closer = "-"
    BY <2>1 DEF OpenTrades
  <2> QED
    BY <2>1, <2>2, CloseCounts
<1>3. CASE trades' = Append(trades, [dir |-> d, closer |-> "-"]) /\ id = Len(trades) + 1
  <2> DEFINE new == [dir |-> d, closer |-> "-"]
  <2>1. new \in Trade
    BY DEF Trade
  <2> HIDE DEF new
  <2>2. /\ Len(trades') = Len(trades) + 1 /\ \A u \in 1..Len(trades) : trades'[u] = trades[u]
    BY <1>1, <1>3, <2>1, AppendProperties DEF new
  <2>3. \A u \in 1..Len(trades') : u \in 1..Len(trades) \/ u = id
    BY <1>1, <1>3, <2>2
  <2>4. id # None /\ id \notin 1..Len(trades)
    BY <1>1, <1>3 DEF None
  <2>5. OpenTrades' \subseteq OpenTrades \cup {id}
    BY <2>2, <2>3 DEF OpenTrades
  <2>6. Unrecorded' \subseteq Unrecorded \cup {id}
    BY <2>2, <2>3 DEF Unrecorded
  <2> QED
    BY <2>4, <2>5, <2>6 DEF OpenTrades, Unrecorded
<1> QED
  BY <1>2, <1>3 DEF Executed

\* A close leaves its trade to the row; if it fails, the failure accounts for the trade.
LEMMA CloseTradeAccounts ==
    ASSUME FInv, Accounts, pc \notin {"start", "row"}, tid \in 1..Len(trades), CloseTrade(tid),
           pc' = "row", UNCHANGED <<ledger, tid, entry_time, crashes>>
    PROVE  Accounts'
<1>1. /\ IsFiniteSet(inflight) /\ Orphans(tid) <= failed
      /\ Cardinality(Unrecorded \ Secured) + Cardinality(Late) <= failed + crashes
  BY DEF Accounts, OrphanCount, LossCount
<1> DEFINE o == Cardinality(OpenTrades \ {tid})
           u == Cardinality(Unrecorded \ Secured)
<1>2. /\ IsFiniteSet(OpenTrades \ {tid}) /\ IsFiniteSet(Unrecorded \ Secured)
      /\ o \in Nat /\ u \in Nat /\ Cardinality(Late) \in Nat /\ failed \in Nat /\ crashes \in Nat
  BY <1>1, CountFacts
<1>3. SUFFICES
        /\ IsFiniteSet(inflight') /\ Late' = Late /\ failed' \in Nat /\ failed <= failed'
        /\ Cardinality((OpenTrades \ {None})') + Cardinality(Late) <= failed'
        /\ (Unrecorded \ Secured)' \subseteq Unrecorded \ Secured
  <2>1. Cardinality((Unrecorded \ Secured)') \in Nat /\ Cardinality((Unrecorded \ Secured)') <= u
    BY <1>2, <1>3, Fewer
  <2>2. LossCount'
    BY <1>1, <1>2, <1>3, <2>1 DEF LossCount
  <2> QED
    BY <1>3, <2>2 DEF Accounts, OrphanCount, Orphans
<1>4. Secured' = Secured
  BY DEF Secured
<1>5. CASE IsOpen(tid) /\ trades' = CloseAs(tid, "desk") /\ UNCHANGED <<inflight, failed>>
  <2>1. OpenTrades' \subseteq OpenTrades \ {tid} /\ Unrecorded' \subseteq Unrecorded
    BY <1>5, CloseCounts DEF IsOpen
  <2>2. (OpenTrades \ {None})' \subseteq OpenTrades \ {tid}
    BY <2>1 DEF None
  <2>3. Cardinality((OpenTrades \ {None})') \in Nat /\ Cardinality((OpenTrades \ {None})') <= o
    BY <1>2, <2>2, Fewer
  <2> QED
    BY <1>1, <1>2, <1>4, <1>5, <2>1, <2>3 DEF Orphans, Late
<1>6. CASE ~IsOpen(tid) /\ UNCHANGED <<trades, inflight, failed>>
  <2>1. (OpenTrades \ {None})' \subseteq OpenTrades \ {tid}
    BY <1>6 DEF IsOpen, OpenTrades
  <2>2. Cardinality((OpenTrades \ {None})') \in Nat /\ Cardinality((OpenTrades \ {None})') <= o
    BY <1>2, <2>1, Fewer
  <2>3. Unrecorded' = Unrecorded
    BY <1>6 DEF Unrecorded
  <2> QED
    BY <1>1, <1>2, <1>4, <1>6, <2>2, <2>3 DEF Orphans, Late
<1>7. CASE /\ Fail /\ UNCHANGED trades
           /\ inflight' \in {inflight, inflight \cup {[op |-> "close", trade |-> tid]}}
  <2>1. (OpenTrades \ {None})' \subseteq (OpenTrades \ {tid}) \cup {tid}
    BY <1>7 DEF OpenTrades
  <2>2. Cardinality((OpenTrades \ {None})') \in Nat /\ Cardinality((OpenTrades \ {None})') <= o + 1
    BY <1>2, <2>1, OneMore
  <2>3. Unrecorded' = Unrecorded
    BY <1>7 DEF Unrecorded
  <2>4. IsFiniteSet(inflight') /\ Late' = Late
    <3> DEFINE req == [op |-> "close", trade |-> tid]
    <3>1. req.op # "open"
      OBVIOUS
    <3> HIDE DEF req
    <3>2. inflight' \subseteq inflight \cup {req} /\ inflight \subseteq inflight'
      BY <1>7 DEF req
    <3>3. IsFiniteSet(inflight')
      BY <1>1, <3>2, OneMore
    <3> QED
      BY <3>1, <3>2, <3>3 DEF Late
  <2>5. failed' = failed + 1
    BY <1>7 DEF Fail
  <2> QED
    BY <1>1, <1>2, <1>4, <2>2, <2>3, <2>4, <2>5 DEF Orphans
<1> QED
  BY <1>5, <1>6, <1>7 DEF CloseTrade

\* Adopting a trade: it is one of the open ones; its own row is not certain.
LEMMA ReconcileAccounts == FInv /\ Accounts /\ Reconcile => Accounts'
<1> SUFFICES ASSUME FInv, Accounts, Reconcile PROVE Accounts'
  OBVIOUS
<1>1. /\ pc = "start" /\ pc' = "idle" /\ tid = None /\ entry_time = None
      /\ UNCHANGED <<trades, inflight, ledger, entry_time, crashes>>
  BY DEF Reconcile, brokerVars, FInv, DeskTracks, Stages
<1>2. PICK x \in Nat : Orphans(x) <= failed
  BY <1>1 DEF Accounts, OrphanCount
<1>3. /\ IsFiniteSet(inflight) /\ IsFiniteSet(OpenTrades) /\ IsFiniteSet(OpenTrades \ {x})
      /\ Cardinality(OpenTrades \ {x}) \in Nat /\ Cardinality(Late) \in Nat /\ failed \in Nat
      /\ Cardinality(Unrecorded \ Secured) \in Nat /\ crashes \in Nat
      /\ Cardinality(Unrecorded \ Secured) + Cardinality(Late) <= failed + crashes
  BY CountFacts DEF Accounts, LossCount
<1>4. OpenTrades' = OpenTrades /\ Late' = Late /\ Unrecorded' = Unrecorded
  BY <1>1 DEF OpenTrades, Late, Unrecorded
<1>5. Unrecorded \ Secured' = Unrecorded \ Secured
  BY <1>1, FFacts DEF Secured, Unrecorded
<1>6. /\ failed' \in Nat /\ failed <= failed'
      /\ Cardinality(OpenTrades \ {tid'}) + Cardinality(Late) <= failed'
  <2>1. CASE tid' \in OpenTrades /\ UNCHANGED failed
    <3>1. /\ Cardinality(OpenTrades \ {tid'}) = Cardinality(OpenTrades) - 1
          /\ Cardinality(OpenTrades \ {x}) >= Cardinality(OpenTrades) - 1
          /\ Cardinality(OpenTrades) \in Nat
      BY <1>3, <2>1, FS_RemoveElement, FS_CardinalityType
    <3> QED
      BY <1>2, <1>3, <2>1, <3>1 DEF Orphans
  <2>2. CASE OpenTrades = {} /\ UNCHANGED <<tid, failed>>
    <3>1. Cardinality(OpenTrades \ {tid'}) = Cardinality(OpenTrades \ {x})
      BY <2>2
    <3> QED
      BY <1>2, <1>3, <2>2, <3>1 DEF Orphans
  <2>3. CASE Fail /\ UNCHANGED tid
    <3>1. OpenTrades \ {tid'} \subseteq (OpenTrades \ {x}) \cup {x}
      OBVIOUS
    <3>2. Cardinality(OpenTrades \ {tid'}) \in Nat
          /\ Cardinality(OpenTrades \ {tid'}) <= Cardinality(OpenTrades \ {x}) + 1
      BY <1>3, <3>1, OneMore
    <3> QED
      BY <1>2, <1>3, <2>3, <3>2 DEF Orphans, Fail
  <2> QED
    BY <2>1, <2>2, <2>3 DEF Reconcile
<1>7. OrphanCount'
  BY <1>1, <1>4, <1>6 DEF OrphanCount, Orphans
<1>8. Cardinality((Unrecorded \ Secured)') = Cardinality(Unrecorded \ Secured)
  BY <1>4, <1>5
<1>9. LossCount'
  <2>1. Cardinality((Unrecorded \ Secured)') + Cardinality(Late) <= failed' + crashes
    BY <1>3, <1>6, <1>8
  <2> QED
    BY <1>1, <1>4, <2>1 DEF LossCount
<1> QED
  BY <1>1, <1>3, <1>7, <1>9 DEF Accounts

\* The row: written under a key of its own it accounts for its trade, else the failed
\* write does; the row of an adopted trade was never counted on.
LEMMA WriteRowAccounts == FInv /\ Accounts /\ WriteRow => Accounts'
<1> SUFFICES ASSUME FInv, Accounts, WriteRow PROVE Accounts'
  OBVIOUS
<1>1. /\ pc = "row" /\ pc' \in {"order", "idle"} /\ tid' = None /\ tid # None
      /\ entry_time \in {None, tid} /\ UNCHANGED <<trades, inflight, entry_time, crashes>>
  BY DEF WriteRow, AfterExit, brokerVars, FInv, DeskTracks, Stages
<1>2. /\ IsFiniteSet(inflight) /\ IsFiniteSet(Unrecorded \ Secured) /\ Orphans(None) <= failed
      /\ Cardinality(OpenTrades \ {None}) \in Nat /\ Cardinality(Late) \in Nat /\ failed \in Nat
      /\ Cardinality(Unrecorded \ Secured) \in Nat /\ crashes \in Nat
      /\ Cardinality(Unrecorded \ Secured) + Cardinality(Late) <= failed + crashes
  BY <1>1, CountFacts DEF Accounts, OrphanCount, LossCount
<1>3. OpenTrades' = OpenTrades /\ Late' = Late
  BY <1>1 DEF OpenTrades, Late
<1>4. failed' \in Nat /\ failed <= failed'
  BY <1>2 DEF WriteRow, Fail
<1>5. OrphanCount'
  BY <1>1, <1>2, <1>3, <1>4 DEF OrphanCount, Orphans
<1>6. ledger \subseteq ledger'
  BY DEF WriteRow, Insert
<1>7. Unrecorded' \subseteq Unrecorded
  BY <1>1, <1>6 DEF Unrecorded
<1>8. CASE ledger' = Insert(Row) /\ UNCHANGED failed
  <2>1. (Unrecorded \ Secured)' \subseteq Unrecorded \ Secured
    <3>1. CASE entry_time = None
      BY <1>7, <3>1, <1>1 DEF Secured
    <3>2. CASE entry_time = tid
      <4>1. \E r \in ledger' : r.trade = tid
        <5>1. CASE \E r \in ledger : r.trade_id = Row.trade_id
          <6>1. PICK r \in ledger : r.trade_id = tid
            BY <3>2, <5>1 DEF Row, TradeKey
          <6>2. r.trade = tid
            BY <1>1, <6>1 DEF FInv, RowsTruthful
          <6> QED
            BY <1>6, <6>1, <6>2
        <5>2. CASE ~ \E r \in ledger : r.trade_id = Row.trade_id
          <6>1. Row \in ledger' /\ Row.trade = tid
            BY <1>1, <1>8, <3>2, <5>2 DEF Insert, Row
          <6> QED
            BY <6>1
        <5> QED
          BY <5>1, <5>2
      <4>2. tid \notin Unrecorded'
        BY <1>1, <4>1 DEF Unrecorded
      <4> QED
        BY <1>7, <3>2, <4>2 DEF Secured
    <3> QED
      BY <1>1, <3>1, <3>2
  <2>2. /\ Cardinality((Unrecorded \ Secured)') \in Nat
        /\ Cardinality((Unrecorded \ Secured)') <= Cardinality(Unrecorded \ Secured)
    BY <1>2, <2>1, Fewer
  <2>3. LossCount'
    BY <1>1, <1>2, <1>3, <1>8, <2>2 DEF LossCount
  <2> QED
    BY <1>1, <1>2, <1>5, <2>3 DEF Accounts
<1>9. CASE Fail /\ UNCHANGED ledger
  <2>1. (Unrecorded \ Secured)' \subseteq (Unrecorded \ Secured) \cup {tid}
    BY <1>7 DEF Secured
  <2>2. /\ Cardinality((Unrecorded \ Secured)') \in Nat
        /\ Cardinality((Unrecorded \ Secured)') <= Cardinality(Unrecorded \ Secured) + 1
    BY <1>2, <2>1, OneMore
  <2>3. LossCount'
    BY <1>1, <1>2, <1>3, <1>9, <2>2 DEF LossCount, Fail
  <2> QED
    BY <1>1, <1>2, <1>5, <2>3 DEF Accounts
<1> QED
  BY <1>8, <1>9 DEF WriteRow

\* The engine leaves the broker and the books alone.
LEMMA StillAccounts ==
    ASSUME FInv, Accounts, pc \notin {"start", "row"}, pc' \notin {"start", "row"},
           UNCHANGED <<trades, inflight, ledger, tid, entry_time, failed, crashes>>
    PROVE  Accounts'
BY DEF Accounts, OrphanCount, LossCount, Orphans, OpenTrades, Late, Unrecorded, Secured

\* An entry that is filled opens a trade the desk holds and will record.
LEMMA OrderFilledAccounts == FInv /\ Accounts /\ OrderFilled => Accounts'
<1> SUFFICES ASSUME FInv, Accounts, OrderFilled PROVE Accounts'
  OBVIOUS
<1>1. /\ pc = "order" /\ pc' = "idle" /\ tid = None /\ sig.entry \in Dirs
      /\ UNCHANGED <<inflight, ledger, failed, crashes>>
  BY FFacts DEF OrderFilled, OrderDone, FInv, DeskTracks, Stages, Signals, Dirs
<1>2. PICK id \in 0..MaxTrades : /\ Executed(sig.entry, id) /\ tid' = id
                                 /\ entry_time' = IF id = None THEN Netted ELSE id
  BY DEF OrderFilled
<1>3. /\ IsFiniteSet(inflight) /\ IsFiniteSet(OpenTrades \ {tid}) /\ IsFiniteSet(Unrecorded \ Secured)
      /\ Orphans(tid) <= failed /\ failed \in Nat /\ crashes \in Nat
      /\ Cardinality(OpenTrades \ {tid}) \in Nat /\ Cardinality(Late) \in Nat
      /\ Cardinality(Unrecorded \ Secured) \in Nat
      /\ Cardinality(Unrecorded \ Secured) + Cardinality(Late) <= failed + crashes
  BY <1>1, CountFacts DEF Accounts, OrphanCount, LossCount
<1>4. /\ OpenTrades' \subseteq OpenTrades \cup ({id} \ {None})
      /\ Unrecorded' \subseteq Unrecorded \cup ({id} \ {None})
      /\ Late' = Late
  BY <1>1, <1>2, ExecutedCounts DEF Late
<1>5. (OpenTrades \ {tid})' \subseteq OpenTrades \ {tid}
  BY <1>1, <1>2, <1>4, FFacts DEF OpenTrades
<1>6. (Unrecorded \ Secured)' \subseteq Unrecorded \ Secured
  <2>1. Unrecorded \ Secured = Unrecorded
    BY <1>1, FFacts DEF Secured, Unrecorded
  <2>2. {id} \ {None} \subseteq Secured'
    BY <1>2 DEF Secured
  <2> QED
    BY <1>4, <2>1, <2>2
<1>7. /\ Cardinality((OpenTrades \ {tid})') \in Nat /\ Cardinality((Unrecorded \ Secured)') \in Nat
      /\ Cardinality((OpenTrades \ {tid})') <= Cardinality(OpenTrades \ {tid})
      /\ Cardinality((Unrecorded \ Secured)') <= Cardinality(Unrecorded \ Secured)
  BY <1>3, <1>5, <1>6, Fewer
<1>8. OrphanCount'
  BY <1>1, <1>3, <1>4, <1>7 DEF OrphanCount, Orphans
<1>9. LossCount'
  BY <1>1, <1>3, <1>4, <1>7 DEF LossCount
<1> QED
  BY <1>1, <1>3, <1>8, <1>9 DEF Accounts

\* An entry that timed out may still be executed, and its failure accounts for it.
LEMMA OrderFailedAccounts == FInv /\ Accounts /\ (OrderRefused \/ OrderRetry) => Accounts'
<1> SUFFICES ASSUME FInv, Accounts, OrderRefused \/ OrderRetry PROVE Accounts'
  OBVIOUS
<1>1. /\ pc = "order" /\ pc' \in {"order", "idle"}
      /\ UNCHANGED <<trades, ledger, tid, entry_time, crashes>>
  BY DEF OrderRefused, OrderRetry, OrderDone, brokerVars
<1>2. CASE UNCHANGED <<inflight, failed>>
  BY <1>1, <1>2, StillAccounts
<1>3. CASE Fail /\ inflight' = inflight \cup {[op |-> "open", dir |-> sig.entry, n |-> n]}
  <2> DEFINE req == [op |-> "open", dir |-> sig.entry, n |-> n]
  <2>1. /\ IsFiniteSet(inflight) /\ IsFiniteSet(Late) /\ Cardinality(Late) \in Nat
        /\ Orphans(tid) <= failed /\ failed \in Nat /\ crashes \in Nat
        /\ Cardinality(OpenTrades \ {tid}) \in Nat /\ Cardinality(Unrecorded \ Secured) \in Nat
        /\ Cardinality(Unrecorded \ Secured) + Cardinality(Late) <= failed + crashes
    BY <1>1, CountFacts DEF Accounts, OrphanCount, LossCount
  <2>2. inflight' = inflight \cup {req} /\ failed' = failed + 1
    BY <1>3 DEF Fail
  <2> HIDE DEF req
  <2>3. IsFiniteSet(inflight') /\ Late' \subseteq Late \cup {req}
    BY <2>1, <2>2, OneMore DEF Late
  <2>4. Cardinality(Late') \in Nat /\ Cardinality(Late') <= Cardinality(Late) + 1
    BY <2>1, <2>3, OneMore
  <2>5. /\ Cardinality((OpenTrades \ {tid})') = Cardinality(OpenTrades \ {tid})
        /\ Cardinality((Unrecorded \ Secured)') = Cardinality(Unrecorded \ Secured)
    BY <1>1 DEF OpenTrades, Unrecorded, Secured
  <2>6. OrphanCount'
    <3>1. Cardinality((OpenTrades \ {tid})') + Cardinality(Late') <= failed'
      BY <2>1, <2>2, <2>4, <2>5 DEF Orphans
    <3> QED
      BY <1>1, <3>1 DEF OrphanCount, Orphans
  <2>7. LossCount'
    <3>1. Cardinality((Unrecorded \ Secured)') + Cardinality(Late') <= failed' + crashes
      BY <2>1, <2>2, <2>4, <2>5
    <3> QED
      BY <1>1, <3>1 DEF LossCount
  <2> QED
    BY <2>3, <2>6, <2>7 DEF Accounts
<1> QED
  BY <1>2, <1>3 DEF OrderRefused, OrderRetry, brokerVars

\* A restart forgets the trade held, and whether its row would have been written.
LEMMA CrashAccounts == FInv /\ Accounts /\ Crash => Accounts'
<1> SUFFICES ASSUME FInv, Accounts, Crash PROVE Accounts'
  OBVIOUS
<1>1. /\ pc' = "start" /\ tid' = None /\ crashes' = crashes + 1
      /\ UNCHANGED <<trades, inflight, ledger, failed>>
  BY DEF Crash, brokerVars
<1>2. /\ IsFiniteSet(inflight) /\ IsFiniteSet(Unrecorded \ Secured) /\ tid \in Nat
      /\ Cardinality(Late) \in Nat /\ failed \in Nat /\ crashes \in Nat
      /\ Cardinality(Unrecorded \ Secured) \in Nat
      /\ Cardinality(Unrecorded \ Secured) + Cardinality(Late) <= failed + crashes
  BY CountFacts DEF Accounts, LossCount
<1>3. OpenTrades' = OpenTrades /\ Late' = Late /\ Unrecorded' = Unrecorded
  BY <1>1 DEF OpenTrades, Late, Unrecorded
<1>4. \E x \in Nat : Orphans(x) <= failed
  BY <1>2 DEF Accounts, OrphanCount, None
<1>5. OrphanCount'
  BY <1>1, <1>3, <1>4 DEF OrphanCount, Orphans
<1>6. (Unrecorded \ Secured)' \subseteq (Unrecorded \ Secured) \cup {tid}
  BY <1>3 DEF Secured
<1>7. /\ Cardinality((Unrecorded \ Secured)') \in Nat
      /\ Cardinality((Unrecorded \ Secured)') <= Cardinality(Unrecorded \ Secured) + 1
  BY <1>2, <1>6, OneMore
<1>8. LossCount'
  BY <1>1, <1>2, <1>3, <1>7 DEF LossCount
<1> QED
  BY <1>1, <1>2, <1>5, <1>8 DEF Accounts

\* A late order opens the trade its failure accounts for; a late close only closes.
LEMMA ResolveLateAccounts ==
    ASSUME NEW q \in inflight, FInv, Accounts, ResolveLate(q) PROVE Accounts'
<1>1. /\ inflight' = inflight \ {q}
      /\ UNCHANGED <<ledger, tid, entry_time, pc, failed, crashes>>
  BY DEF ResolveLate
<1>2. /\ IsFiniteSet(inflight) /\ IsFiniteSet(OpenTrades) /\ IsFiniteSet(Unrecorded)
      /\ IsFiniteSet(Unrecorded \ Secured) /\ IsFiniteSet(Late)
      /\ Cardinality(Late) \in Nat /\ failed \in Nat /\ crashes \in Nat /\ tid \in Nat
      /\ Cardinality(Unrecorded \ Secured) \in Nat
      /\ Cardinality(Unrecorded \ Secured) + Cardinality(Late) <= failed + crashes
      /\ \A x : IsFiniteSet(OpenTrades \ {x}) /\ Cardinality(OpenTrades \ {x}) \in Nat
  BY CountFacts DEF Accounts, LossCount
<1>3. IsFiniteSet(inflight') /\ Late' \subseteq Late /\ Secured' = Secured
  BY <1>1, <1>2, Fewer DEF Late, Secured
<1>4. \/ OpenTrades' \subseteq OpenTrades /\ Unrecorded' \subseteq Unrecorded
      \/ /\ q \in Late
         /\ \E id : OpenTrades' \subseteq OpenTrades \cup {id} /\ Unrecorded' \subseteq Unrecorded \cup {id}
  <2>1. CASE q.op = "open" /\ \E id \in 0..MaxTrades : Executed(q.dir, id)
    <3>1. q.dir \in Dirs /\ q \in Late
      BY <2>1, FFacts DEF Requests, Late
    <3>2. PICK id \in 0..MaxTrades : Executed(q.dir, id)
      BY <2>1
    <3> QED
      BY <1>1, <3>1, <3>2, ExecutedCounts
  <2>2. CASE IsOpen(q.trade) /\ trades' = CloseAs(q.trade, "late")
    BY <1>1, <2>2, CloseCounts DEF IsOpen
  <2>3. CASE UNCHANGED trades
    BY <1>1, <2>3 DEF OpenTrades, Unrecorded
  <2> QED
    BY <2>1, <2>2, <2>3 DEF ResolveLate
<1>5. Cardinality(Late') \in Nat /\ Cardinality(Late') <= Cardinality(Late)
      /\ (q \in Late => Cardinality(Late') = Cardinality(Late) - 1)
  <2>1. q \in Late => Late' = Late \ {q}
    BY <1>1 DEF Late
  <2> QED
    BY <1>2, <1>3, <2>1, Fewer, FS_RemoveElement
<1>6. ASSUME NEW x
      PROVE  Orphans(x)' <= Orphans(x) /\ Orphans(x) \in Int /\ Orphans(x)' \in Int
  <2>1. CASE OpenTrades' \subseteq OpenTrades
    <3>1. OpenTrades' \ {x} \subseteq OpenTrades \ {x}
      BY <2>1
    <3>2. /\ Cardinality(OpenTrades' \ {x}) \in Nat
          /\ Cardinality(OpenTrades' \ {x}) <= Cardinality(OpenTrades \ {x})
      BY <1>2, <3>1, Fewer
    <3> QED
      BY <1>2, <1>5, <3>2 DEF Orphans
  <2>2. ASSUME q \in Late, NEW id, OpenTrades' \subseteq OpenTrades \cup {id}
        PROVE  Orphans(x)' <= Orphans(x) /\ Orphans(x) \in Int /\ Orphans(x)' \in Int
    <3>1. OpenTrades' \ {x} \subseteq (OpenTrades \ {x}) \cup {id}
      BY <2>2
    <3>2. /\ Cardinality(OpenTrades' \ {x}) \in Nat
          /\ Cardinality(OpenTrades' \ {x}) <= Cardinality(OpenTrades \ {x}) + 1
      BY <1>2, <3>1, OneMore
    <3> QED
      BY <1>2, <1>5, <2>2, <3>2 DEF Orphans
  <2> QED
    BY <1>4, <2>1, <2>2
<1>7. OrphanCount'
  <2>1. \A x : Orphans(x) <= failed => Orphans(x)' <= failed
    BY <1>2, <1>6
  <2>2. OrphanCount /\ pc' = pc /\ failed' = failed /\ tid' = tid
    BY <1>1 DEF Accounts
  <2>3. Orphans(tid)' = Cardinality(OpenTrades' \ {tid}) + Cardinality(Late')
    BY <2>2 DEF Orphans
  <2>4. Orphans(tid) <= failed => Cardinality(OpenTrades' \ {tid}) + Cardinality(Late') <= failed
    BY <2>1 DEF Orphans
  <2> QED
    BY <2>1, <2>2, <2>3, <2>4 DEF OrphanCount
<1>8. Cardinality((Unrecorded \ Secured)') + Cardinality(Late')
        <= Cardinality(Unrecorded \ Secured) + Cardinality(Late)
      /\ Cardinality((Unrecorded \ Secured)') \in Nat
  <2>1. CASE Unrecorded' \subseteq Unrecorded
    <3>1. (Unrecorded \ Secured)' \subseteq Unrecorded \ Secured
      BY <1>3, <2>1
    <3>2. /\ Cardinality((Unrecorded \ Secured)') \in Nat
          /\ Cardinality((Unrecorded \ Secured)') <= Cardinality(Unrecorded \ Secured)
      BY <1>2, <3>1, Fewer
    <3> QED
      BY <1>2, <1>5, <3>2
  <2>2. ASSUME q \in Late, NEW id, Unrecorded' \subseteq Unrecorded \cup {id}
        PROVE  Cardinality((Unrecorded \ Secured)') + Cardinality(Late')
                 <= Cardinality(Unrecorded \ Secured) + Cardinality(Late)
               /\ Cardinality((Unrecorded \ Secured)') \in Nat
    <3>1. (Unrecorded \ Secured)' \subseteq (Unrecorded \ Secured) \cup {id}
      BY <1>3, <2>2
    <3>2. /\ Cardinality((Unrecorded \ Secured)') \in Nat
          /\ Cardinality((Unrecorded \ Secured)') <= Cardinality(Unrecorded \ Secured) + 1
      BY <1>2, <3>1, OneMore
    <3> QED
      BY <1>2, <1>5, <2>2, <3>2
  <2> QED
    BY <1>4, <2>1, <2>2
<1>9. LossCount'
  BY <1>1, <1>2, <1>5, <1>8 DEF LossCount
<1> QED
  BY <1>3, <1>7, <1>9 DEF Accounts

LEMMA InitAccounts == Init => Accounts
<1> SUFFICES ASSUME Init PROVE Accounts
  OBVIOUS
<1>1. trades = <<>> /\ inflight = {} /\ pc = "start" /\ failed = 0 /\ crashes = 0
  BY DEF Init
<1>2. OpenTrades = {} /\ Unrecorded = {} /\ Late = {}
  BY <1>1 DEF OpenTrades, Unrecorded, Late
<1>3. OpenTrades \ {0} = {} /\ Unrecorded \ Secured = {}
  BY <1>2
<1>4. Orphans(0) <= failed /\ LossCount
  BY <1>1, <1>2, <1>3, FS_EmptySet DEF Orphans, LossCount
<1> QED
  BY <1>1, <1>4, FS_EmptySet DEF Accounts, OrphanCount

LEMMA StepAccounts == FInv /\ Accounts /\ [Next]_vars => Accounts'
<1> SUFFICES ASSUME FInv, Accounts, [Next]_vars PROVE Accounts'
  OBVIOUS
<1>1. CASE UNCHANGED vars
  BY <1>1 DEF vars, Accounts, OrphanCount, LossCount, Orphans, OpenTrades, Late, Unrecorded, Secured
<1>2. CASE S5Trail
  <2>1. /\ pc = "idle" /\ pc' = "row" /\ tid # None /\ CloseTrade(tid)
        /\ UNCHANGED <<ledger, tid, entry_time, crashes>>
    BY <1>2 DEF S5Trail
  <2> QED
    BY <2>1, CloseTradeAccounts DEF FInv, DeskTracks
<1>3. CASE M5Exit
  <2>1. /\ pc = "exit" /\ pc' = "row" /\ CloseTrade(tid)
        /\ UNCHANGED <<ledger, tid, entry_time, crashes>>
    BY <1>3 DEF M5Exit
  <2> QED
    BY <2>1, CloseTradeAccounts DEF FInv, DeskTracks
<1>4. CASE Engine
  <2>1. /\ pc = "idle" /\ pc' \in {"exit", "order", "idle"}
        /\ UNCHANGED <<trades, inflight, ledger, tid, entry_time, failed, crashes>>
    BY <1>4 DEF Engine, AfterExit, brokerVars
  <2> QED
    BY <2>1, StillAccounts
<1> QED
  BY <1>1, <1>2, <1>3, <1>4, ReconcileAccounts, WriteRowAccounts, OrderFilledAccounts,
     OrderFailedAccounts, CrashAccounts, ResolveLateAccounts DEF Next

LEMMA AccountsInvariant == Spec => [](FInv /\ Accounts)
<1>1. Init => FInv /\ Accounts
  BY InitFInv, InitAccounts
<1>2. FInv /\ Accounts /\ [Next]_vars => (FInv /\ Accounts)'
  BY StepFInv, StepAccounts
<1> QED
  BY <1>1, <1>2, PTL DEF Spec

-----------------------------------------------------------------------------
(* The trade book.                                                          *)

ClosedTrades == {t \in 1..Len(trades) : trades[t].closer # "-"}
BookedTrades == {r.trade : r \in {q \in ledger : q.exit_px \in Certain}}

Bounded == Len(trades) <= MaxTrades

\* A certain exit price is that of a closed trade, on its way to the row and in it.
CertainClosed ==
    /\ pc = "row" /\ fill \in Certain => tid \in ClosedTrades
    /\ BookedTrades \subseteq ClosedTrades

BInv == Bounded /\ CertainClosed

\* The steps of the book, in terms of what the views of it do.
LEMMA BookView ==
    /\ \A t \in OpenTrades :
         /\ t \in 1..MaxTrades
         /\ OpenTrades' = OpenTrades \ {t} /\ ClosedTrades' = ClosedTrades \cup {t}
         /\ BookedTrades' = BookedTrades
         => Book!Next
    /\ \A t \in 1..MaxTrades \ (OpenTrades \cup ClosedTrades) :
         /\ OpenTrades' = OpenTrades \cup {t} /\ ClosedTrades' = ClosedTrades
         /\ BookedTrades' = BookedTrades
         => Book!Next
    /\ \A t \in ClosedTrades \ BookedTrades :
         /\ t \in 1..MaxTrades
         /\ BookedTrades' = BookedTrades \cup {t}
         /\ OpenTrades' = OpenTrades /\ ClosedTrades' = ClosedTrades
         => Book!Next
    /\ /\ OpenTrades' = OpenTrades /\ ClosedTrades' = ClosedTrades
       /\ BookedTrades' = BookedTrades
       => UNCHANGED Book!vars
<1>1. ASSUME NEW t \in OpenTrades, t \in 1..MaxTrades, OpenTrades' = OpenTrades \ {t},
             ClosedTrades' = ClosedTrades \cup {t}, BookedTrades' = BookedTrades
      PROVE  Book!Next
  <2>1. {t} \in SUBSET (1..MaxTrades) /\ {t} \subseteq OpenTrades /\ {t} # {}
    BY <1>1
  <2> QED
    BY <1>1, <2>1 DEF Book!Next, Book!Close, ClosedTrades, BookedTrades
<1>2. ASSUME NEW t \in 1..MaxTrades \ (OpenTrades \cup ClosedTrades),
             OpenTrades' = OpenTrades \cup {t}, ClosedTrades' = ClosedTrades,
             BookedTrades' = BookedTrades
      PROVE  Book!Next
  <2>1. /\ {} \in SUBSET (1..MaxTrades) /\ {} \subseteq OpenTrades
        /\ OpenTrades \ {} = OpenTrades /\ ClosedTrades \cup {} = ClosedTrades
    OBVIOUS
  <2> QED
    BY <1>2, <2>1 DEF Book!Next, Book!Open, ClosedTrades, BookedTrades
<1>3. ASSUME NEW t \in ClosedTrades \ BookedTrades, t \in 1..MaxTrades,
             BookedTrades' = BookedTrades \cup {t}, OpenTrades' = OpenTrades,
             ClosedTrades' = ClosedTrades
      PROVE  Book!Next
  BY <1>3 DEF Book!Next, Book!Book, ClosedTrades, BookedTrades
<1>4. OpenTrades' = OpenTrades /\ ClosedTrades' = ClosedTrades /\ BookedTrades' = BookedTrades
      => UNCHANGED Book!vars
  BY DEF Book!vars, ClosedTrades, BookedTrades
<1> QED
  BY <1>1, <1>2, <1>3, <1>4

\* One trade closing is a Close of the book.
LEMMA CloseBook ==
    ASSUME FInv, Bounded, NEW t, IsOpen(t), NEW who \in {"desk", "late", "net"},
           trades' = CloseAs(t, who), UNCHANGED ledger
    PROVE  Book!Next /\ Bounded' /\ t \in ClosedTrades'
<1>1. t \in 1..Len(trades) /\ trades[t].closer = "-" /\ Len(trades) \in Nat /\ MaxTrades \in Nat
  BY FFacts, DeskAssumption DEF IsOpen
<1>2. Grows /\ trades'[t].closer = who
  BY <1>1, CloseAsGrows
<1>3. Len(trades') = Len(trades)
  <2>1. DOMAIN trades' = DOMAIN trades /\ Len(trades') \in Nat
        /\ DOMAIN trades = 1..Len(trades) /\ DOMAIN trades' = 1..Len(trades')
    BY <1>2, FFacts, LenProperties DEF CloseAs, Grows
  <2> QED
    BY <1>1, <2>1
<1>4. \A u \in 1..Len(trades) : u # t => trades'[u].closer = trades[u].closer
  BY FFacts DEF CloseAs
<1>5. OpenTrades' = OpenTrades \ {t} /\ ClosedTrades' = ClosedTrades \cup {t}
  BY <1>1, <1>2, <1>3, <1>4 DEF OpenTrades, ClosedTrades
<1>6. t \in OpenTrades /\ t \in 1..MaxTrades /\ BookedTrades' = BookedTrades
  BY <1>1 DEF OpenTrades, Bounded, BookedTrades
<1>7. Book!Next
  BY <1>5, <1>6, BookView
<1> QED
  BY <1>3, <1>5, <1>7 DEF Bounded

\* A market order is an Open or a Close of the book.
LEMMA ExecutedBook ==
    ASSUME FInv, Bounded, NEW d \in Dirs, NEW id \in 0..MaxTrades, Executed(d, id),
           UNCHANGED ledger
    PROVE  Book!Next /\ Bounded'
<1>1. trades \in Seq(Trade) /\ Len(trades) \in Nat /\ MaxTrades \in Nat
  BY FFacts, DeskAssumption
<1>2. CASE \E t \in OpenTrades : trades' = CloseAs(t, "net") /\ id = None
  <2>1. PICK t \in OpenTrades : trades' = CloseAs(t, "net")
    BY <1>2
  <2>2. IsOpen(t)
    BY DEF OpenTrades, IsOpen
  <2> QED
    BY <2>1, <2>2, CloseBook
<1>3. CASE /\ Len(trades) < MaxTrades /\ id = Len(trades) + 1
           /\ trades' = Append(trades, [dir |-> d, closer |-> "-"])
  <2> DEFINE new == [dir |-> d, closer |-> "-"]
  <2>1. new \in Trade /\ new.closer = "-"
    BY DEF Trade
  <2> HIDE DEF new
  <2>2. /\ Len(trades') = Len(trades) + 1 /\ trades'[id] = new
        /\ \A u \in 1..Len(trades) : trades'[u] = trades[u]
    BY <1>1, <1>3, <2>1, AppendProperties DEF new
  <2>3. 1..Len(trades') = (1..Len(trades)) \cup {id}
    BY <1>1, <1>3, <2>2
  <2>4. OpenTrades' = OpenTrades \cup {id} /\ ClosedTrades' = ClosedTrades
    BY <2>1, <2>2, <2>3 DEF OpenTrades, ClosedTrades
  <2>5. id \in 1..MaxTrades \ (OpenTrades \cup ClosedTrades) /\ Bounded'
    BY <1>1, <1>3, <2>2 DEF OpenTrades, ClosedTrades, Bounded
  <2>6. BookedTrades' = BookedTrades
    BY DEF BookedTrades
  <2> QED
    BY <2>4, <2>5, <2>6, BookView
<1> QED
  BY <1>2, <1>3 DEF Executed

\* A step that leaves trades and ledger alone is a stutter of the book.
LEMMA SameBook ==
    ASSUME Bounded, CertainClosed, UNCHANGED <<trades, ledger>>
    PROVE  /\ UNCHANGED Book!vars /\ Bounded' /\ ClosedTrades' = ClosedTrades
           /\ BookedTrades' \subseteq ClosedTrades'
<1>1. OpenTrades' = OpenTrades /\ ClosedTrades' = ClosedTrades /\ BookedTrades' = BookedTrades
  BY DEF OpenTrades, ClosedTrades, BookedTrades
<1> QED
  BY <1>1, BookView DEF Bounded, CertainClosed

\* What has closed and is booked stays so while the trades grow.
LEMMA ClosedStays ==
    ASSUME FInv, CertainClosed, Grows, UNCHANGED ledger
    PROVE  ClosedTrades \subseteq ClosedTrades' /\ BookedTrades' \subseteq ClosedTrades'
<1>1. Len(trades) \in Nat /\ Len(trades') \in Nat
  BY FFacts, LenProperties DEF Grows
<1>2. ClosedTrades \subseteq ClosedTrades'
  BY <1>1 DEF ClosedTrades, Grows
<1>3. BookedTrades' = BookedTrades
  BY DEF BookedTrades
<1> QED
  BY <1>2, <1>3 DEF CertainClosed

\* A close: the price it answers is certain only if the trade has closed.
LEMMA CloseTradeBook ==
    ASSUME FInv, BInv, tid \in 1..Len(trades), CloseTrade(tid), UNCHANGED <<ledger, tid>>
    PROVE  [Book!Next]_(Book!vars) /\ BInv'
<1>1. Grows /\ Bounded /\ CertainClosed
  BY CloseTradeFacts DEF BInv
<1>2. BookedTrades' \subseteq ClosedTrades' /\ ClosedTrades \subseteq ClosedTrades'
  BY <1>1, ClosedStays
<1>3. CASE IsOpen(tid) /\ trades' = CloseAs(tid, "desk")
  <2>1. Book!Next /\ Bounded' /\ tid \in ClosedTrades'
    BY <1>1, <1>3, CloseBook
  <2> QED
    BY <1>2, <2>1 DEF BInv, CertainClosed
<1>4. CASE ~IsOpen(tid) /\ UNCHANGED trades
  <2>1. tid \in ClosedTrades
    BY <1>4 DEF IsOpen, ClosedTrades
  <2>2. UNCHANGED Book!vars /\ Bounded'
    BY <1>1, <1>4, SameBook
  <2> QED
    BY <1>2, <2>1, <2>2 DEF BInv, CertainClosed
<1>5. CASE (("close" \in Faults /\ fill' = "bar") \/ fill' = "zero") /\ UNCHANGED trades
  <2>1. fill' \notin Certain
    BY <1>5 DEF Certain
  <2>2. UNCHANGED Book!vars /\ Bounded'
    BY <1>1, <1>5, SameBook
  <2> QED
    BY <1>2, <2>1, <2>2 DEF BInv, CertainClosed, Certain
<1> QED
  BY <1>3, <1>4, <1>5 DEF CloseTrade

\* The row of a certain price books its trade, if nothing booked it before.
LEMMA WriteRowBook ==
    ASSUME FInv, BInv, WriteRow
    PROVE  [Book!Next]_(Book!vars) /\ BInv'
<1>1. /\ pc = "row" /\ pc' # "row" /\ UNCHANGED trades /\ Bounded /\ CertainClosed
  BY DEF WriteRow, AfterExit, brokerVars, BInv
<1>2. OpenTrades' = OpenTrades /\ ClosedTrades' = ClosedTrades /\ Bounded'
  BY <1>1 DEF OpenTrades, ClosedTrades, Bounded
<1>3. Row.trade = tid /\ Row.exit_px = fill
  BY DEF Row
<1>4. CASE BookedTrades' = BookedTrades
  <2>1. UNCHANGED Book!vars
    BY <1>2, <1>4, BookView
  <2> QED
    BY <1>1, <1>2, <1>4, <2>1 DEF BInv, CertainClosed
<1>5. CASE BookedTrades' # BookedTrades
  <2>1. ledger' = ledger \cup {Row}
    BY <1>5 DEF WriteRow, Insert, BookedTrades
  <2>2. BookedTrades' \subseteq BookedTrades \cup {tid} /\ BookedTrades \subseteq BookedTrades'
    BY <1>3, <2>1 DEF BookedTrades, Certain
  <2>3. fill \in Certain
    <3>1. CASE fill \notin Certain
      <4>1. BookedTrades' = BookedTrades
        BY <1>3, <2>1, <3>1 DEF BookedTrades, Certain
      <4> QED
        BY <1>5, <4>1
    <3> QED
      BY <3>1
  <2>4. tid \in ClosedTrades \ BookedTrades /\ BookedTrades' = BookedTrades \cup {tid}
    BY <1>1, <1>5, <2>2, <2>3 DEF CertainClosed
  <2>5. tid \in 1..MaxTrades
    BY <1>1, <2>4, FFacts, DeskAssumption DEF ClosedTrades, Bounded
  <2>6. Book!Next
    BY <1>2, <2>4, <2>5, BookView
  <2> QED
    BY <1>1, <1>2, <2>4, <2>6 DEF BInv, CertainClosed
<1> QED
  BY <1>4, <1>5

\* A late request moves the trades only.
LEMMA ResolveLateBook ==
    ASSUME FInv, BInv, NEW q \in inflight, ResolveLate(q)
    PROVE  [Book!Next]_(Book!vars) /\ BInv'
<1>1. Bounded /\ CertainClosed /\ UNCHANGED <<ledger, tid, fill, pc>>
  BY DEF ResolveLate, BInv
<1>2. Grows /\ [Book!Next]_(Book!vars) /\ Bounded'
  <2>1. CASE q.op = "open" /\ \E id \in 0..MaxTrades : Executed(q.dir, id)
    <3>1. q.dir \in Dirs
      BY <2>1, FFacts DEF Requests
    <3> QED
      BY <1>1, <2>1, <3>1, ExecutedGrows, ExecutedBook
  <2>2. CASE IsOpen(q.trade) /\ trades' = CloseAs(q.trade, "late")
    <3>1. Grows
      BY <2>2, CloseAsGrows DEF IsOpen
    <3> QED
      BY <1>1, <2>2, <3>1, CloseBook
  <2>3. CASE UNCHANGED trades
    BY <1>1, <2>3, StillGrows, SameBook
  <2> QED
    BY <2>1, <2>2, <2>3 DEF ResolveLate
<1>3. ClosedTrades \subseteq ClosedTrades' /\ BookedTrades' \subseteq ClosedTrades'
  BY <1>1, <1>2, ClosedStays
<1> QED
  BY <1>1, <1>2, <1>3 DEF BInv, CertainClosed, Certain

\* The initial state: an empty book.
LEMMA InitBook == Init => BInv /\ Book!Init
<1> SUFFICES ASSUME Init PROVE BInv /\ Book!Init
  OBVIOUS
<1>1. Len(trades) = 0 /\ ledger = {} /\ pc = "start"
  BY DEF Init
<1>2. OpenTrades = {} /\ ClosedTrades = {} /\ BookedTrades = {}
  BY <1>1 DEF OpenTrades, ClosedTrades, BookedTrades
<1>3. BInv
  BY <1>1, <1>2, DeskAssumption DEF BInv, Bounded, CertainClosed
<1>4. Book!Init
  BY <1>2 DEF Book!Init, ClosedTrades, BookedTrades
<1> QED
  BY <1>3, <1>4

\* Every step of the desk is a step of the book, or a stutter.
LEMMA StepBook == FInv /\ BInv /\ [Next]_vars => BInv' /\ [Book!Next]_(Book!vars)
<1> SUFFICES ASSUME FInv, BInv, [Next]_vars PROVE BInv' /\ [Book!Next]_(Book!vars)
  OBVIOUS
<1>0. ASSUME UNCHANGED <<trades, ledger>>, pc' # "row" \/ UNCHANGED <<pc, tid, fill>>
      PROVE  BInv' /\ [Book!Next]_(Book!vars)
  BY <1>0, SameBook DEF BInv, CertainClosed, Certain
<1>1. CASE S5Trail \/ M5Exit
  <2>1. tid \in 1..Len(trades) /\ CloseTrade(tid) /\ UNCHANGED <<ledger, tid>>
    BY <1>1 DEF S5Trail, M5Exit, FInv, DeskTracks
  <2> QED
    BY <2>1, CloseTradeBook
<1>2. CASE OrderFilled
  <2>1. sig.entry \in Dirs /\ UNCHANGED ledger /\ pc' # "row" /\ Bounded /\ CertainClosed
    BY <1>2, FFacts DEF OrderFilled, OrderDone, FInv, Stages, Signals, Dirs, BInv
  <2>2. PICK id \in 0..MaxTrades : Executed(sig.entry, id)
    BY <1>2 DEF OrderFilled
  <2>3. Grows /\ Book!Next /\ Bounded'
    BY <2>1, <2>2, ExecutedGrows, ExecutedBook
  <2>4. BookedTrades' \subseteq ClosedTrades'
    BY <2>1, <2>3, ClosedStays
  <2> QED
    BY <2>1, <2>3, <2>4 DEF BInv, CertainClosed
<1>3. CASE Reconcile \/ Engine \/ OrderRefused \/ OrderRetry \/ Crash
  <2>1. UNCHANGED <<trades, ledger>> /\ (pc' # "row" \/ UNCHANGED <<pc, tid, fill>>)
    BY <1>3 DEF Reconcile, Engine, AfterExit, OrderRefused, OrderRetry, OrderDone, Crash, brokerVars
  <2> QED
    BY <1>0, <2>1
<1>4. CASE UNCHANGED vars
  BY <1>0, <1>4 DEF vars
<1> QED
  BY <1>1, <1>2, <1>3, <1>4, WriteRowBook, ResolveLateBook DEF Next

-----------------------------------------------------------------------------
(* The theorems.                                                            *)

\* Whatever fails, the state keeps its types: the chart's history never outgrows the
\* ring buffer of lib/pnf_engine.py.
THEOREM FifoTypeCorrect == Spec => []TypeOK
<1>1. FInv => TypeOK
  BY DEF FInv
<1> QED
  BY <1>1, DeskInvariant, PTL

\* The trade that check_s5_trail and the M5 exit would close is the one the engine's
\* position, its entry price and the row about to be written are about.
THEOREM FifoDeskTracks == Spec => []DeskTracks
<1>1. FInv => DeskTracks
  BY DEF FInv
<1> QED
  BY <1>1, DeskInvariant, PTL

\* No row of the trades table lies about its trade, and a broker's exit price is only
\* on the row of a trade the desk closed.
THEOREM FifoRowsTruthful == Spec => []RowsTruthful
<1>1. FInv => RowsTruthful
  BY DEF FInv
<1> QED
  BY <1>1, DeskInvariant, PTL

\* A pending entry always has the direction of the chart's column, a column before
\* it, and no position, whoever moved the position.
THEOREM PendingIsSound == Spec => []PendingFollowsChart
<1>1. FInv => PendingFollowsChart
  BY DEF FInv
<1> QED
  BY <1>1, DeskInvariant, PTL

\* The stop of a trade that stays held never moves against it, for every box size,
\* reversal and trail.
THEOREM StopsRatchet == Spec => TrailRatchets
<1> DEFINE Ratchet == tid # None /\ tid' = tid /\ pc' = "idle"
                      => st.pos * st'.hw_level >= st.pos * st.hw_level
<1>1. ASSUME FInv, Next PROVE Ratchet
  <2> SUFFICES ASSUME tid # None, tid' = tid, pc' = "idle"
               PROVE  st.pos * st'.hw_level >= st.pos * st.hw_level
    OBVIOUS
  <2>1. st.pos \in {-1, 0, 1} /\ st.hw_level \in Int
    BY <1>1, FFacts DEF Sized, PnFState
  <2>2. pc \notin {"start", "order"}
    BY <1>1 DEF FInv, DeskTracks
  <2>3. Engine \/ UNCHANGED st
    BY <1>1, <2>2 DEF Next, Reconcile, S5Trail, M5Exit, WriteRow, OrderFilled, OrderRefused,
                      OrderRetry, Crash, ResolveLate
  <2>4. CASE UNCHANGED st
    BY <2>1, <2>4
  <2>5. CASE Engine
    <3>1. PICK b \in Bars, ok \in BOOLEAN :
            /\ st' = BarResult(st, b, ok).st
            /\ BarResult(st, b, ok).exit # "-" => pc' = "exit"
      BY <1>1, <2>5 DEF Engine, FInv, Stages
    <3>2. BarResult(st, b, ok).exit = "-"
      BY <3>1
    <3>3. st.pos # 0
      BY <1>1, <2>5 DEF Engine, FInv, DeskTracks
    <3> QED
      BY <1>1, <3>1, <3>2, <3>3, FFacts, BarFacts
  <2> QED
    BY <2>3, <2>4, <2>5
<1>2. FInv /\ [Next]_vars => [Ratchet]_vars
  BY <1>1
<1> QED
  BY <1>2, DeskInvariant, PTL DEF Spec, TrailRatchets
\* However often closes, orders, reads and rows fail, and whatever late answers and
\* restarts come in between: the trades left open that run_live no longer holds are no
\* more than the broker calls that failed.
THEOREM FifoOrphansAccounted == Spec => []OrphansAccounted
<1>1. FInv /\ Accounts => OrphansAccounted
  <2> SUFFICES ASSUME FInv, Accounts, pc # "start" PROVE Cardinality(OpenTrades \ {tid}) <= failed
    BY DEF OrphansAccounted
  <2>1. /\ IsFiniteSet(OpenTrades \ {None}) /\ Cardinality(OpenTrades \ {None}) \in Nat
        /\ Cardinality(OpenTrades \ {tid}) \in Nat
        /\ Cardinality(Late) \in Nat /\ failed \in Nat
    BY CountFacts DEF Accounts
  <2>2. CASE pc = "row"
    <3>1. OpenTrades \ {tid} \subseteq OpenTrades \ {None}
      BY FFacts DEF OpenTrades
    <3>2. Cardinality(OpenTrades \ {tid}) <= Cardinality(OpenTrades \ {None})
      BY <2>1, <3>1, Fewer
    <3>3. Cardinality(OpenTrades \ {None}) + Cardinality(Late) <= failed
      BY <2>2 DEF Accounts, OrphanCount, Orphans
    <3> QED
      BY <2>1, <3>2, <3>3
  <2>3. CASE pc # "row"
    <3>1. Cardinality(OpenTrades \ {tid}) + Cardinality(Late) <= failed
      BY <2>3 DEF Accounts, OrphanCount, Orphans
    <3> QED
      BY <2>1, <3>1
  <2> QED
    BY <2>2, <2>3
<1> QED
  BY <1>1, AccountsInvariant, PTL

\* The trades the desk closed that have no row in the trades table are no more than the
\* calls that failed and the restarts; each restart may leave one trade that the next start
\* adopts and whose row the table then refuses.
THEOREM FifoLossesAccounted == Spec => []LossesAccounted
<1>1. FInv /\ Accounts => LossesAccounted
  <2> SUFFICES ASSUME FInv, Accounts PROVE LossesAccounted
    OBVIOUS
  <2> DEFINE S == {t \in 1..Len(trades) : /\ trades[t].closer = "desk"
                                          /\ t # tid
                                          /\ \A r \in ledger : r.trade # t}
  <2>1. /\ IsFiniteSet(Unrecorded \ Secured) /\ Cardinality(Unrecorded \ Secured) \in Nat
        /\ Cardinality(Late) \in Nat /\ failed \in Nat /\ crashes \in Nat
    BY CountFacts DEF Accounts
  <2>2. S \subseteq Unrecorded \ Secured
    BY DEF Unrecorded, Secured
  <2> HIDE DEF S
  <2>3. Cardinality(S) \in Nat /\ Cardinality(S) <= Cardinality(Unrecorded \ Secured)
    BY <2>1, <2>2, Fewer
  <2>4. Cardinality(S) <= failed + crashes
    BY <2>1, <2>3 DEF Accounts, LossCount
  <2> QED
    BY <2>4 DEF S, LossesAccounted
<1> QED
  BY <1>1, AccountsInvariant, PTL

\* The desk, its broker and its table implement the trade book, whatever fails: trades
\* open once and close for good, and a row whose exit price is certain is about a trade
\* that has closed, and is never taken back.
THEOREM FifoImplementsBook == Spec => ImplementsBook
<1>1. Init => FInv /\ BInv /\ Book!Init
  BY InitFInv, InitBook
<1>2. FInv /\ BInv /\ [Next]_vars => (FInv /\ BInv)' /\ [Book!Next]_(Book!vars)
  BY StepFInv, StepBook
<1> QED
  BY <1>1, <1>2, PTL DEF Spec, ImplementsBook, Book!Spec
=============================================================================
