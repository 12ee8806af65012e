--------------------------- MODULE StackDeskProofs ---------------------------
(***************************************************************************)
(* Theorems about StackDesk for every list of pairs and every bound.       *)
(***************************************************************************)
EXTENDS StackDesk, SequenceTheorems, TLAPS

\* What the broker does to the trades of an account: it only ever appends new
\* ones, cuts open ones where orders may do so, and closes them, for good.
Grows ==
    /\ Len(trades) <= Len(trades')
    /\ \A t \in 1..Len(trades) :
         /\ trades'[t].pair = trades[t].pair
         /\ trades'[t].dir = trades[t].dir
         /\ trades[t].closer # "-" => trades'[t] = trades[t]
         /\ trades[t].cut => trades'[t].cut
         /\ "shrink" \notin Faults => trades'[t].cut = trades[t].cut
    /\ \A t \in 1..Len(trades') : t > Len(trades) => ~trades'[t].cut

\* The loop always works on one of its pairs.
LEMMA CurrentPair ==
    ASSUME cur \in DOMAIN PairSeq
    PROVE  p \in Pairs
BY DEF p, Pairs

\* The state a pair starts from is a PairState.
LEMMA FlatType == Flat \in PairState
BY DEF Flat, PairState, None

\* Closing one trade changes nothing but its closer.
LEMMA CloseAsFacts ==
    ASSUME trades \in Seq(Trade), NEW t \in 1..Len(trades),
           NEW who \in {"bracket", "desk", "late", "net"}
    PROVE  /\ CloseAs(t, who) \in Seq(Trade)
           /\ Len(CloseAs(t, who)) = Len(trades)
           /\ \A u \in 1..Len(trades) :
                /\ u # t => CloseAs(t, who)[u] = trades[u]
                /\ CloseAs(t, who)[u].pair = trades[u].pair
                /\ CloseAs(t, who)[u].dir = trades[u].dir
                /\ CloseAs(t, who)[u].cut = trades[u].cut
           /\ CloseAs(t, who)[t].closer = who
<1> DEFINE closed == [trades[t] EXCEPT !.closer = who]
<1>1. trades[t] \in Trade
  BY ElementOfSeq
<1>2. closed \in Trade /\ closed.pair = trades[t].pair /\ closed.dir = trades[t].dir /\ closed.closer = who
      /\ closed.cut = trades[t].cut
  BY <1>1 DEF Trade
<1>3. CloseAs(t, who) = [trades EXCEPT ![t] = closed]
  BY DEF CloseAs
<1> HIDE DEF closed
<1> QED
  BY <1>1, <1>2, <1>3, ExceptSeq

\* Netting closes the trades in gone and cuts those in part; the others, and every
\* closed trade, are left alone.
LEMMA NettingFacts ==
    ASSUME trades \in Seq(Trade), NEW gone, NEW part,
           gone \cup part \subseteq {t \in 1..Len(trades) : trades[t].closer = "-"}
    PROVE  /\ Netting(gone, part) \in Seq(Trade)
           /\ Len(Netting(gone, part)) = Len(trades)
           /\ \A u \in 1..Len(trades) :
                LET v == Netting(gone, part)[u]
                IN  /\ u \notin gone \cup part => v = trades[u]
                    /\ v.closer = IF u \in gone THEN "net" ELSE trades[u].closer
                    /\ v.pair = trades[u].pair /\ v.dir = trades[u].dir
                    /\ trades[u].closer # "-" => v = trades[u]
                    /\ trades[u].cut => v.cut
                    /\ part = {} => v.cut = trades[u].cut
<1>1. Len(trades) \in Nat
  BY LenProperties
<1>2. ASSUME NEW u \in 1..Len(trades)
      PROVE  LET t == [trades[u] EXCEPT !.closer = "net"]
                 c == [trades[u] EXCEPT !.cut = TRUE]
             IN  /\ trades[u] \in Trade /\ t \in Trade /\ c \in Trade
                 /\ t.pair = trades[u].pair /\ t.dir = trades[u].dir /\ t.closer = "net"
                 /\ t.cut = trades[u].cut
                 /\ c.pair = trades[u].pair /\ c.dir = trades[u].dir
                 /\ c.closer = trades[u].closer /\ c.cut
  <2>1. trades[u] \in Trade
    BY ElementOfSeq
  <2> QED
    BY <2>1 DEF Trade
<1>3. \A u \in 1..Len(trades) :
         Netting(gone, part)[u] = IF u \in gone THEN [trades[u] EXCEPT !.closer = "net"]
                                  ELSE IF u \in part THEN [trades[u] EXCEPT !.cut = TRUE]
                                  ELSE trades[u]
  BY DEF Netting
<1>4. ASSUME NEW u \in 1..Len(trades) PROVE Netting(gone, part)[u] \in Trade
  <2>1. Netting(gone, part)[u] \in {trades[u], [trades[u] EXCEPT !.closer = "net"],
                                    [trades[u] EXCEPT !.cut = TRUE]}
    BY <1>3
  <2>2. /\ trades[u] \in Trade /\ [trades[u] EXCEPT !.closer = "net"] \in Trade
        /\ [trades[u] EXCEPT !.cut = TRUE] \in Trade
    BY <1>2
  <2> QED
    BY <2>1, <2>2
<1>5. DOMAIN Netting(gone, part) = 1..Len(trades)
  BY DEF Netting
<1>6. Netting(gone, part) \in [1..Len(trades) -> Trade]
  BY <1>4 DEF Netting
<1>7. Netting(gone, part) \in Seq(Trade) /\ Len(Netting(gone, part)) = Len(trades)
  BY <1>1, <1>5, <1>6, IsASeq, LenProperties
<1>8. ASSUME NEW u \in 1..Len(trades)
      PROVE  LET v == Netting(gone, part)[u]
             IN  /\ u \notin gone \cup part => v = trades[u]
                 /\ v.closer = IF u \in gone THEN "net" ELSE trades[u].closer
                 /\ v.pair = trades[u].pair /\ v.dir = trades[u].dir
                 /\ trades[u].closer # "-" => v = trades[u]
                 /\ trades[u].cut => v.cut
                 /\ part = {} => v.cut = trades[u].cut
  <2> DEFINE w == trades[u]
             x == [w EXCEPT !.closer = "net"]
             y == [w EXCEPT !.cut = TRUE]
  <2>0. /\ x.pair = w.pair /\ x.dir = w.dir /\ x.closer = "net" /\ x.cut = w.cut
        /\ y.pair = w.pair /\ y.dir = w.dir /\ y.closer = w.closer /\ y.cut
        /\ u \in gone \cup part => w.closer = "-"
    BY <1>2
  <2>a. Netting(gone, part)[u] = IF u \in gone THEN x ELSE IF u \in part THEN y ELSE w
    BY <1>3
  <2> HIDE DEF w, x, y
  <2>1. CASE u \in gone
    BY <2>0, <2>a, <2>1 DEF w
  <2>2. CASE u \notin gone /\ u \in part
    BY <2>0, <2>a, <2>2 DEF w
  <2>3. CASE u \notin gone \cup part
    BY <2>0, <2>a, <2>3 DEF w
  <2> QED
    BY <2>1, <2>2, <2>3
<1> QED
  BY <1>7, <1>8

\* What a market order does: it may close or cut trades, and may append one of its own.
LEMMA ExecutedFacts ==
    ASSUME trades \in Seq(Trade), NEW q \in Pairs, NEW d \in Dirs, NEW id \in 0..MaxTrades,
           Executed(q, d, id)
    PROVE  /\ trades' \in Seq(Trade)
           /\ Grows
           /\ id # None => /\ id = Len(trades) + 1 /\ Len(trades') = id
                           /\ trades'[id].pair = q /\ trades'[id].dir = d
<1> DEFINE new == [pair |-> q, dir |-> d, closer |-> "-", cut |-> FALSE]
<1>1. new \in Trade /\ new.pair = q /\ new.dir = d /\ ~new.cut /\ Len(trades) \in Nat
  BY LenProperties DEF Trade
<1>2. PICK gone \in SUBSET OpenOn(q), part \in SUBSET OpenOn(q) :
        /\ part # {} => "shrink" \in Faults
        /\ \/ trades' = Netting(gone, part) /\ id = None
           \/ trades' = Append(Netting(gone, part), new) /\ id = Len(trades) + 1
  BY DEF Executed
<1> HIDE DEF new
<1>3. gone \cup part \subseteq {t \in 1..Len(trades) : trades[t].closer = "-"}
  BY DEF OpenOn
<1> DEFINE net == Netting(gone, part)
<1>4. /\ net \in Seq(Trade) /\ Len(net) = Len(trades)
      /\ \A u \in 1..Len(trades) :
           /\ net[u].pair = trades[u].pair
           /\ net[u].dir = trades[u].dir
           /\ trades[u].closer # "-" => net[u] = trades[u]
           /\ trades[u].cut => net[u].cut
           /\ "shrink" \notin Faults => net[u].cut = trades[u].cut
  BY <1>2, <1>3, NettingFacts
<1> HIDE DEF net
<1>5. CASE trades' = net /\ id = None
  BY <1>1, <1>4, <1>5 DEF Grows
<1>6. CASE trades' = Append(net, new) /\ id = Len(trades) + 1
  <2>1. /\ trades' \in Seq(Trade) /\ Len(trades') = Len(trades) + 1 /\ trades'[Len(trades) + 1] = new
        /\ \A u \in 1..Len(trades) : trades'[u] = net[u]
    BY <1>1, <1>4, <1>6, AppendProperties
  <2> QED
    BY <1>1, <1>4, <1>6, <2>1 DEF Grows
<1> QED
  BY <1>2, <1>5, <1>6 DEF net

-----------------------------------------------------------------------------
(* What the handlers write into a PairState, field by field.               *)

\* The state after Reset, field by field.
LEMMA ResetFacts ==
    ASSUME NEW s \in PairState
    PROVE  /\ Reset(s) \in PairState
           /\ Reset(s).pos_dir = 0 /\ Reset(s).open_trade_id = None /\ Reset(s).entry_px = None
           /\ Reset(s).pending = "none" /\ ~Reset(s).psar_armed
BY DEF Reset, PairState, None

\* The state after arming the PSAR exit.
LEMMA ArmedFacts ==
    ASSUME NEW s \in PairState, NEW reply \in {"psar_trail", "psar_trail_est"}
    PROVE  /\ Armed(s) \in PairState
           /\ [Armed(s) EXCEPT !.pending = reply] \in PairState
           /\ Armed(s).pos_dir = s.pos_dir /\ Armed(s).open_trade_id = s.open_trade_id
           /\ Armed(s).entry_px = s.entry_px /\ Armed(s).pending = s.pending
           /\ [Armed(s) EXCEPT !.pending = reply].pos_dir = s.pos_dir
           /\ [Armed(s) EXCEPT !.pending = reply].open_trade_id = s.open_trade_id
           /\ [Armed(s) EXCEPT !.pending = reply].entry_px = s.entry_px
           /\ [Armed(s) EXCEPT !.pending = reply].pending = reply
           /\ Armed(s).entry_time = s.entry_time
           /\ [Armed(s) EXCEPT !.pending = reply].entry_time = s.entry_time
<1>1. Armed(s) \in PairState /\ Armed(s).pos_dir = s.pos_dir /\ Armed(s).entry_time = s.entry_time
      /\ Armed(s).open_trade_id = s.open_trade_id
      /\ Armed(s).entry_px = s.entry_px /\ Armed(s).pending = s.pending
  BY DEF Armed, PairState
<1>2. ASSUME NEW a \in PairState
      PROVE  /\ [a EXCEPT !.pending = reply] \in PairState
             /\ [a EXCEPT !.pending = reply].pos_dir = a.pos_dir
             /\ [a EXCEPT !.pending = reply].open_trade_id = a.open_trade_id
             /\ [a EXCEPT !.pending = reply].entry_px = a.entry_px
             /\ [a EXCEPT !.pending = reply].pending = reply
             /\ [a EXCEPT !.pending = reply].entry_time = a.entry_time
  BY DEF PairState
<1> QED
  BY <1>1, <1>2

\* The state after a fill, with or without a trade of its own.
LEMMA EnteredFacts ==
    ASSUME NEW s \in PairState, NEW d \in Dirs, NEW id \in Nat
    PROVE  /\ Entered(s, d, id) \in PairState
           /\ Entered(s, d, id).pos_dir = d /\ Entered(s, d, id).open_trade_id = id
           /\ Entered(s, d, id).entry_px = IF id = None THEN Netted ELSE id
           /\ Entered(s, d, id).pending = s.pending
<1> DEFINE fill == IF id = None THEN Netted ELSE id
<1>1. fill \in Nat \cup {Netted} /\ d \in {-1, 0, 1}
  BY DEF Dirs
<1>2. Entered(s, d, id) = [s EXCEPT !.pos_dir = d, !.entry_px = fill, !.entry_time = fill,
                                    !.open_trade_id = id, !.psar_armed = FALSE]
  BY DEF Entered
<1> HIDE DEF fill
<1>3. /\ Entered(s, d, id) \in PairState
      /\ Entered(s, d, id).pos_dir = d /\ Entered(s, d, id).open_trade_id = id
      /\ Entered(s, d, id).entry_px = fill /\ Entered(s, d, id).pending = s.pending
  BY <1>1, <1>2 DEF PairState
<1> QED
  BY <1>3 DEF fill

\* The state after each of the three adoptions.
LEMMA AdoptedFacts ==
    ASSUME trades \in Seq(Trade), NEW s \in PairState, NEW t \in 1..Len(trades)
    PROVE  /\ WarmupAdopted(s, t).entry_px = t /\ StartupAdopted(s, t).entry_px = t
           /\ \A a \in {WarmupAdopted(s, t), StartupAdopted(s, t), GuardAdopted(s, t)} :
                 /\ a \in PairState
                 /\ a.pos_dir = trades[t].dir /\ a.pos_dir # 0
                 /\ a.open_trade_id = t /\ a.open_trade_id # None
                 /\ a.pending = s.pending
                 /\ a.entry_px = t \/ (a.entry_px = s.entry_px /\ s.entry_px # None)
<1>1. trades[t] \in Trade
  BY ElementOfSeq
<1>2. trades[t].dir \in {-1, 0, 1} /\ trades[t].dir # 0 /\ t \in Nat /\ t # 0
  BY <1>1, LenProperties DEF Trade, Dirs
<1> DEFINE d == trades[t].dir
<1> HIDE DEF d
<1>3. d \in {-1, 0, 1} /\ d # 0
  BY <1>2 DEF d
<1>4. LET a == WarmupAdopted(s, t)
      IN  /\ a \in PairState /\ a.pos_dir = d /\ a.open_trade_id = t
          /\ a.pending = s.pending /\ a.entry_px = t
  <2>1. WarmupAdopted(s, t) = [s EXCEPT !.pos_dir = d, !.entry_px = t, !.open_trade_id = t,
                                        !.entry_time = Boot, !.psar_armed = FALSE]
    BY DEF WarmupAdopted, d
  <2> QED
    BY <1>2, <1>3, <2>1 DEF PairState
<1>5. LET a == StartupAdopted(s, t)
      IN  /\ a \in PairState /\ a.pos_dir = d /\ a.open_trade_id = t
          /\ a.pending = s.pending /\ a.entry_px = t
  <2>1. StartupAdopted(s, t) = [s EXCEPT !.pos_dir = d, !.open_trade_id = t, !.entry_px = t]
    BY DEF StartupAdopted, d
  <2> QED
    BY <1>2, <1>3, <2>1 DEF PairState
<1>6. LET a == GuardAdopted(s, t)
      IN  /\ a \in PairState /\ a.pos_dir = d /\ a.open_trade_id = t
          /\ a.pending = s.pending
          /\ a.entry_px = t \/ (a.entry_px = s.entry_px /\ s.entry_px # None)
  <2> DEFINE px == IF s.entry_px = None THEN t ELSE s.entry_px
  <2>1. GuardAdopted(s, t) = [s EXCEPT !.pos_dir = d, !.open_trade_id = t, !.entry_px = px]
    BY DEF GuardAdopted, d
  <2>2. px \in Nat \cup {Netted} /\ (px = t \/ (px = s.entry_px /\ s.entry_px # None))
    BY <1>2 DEF PairState
  <2> HIDE DEF px
  <2>3. LET a == GuardAdopted(s, t)
        IN  /\ a \in PairState /\ a.pos_dir = d /\ a.open_trade_id = t
            /\ a.pending = s.pending /\ a.entry_px = px
    BY <1>2, <1>3, <2>1, <2>2 DEF PairState
  <2> QED
    BY <2>2, <2>3
<1> QED
  BY <1>2, <1>3, <1>4, <1>5, <1>6 DEF d, None

-----------------------------------------------------------------------------
(* Type correctness.                                                        *)

\* What a read of the open trades returns and leaves behind.
LEMMA ReadFacts ==
    ASSUME bad \in [Pairs -> 0..MaxBad], NEW q \in Pairs, NEW seen \in Reads(q),
           OpenTradesRead(q, seen)
    PROVE  /\ bad' \in [Pairs -> 0..MaxBad]
           /\ \A t \in seen : /\ t \in 1..Len(trades) /\ IsOpen(t)
                              /\ trades[t].pair = q
           /\ MaxBad = 0 => seen = OpenOn(q)
BY BoundsAssumption DEF Reads, OpenTradesRead, OpenOn, IsOpen

\* Moving to the next pair stays within PairSeq.
LEMMA NextPairType ==
    ASSUME cur \in DOMAIN PairSeq, NEW stage \in Stages, NEW after \in Stages,
           NextPair(stage, after)
    PROVE  cur' \in DOMAIN PairSeq /\ pc' \in {stage, after}
<1>1. Len(PairSeq) \in Nat /\ Len(PairSeq) > 0 /\ DOMAIN PairSeq = 1..Len(PairSeq)
  BY PairSeqAssumption, LenProperties
<1> QED
  BY <1>1 DEF NextPair

\* Storing a well-typed PairState for the current pair.
LEMMA StoreFacts ==
    ASSUME st \in [Pairs -> PairState], p \in Pairs, NEW s \in PairState,
           st' = [st EXCEPT ![p] = s]
    PROVE  /\ st' \in [Pairs -> PairState]
           /\ st'[p] = s
           /\ \A q \in Pairs : q # p => st'[q] = st[q]
<1> DEFINE k == p
<1>1. k \in Pairs /\ st' = [st EXCEPT ![k] = s]
  OBVIOUS
<1> HIDE DEF k
<1>2. /\ st' \in [Pairs -> PairState] /\ st'[k] = s
      /\ \A q \in Pairs : q # k => st'[q] = st[q]
  BY <1>1
<1> QED
  BY <1>2 DEF k

\* The initial state is of the declared types.
LEMMA InitType == Init => TypeOK
<1> SUFFICES ASSUME Init PROVE TypeOK
  OBVIOUS
<1>1. trades \in Seq(Trade)
  BY EmptySeq DEF Init
<1>2. cur \in DOMAIN PairSeq
  BY PairSeqAssumption, LenProperties DEF Init
<1>3. st \in [Pairs -> PairState]
  BY FlatType DEF Init
<1> QED
  BY <1>1, <1>2, <1>3, BoundsAssumption DEF Init, TypeOK, Stages

\* The row reconcile would write for the current pair.
LEMMA RowType ==
    ASSUME st \in [Pairs -> PairState], p \in Pairs,
           NEW reason \in {"psar_trail", "psar_trail_est", "closed_broker"}
    PROVE  Row(reason) \in LedgerRow
<1>1. st[p] \in PairState
  OBVIOUS
<1>2. ASSUME NEW s \in PairState
      PROVE  s.open_trade_id \in Nat /\ s.entry_px \in Nat \cup {Netted}
             /\ s.entry_time \in Nat \cup {Netted, Boot}
  BY DEF PairState
<1> QED
  BY <1>1, <1>2 DEF Row, TradeKey, LedgerRow

\* Every step keeps the declared types.
LEMMA NextType == TypeOK /\ [Next]_vars => TypeOK'
<1> SUFFICES ASSUME TypeOK, [Next]_vars PROVE TypeOK'
  OBVIOUS
<1> USE DEF TypeOK
<1>a. p \in Pairs
  BY CurrentPair
<1>b. st[p] \in PairState /\ Len(trades) \in Nat
  BY <1>a, LenProperties
<1>1. CASE Warmup
  <2>1. cur' \in DOMAIN PairSeq /\ pc' \in {"warmup", "startup"}
    BY <1>1, NextPairType DEF Warmup, Stages
  <2>2. st' \in [Pairs -> PairState] /\ bad' \in [Pairs -> 0..MaxBad]
    <3>1. CASE UNCHANGED <<st, bad>>
      BY <3>1
    <3>2. CASE \E seen \in Reads(p) :
                 /\ OpenTradesRead(p, seen)
                 /\ \/ seen = {} /\ UNCHANGED st
                    \/ \E t \in seen : st' = [st EXCEPT ![p] = WarmupAdopted(st[p], t)]
      BY <1>a, <1>b, <3>2, ReadFacts, AdoptedFacts, StoreFacts
    <3> QED
      BY <1>1, <3>1, <3>2 DEF Warmup
  <2> QED
    BY <1>1, <2>1, <2>2 DEF Warmup, Stages
<1>2. CASE StartupAdoption
  <2>1. cur' \in DOMAIN PairSeq /\ pc' \in {"startup", "reconcile"}
    BY <1>2, NextPairType DEF StartupAdoption, Stages
  <2>2. st' \in [Pairs -> PairState] /\ bad' \in [Pairs -> 0..MaxBad]
    BY <1>2, <1>a, <1>b, ReadFacts, AdoptedFacts, StoreFacts DEF StartupAdoption
  <2> QED
    BY <1>2, <2>1, <2>2 DEF StartupAdoption, Stages
<1>3. CASE Reconcile
  BY <1>3, <1>a, ReadFacts DEF Reconcile, GoTo, Stages
<1>4. CASE Details
  <2>1. st' \in [Pairs -> PairState] /\ ledger' \subseteq LedgerRow
    <3>1. ASSUME NEW reason \in {"psar_trail", "psar_trail_est", "closed_broker"},
                 Conclude(reason)
          PROVE  st' \in [Pairs -> PairState] /\ ledger' \subseteq LedgerRow
      <4>1. st' \in [Pairs -> PairState]
        BY <1>a, <1>b, <3>1, ResetFacts, StoreFacts DEF Conclude
      <4> QED
        BY <1>a, <3>1, <4>1, RowType DEF Conclude, Insert
    <3>2. st[p].pending \in {"none", "psar_trail", "psar_trail_est"}
      BY <1>b DEF PairState
    <3> QED
      BY <1>4, <3>1, <3>2 DEF Details
  <2> QED
    BY <1>4, <2>1 DEF Details, Conclude, GoTo, Stages
<1>5. CASE Reverify
  <2>1. st' \in [Pairs -> PairState] /\ bad' \in [Pairs -> 0..MaxBad]
    BY <1>5, <1>a, <1>b, ReadFacts, ResetFacts, StoreFacts DEF Reverify
  <2> QED
    BY <1>5, <2>1 DEF Reverify, GoTo, Stages
<1>6. CASE Poll
  BY <1>6 DEF Poll, GoTo, Stages, brokerVars
<1>7. CASE BarsDone
  <2>1. cur' \in DOMAIN PairSeq /\ pc' = "reconcile"
    BY <1>7, NextPairType DEF BarsDone, Stages
  <2> QED
    BY <1>7, <2>1 DEF BarsDone, Stages, brokerVars
<1>8. CASE QuietBar
  <2>1. st' \in [Pairs -> PairState]
    BY <1>8, <1>a, <1>b, ArmedFacts, StoreFacts DEF QuietBar
  <2> QED
    BY <1>8, <2>1, BoundsAssumption DEF QuietBar, NewBar, brokerVars
<1>9. CASE PsarExit
  <2>1. PICK reply \in {"psar_trail", "psar_trail_est"} :
          /\ CloseTrade(st[p].open_trade_id, reply)
          /\ st' = [st EXCEPT ![p] = [Armed(@) EXCEPT !.pending = reply]]
    BY <1>9 DEF PsarExit
  <2>2. st' \in [Pairs -> PairState]
    BY <2>1, <1>a, <1>b, ArmedFacts, StoreFacts
  <2>3. st[p].open_trade_id \in Nat
    BY <1>b DEF PairState
  <2>4. trades' \in Seq(Trade) /\ inflight' \subseteq Request
    BY <2>1, <2>3, CloseAsFacts DEF CloseTrade, IsOpen, Request
  <2>5. left' \in 0..MaxBars /\ pc = "bars" /\ UNCHANGED <<bad, ledger, pc, cur, n, want, crashes>>
    BY <1>9, BoundsAssumption DEF PsarExit, NewBar
  <2> QED
    BY <2>2, <2>4, <2>5
<1>10. ASSUME NEW d \in Dirs, EntrySignal(d)
       PROVE  TypeOK'
  <2>1. st' \in [Pairs -> PairState] /\ bad' \in [Pairs -> 0..MaxBad]
    BY <1>10, <1>a, <1>b, ReadFacts, AdoptedFacts, StoreFacts DEF EntrySignal
  <2>2. /\ pc' \in Stages /\ want' \in {-1, 0, 1}
        /\ pc' = "order" => want' \in Dirs /\ st'[p].pos_dir = 0
    BY <1>10 DEF EntrySignal, NewBar, Stages, Dirs
  <2>3. cur' = cur
    BY <1>10 DEF EntrySignal
  <2>4. p' = p
    BY <2>3 DEF p
  <2> QED
    BY <1>10, <2>1, <2>2, <2>4, BoundsAssumption DEF EntrySignal, NewBar
<1>11. CASE OrderFilled
  <2>1. PICK id \in 0..MaxTrades :
          Executed(p, want, id) /\ st' = [st EXCEPT ![p] = Entered(@, want, id)]
    BY <1>11 DEF OrderFilled
  <2>2. want \in Dirs
    BY <1>11 DEF OrderFilled
  <2>3. trades' \in Seq(Trade)
    BY <1>a, <2>1, <2>2, ExecutedFacts
  <2>4. st' \in [Pairs -> PairState]
    BY <1>a, <1>b, <2>1, <2>2, EnteredFacts, StoreFacts
  <2> QED
    BY <1>11, <2>3, <2>4 DEF OrderFilled, OrderDone, GoTo, Stages
<1>12. CASE OrderRefused
  BY <1>12 DEF OrderRefused, OrderDone, GoTo, Stages, brokerVars
<1>13. CASE OrderRetry
  <2>1. inflight' \subseteq Request
    BY <1>13, <1>a DEF OrderRetry, Request
  <2>2. /\ n' \in Nat \ {0} /\ pc' \in Stages /\ cur' = cur
        /\ want' \in {-1, 0, 1}
        /\ pc' = "order" => want' = want
    BY <1>13 DEF OrderRetry, OrderDone, GoTo, Stages
  <2>3. p' = p
    BY <2>2 DEF p
  <2> QED
    BY <1>13, <2>1, <2>2, <2>3 DEF OrderRetry
<1>14. CASE BrokerStep
  <2> USE DEF deskVars
  <2>0. UNCHANGED <<pc, cur, st, want, left, n, bad, ledger, crashes>>
    BY <1>14 DEF BrokerStep, BracketClose, DeliverLate, DropRequest
  <2>1. p' = p
    BY <2>0 DEF p
  <2>2. trades' \in Seq(Trade) /\ inflight' \subseteq Request
    <3>1. ASSUME NEW t \in 1..Len(trades), BracketClose(t)
          PROVE  trades' \in Seq(Trade) /\ inflight' \subseteq Request
      BY <3>1, CloseAsFacts DEF BracketClose
    <3>2. ASSUME NEW r \in inflight, DeliverLate(r)
          PROVE  trades' \in Seq(Trade) /\ inflight' \subseteq Request
      <4>1. inflight' \subseteq Request
        BY <3>2 DEF DeliverLate
      <4>2. CASE r.op = "open"
        <5>1. r.pair \in Pairs /\ r.dir \in Dirs
          BY <4>2 DEF Request
        <5> QED
          BY <3>2, <4>1, <4>2, <5>1, ExecutedFacts DEF DeliverLate
      <4>3. CASE r.op = "close"
        BY <3>2, <4>1, <4>3, CloseAsFacts DEF DeliverLate, IsOpen
      <4> QED
        BY <3>2, <4>2, <4>3 DEF DeliverLate
    <3>3. ASSUME NEW r \in inflight, DropRequest(r)
          PROVE  trades' \in Seq(Trade) /\ inflight' \subseteq Request
      BY <3>3 DEF DropRequest
    <3> QED
      BY <1>14, <3>1, <3>2, <3>3 DEF BrokerStep
  <2> QED
    BY <2>0, <2>1, <2>2
<1>15. CASE Crash
  <2>1. 1 \in DOMAIN PairSeq
    BY PairSeqAssumption, LenProperties
  <2> QED
    BY <1>15, <2>1, FlatType, BoundsAssumption DEF Crash, Stages, brokerVars
<1>16. CASE UNCHANGED vars
  <2>1. p' = p
    BY <1>16 DEF vars, p
  <2> QED
    BY <1>16, <2>1 DEF vars
<1> QED
  BY <1>1, <1>2, <1>3, <1>4, <1>5, <1>6, <1>7, <1>8, <1>9, <1>10, <1>11, <1>12, <1>13,
     <1>14, <1>15, <1>16 DEF Next, DeskStep

\* Every variable keeps its type, for all lists of pairs, fault sets and bounds.
THEOREM TypeCorrect == Spec => []TypeOK
BY InitType, NextType, PTL DEF Spec

-----------------------------------------------------------------------------
(* What the desk tracks and what it writes down is true, whatever fails.    *)

\* Closing a trade keeps every other trade and every closed one.
LEMMA CloseGrows ==
    ASSUME trades \in Seq(Trade), NEW t, NEW who \in {"bracket", "desk", "late", "net"},
           IsOpen(t), trades' = CloseAs(t, who)
    PROVE  Grows
<1>1. t \in 1..Len(trades) /\ trades[t].closer = "-" /\ Len(trades) \in Nat
  BY LenProperties DEF IsOpen
<1>2. /\ Len(trades') = Len(trades)
      /\ \A u \in 1..Len(trades) :
           /\ u # t => trades'[u] = trades[u]
           /\ trades'[u].pair = trades[u].pair /\ trades'[u].dir = trades[u].dir
           /\ trades'[u].cut = trades[u].cut
  <2>1. trades' = CloseAs(t, who)
    OBVIOUS
  <2> QED
    BY <1>1, <2>1, CloseAsFacts
<1> QED
  BY <1>1, <1>2 DEF Grows

\* The trades of the account evolve as Grows says, in every step.
LEMMA NextGrows == TypeOK /\ [Next]_vars => Grows
<1> SUFFICES ASSUME TypeOK, [Next]_vars PROVE Grows
  OBVIOUS
<1>t. trades \in Seq(Trade) /\ Len(trades) \in Nat
  BY LenProperties DEF TypeOK
<1>0. CASE UNCHANGED trades
  BY <1>0, <1>t DEF Grows
<1>1. CASE PsarExit
  <2>1. PICK reply \in {"psar_trail", "psar_trail_est"} : CloseTrade(st[p].open_trade_id, reply)
    BY <1>1 DEF PsarExit
  <2>2. CASE IsOpen(st[p].open_trade_id) /\ trades' = CloseAs(st[p].open_trade_id, "desk")
    BY <1>t, <2>2, CloseGrows
  <2> QED
    BY <1>0, <2>1, <2>2 DEF CloseTrade
<1>2. CASE OrderFilled
  BY <1>2, <1>t, CurrentPair, ExecutedFacts DEF OrderFilled, TypeOK
<1>3. CASE BrokerStep
  <2>1. ASSUME NEW t \in 1..Len(trades), BracketClose(t)
        PROVE  Grows
    BY <2>1, <1>t, CloseGrows DEF BracketClose
  <2>2. ASSUME NEW r \in inflight, DeliverLate(r)
        PROVE  Grows
    <3>1. CASE r.op = "open"
      <4>1. r.pair \in Pairs /\ r.dir \in Dirs
        BY <3>1 DEF Request, TypeOK
      <4> QED
        BY <2>2, <3>1, <4>1, <1>t, ExecutedFacts DEF DeliverLate
    <3>2. CASE r.op = "close"
      <4>1. CASE IsOpen(r.trade) /\ trades' = CloseAs(r.trade, "late")
        BY <4>1, <1>t, CloseGrows
      <4> QED
        BY <1>0, <2>2, <3>2, <4>1 DEF DeliverLate
    <3> QED
      BY <2>2, <3>1, <3>2 DEF DeliverLate
  <2>3. ASSUME NEW r \in inflight, DropRequest(r)
        PROVE  UNCHANGED trades
    BY <2>3 DEF DropRequest
  <2> QED
    BY <1>0, <1>3, <2>1, <2>2, <2>3 DEF BrokerStep
<1>4. CASE DeskStep /\ ~PsarExit /\ ~OrderFilled
  <2>1. UNCHANGED trades
    BY <1>4 DEF DeskStep, Warmup, StartupAdoption, Reconcile, Details, Reverify, Poll, BarsDone,
                QuietBar, EntrySignal, OrderRefused, OrderRetry, brokerVars
  <2> QED
    BY <1>0, <2>1
<1>5. CASE Crash \/ UNCHANGED vars
  BY <1>0, <1>5 DEF Crash, vars, brokerVars
<1> QED
  BY <1>1, <1>2, <1>3, <1>4, <1>5 DEF Next

\* Tracking a trade survives whatever the broker does to it.
LEMMA TracksKept ==
    ASSUME Len(trades) \in Nat, Len(trades') \in Nat, Grows, NEW q \in Pairs, NEW s \in PairState,
           Tracks(q, s, trades)
    PROVE  Tracks(q, s, trades')
<1>1. CASE s.open_trade_id = None
  BY <1>1 DEF Tracks
<1>2. CASE s.open_trade_id # None
  <2> DEFINE t == s.open_trade_id
  <2>1. t \in 1..Len(trades) /\ trades[t].pair = q /\ trades[t].dir = s.pos_dir
        /\ s.entry_px = t /\ (s.pending = "psar_trail" => trades[t].closer = "desk")
    BY <1>2 DEF Tracks
  <2>2. t \in 1..Len(trades') /\ trades'[t].pair = q /\ trades'[t].dir = s.pos_dir
        /\ (s.pending = "psar_trail" => trades'[t].closer = "desk")
    BY <2>1 DEF Grows
  <2> QED
    BY <1>2, <2>1, <2>2 DEF Tracks
<1> QED
  BY <1>1, <1>2

\* A step that stores s for the current pair keeps Tracking if s tracks well.
LEMMA StoreTracks ==
    ASSUME TypeOK, TypeOK', Tracking, Grows, p \in Pairs, NEW s \in PairState,
           st' = [st EXCEPT ![p] = s], Tracks(p, s, trades')
    PROVE  Tracking'
<1>1. Len(trades) \in Nat /\ Len(trades') \in Nat
  BY LenProperties DEF TypeOK
<1>2. /\ st'[p] = s
      /\ \A q \in Pairs : q # p => st'[q] = st[q]
  BY StoreFacts DEF TypeOK
<1>3. ASSUME NEW q \in Pairs
      PROVE  Tracks(q, st'[q], trades')
  <2>1. CASE q = p
    BY <1>2, <2>1
  <2>2. CASE q # p
    BY <1>1, <1>2, <2>2, TracksKept DEF Tracking, TypeOK
  <2> QED
    BY <2>1, <2>2
<1> QED
  BY <1>3 DEF Tracking

\* A state that tracks a trade still tracks it after the broker's trades have grown.
LEMMA SameTracks ==
    ASSUME TypeOK, TypeOK', Tracking, Grows, UNCHANGED st
    PROVE  Tracking'
<1>1. Len(trades) \in Nat /\ Len(trades') \in Nat
  BY LenProperties DEF TypeOK
<1>2. ASSUME NEW q \in Pairs
      PROVE  Tracks(q, st'[q], trades')
  BY <1>1, TracksKept DEF Tracking, TypeOK
<1> QED
  BY <1>2 DEF Tracking

\* No fill is pending before the loop begins.
BootClean == pc \in {"warmup", "startup"} => \A q \in Pairs : st[q].pending = "none"

\* Where every order is as large as the position it meets, no trade is ever cut.
Uncut == \A t \in 1..Len(trades) : ~trades[t].cut
Whole == "shrink" \notin Faults => Uncut

\* The inductive invariant behind Tracking and RowsTruthful.
IInv == TypeOK /\ Tracking /\ BootClean /\ RowsTruthful /\ Whole

\* Then a trade that has a close price is a closed one.
LEMMA PricedIsClosed ==
    ASSUME Uncut, NEW t, Priced(t)
    PROVE  ~IsOpen(t)
BY DEF Uncut, Priced, IsOpen

\* The inductive invariant holds initially.
LEMMA InitIInv == Init => IInv
<1> SUFFICES ASSUME Init PROVE IInv
  OBVIOUS
<1>1. \A q \in Pairs : st[q] = Flat
  BY DEF Init
<1>2. \A q \in Pairs : Tracks(q, Flat, trades)
  BY DEF Tracks, Flat, None
<1>3. Tracking /\ BootClean
  <2>1. \A q \in Pairs : Tracks(q, st[q], trades)
    BY <1>1, <1>2
  <2>2. \A q \in Pairs : st[q].pending = "none"
    BY <1>1 DEF Flat
  <2> QED
    BY <2>1, <2>2 DEF Tracking, BootClean
<1>4. RowsTruthful
  BY DEF Init, RowsTruthful, OwnRows
<1>5. Whole
  BY LenProperties, EmptySeq DEF Init, Whole, Uncut
<1> QED
  BY <1>3, <1>4, <1>5, InitType DEF IInv

\* Every step keeps Tracking.
LEMMA TrackingStep == IInv /\ [Next]_vars => Tracking' /\ BootClean'
<1> SUFFICES ASSUME IInv, [Next]_vars PROVE Tracking' /\ BootClean'
  OBVIOUS
<1>a. TypeOK /\ TypeOK' /\ Grows /\ Tracking
  BY NextType, NextGrows DEF IInv
<1>b. p \in Pairs /\ st[p] \in PairState /\ Tracks(p, st[p], trades)
  BY <1>a, CurrentPair DEF TypeOK, Tracking
<1>c. trades \in Seq(Trade) /\ Len(trades) \in Nat /\ Len(trades') \in Nat
  BY <1>a, LenProperties DEF TypeOK
<1>d. \A q \in Pairs : st[q] \in PairState
  BY <1>a DEF TypeOK
<1>e. BootClean
  BY DEF IInv
<1>0. CASE UNCHANGED <<st, pc>>
  <2>1. Tracking'
    BY <1>0, <1>a, SameTracks
  <2>2. BootClean'
    BY <1>0, <1>e DEF BootClean
  <2> QED
    BY <2>1, <2>2
<1>1. CASE Warmup
  <2>0. st[p].pending = "none"
    BY <1>1, <1>b DEF Warmup, IInv, BootClean
  <2>1. CASE UNCHANGED st
    <3>1. Tracking'
      BY <1>a, <2>1, SameTracks
    <3>2. BootClean'
      BY <1>1, <1>e, <2>1 DEF BootClean, Warmup
    <3> QED
      BY <3>1, <3>2
  <2>2. ASSUME NEW seen \in Reads(p), OpenTradesRead(p, seen), NEW t \in seen,
               st' = [st EXCEPT ![p] = WarmupAdopted(st[p], t)]
        PROVE  Tracking' /\ BootClean'
    <3>1. t \in 1..Len(trades) /\ trades[t].pair = p
      BY <1>a, <1>b, <2>2, ReadFacts DEF TypeOK
    <3> DEFINE a == WarmupAdopted(st[p], t)
    <3>2. a \in PairState /\ a.pending = "none"
      BY <1>b, <1>c, <2>0, <3>1, AdoptedFacts
    <3>4. /\ a.pos_dir = trades[t].dir /\ a.pos_dir # 0 /\ a.open_trade_id = t /\ t # None
          /\ a.entry_px = t
      BY <1>b, <1>c, <3>1, AdoptedFacts
    <3>5. Tracks(p, a, trades)
      BY <3>1, <3>2, <3>4 DEF Tracks
    <3> HIDE DEF a
    <3>6. Tracks(p, a, trades')
      BY <1>a, <1>b, <1>c, <3>2, <3>5, TracksKept
    <3>7. Tracking'
      BY <1>a, <1>b, <2>2, <3>2, <3>6, StoreTracks DEF a
    <3>8. \A q \in Pairs : st'[q].pending = "none"
      <4>1. \A q \in Pairs : st[q].pending = "none"
        BY <1>1, <1>e DEF Warmup, BootClean
      <4>2. st' = [st EXCEPT ![p] = a]
        BY <2>2 DEF a
      <4>3. st \in [Pairs -> PairState]
        BY <1>a DEF TypeOK
      <4>4. st'[p] = a /\ \A q \in Pairs : q # p => st'[q] = st[q]
        BY <1>b, <3>2, <4>2, <4>3, StoreFacts
      <4> QED
        BY <3>2, <4>1, <4>4
    <3> QED
      BY <3>7, <3>8 DEF BootClean
  <2> QED
    BY <1>1, <2>1, <2>2 DEF Warmup
<1>2. CASE StartupAdoption
  <2>0. st[p].pending = "none"
    BY <1>2, <1>b DEF StartupAdoption, IInv, BootClean
  <2>1. CASE UNCHANGED st
    <3>1. Tracking'
      BY <1>a, <2>1, SameTracks
    <3>2. BootClean'
      BY <1>2, <1>e, <2>1 DEF BootClean, StartupAdoption
    <3> QED
      BY <3>1, <3>2
  <2>2. ASSUME NEW seen \in Reads(p), OpenTradesRead(p, seen), NEW t \in seen,
               st' = [st EXCEPT ![p] = StartupAdopted(st[p], t)]
        PROVE  Tracking' /\ BootClean'
    <3>1. t \in 1..Len(trades) /\ trades[t].pair = p
      BY <1>a, <1>b, <2>2, ReadFacts DEF TypeOK
    <3> DEFINE a == StartupAdopted(st[p], t)
    <3>2. a \in PairState /\ a.pending = "none"
      BY <1>b, <1>c, <2>0, <3>1, AdoptedFacts
    <3>4. /\ a.pos_dir = trades[t].dir /\ a.pos_dir # 0 /\ a.open_trade_id = t /\ t # None
          /\ a.entry_px = t
      BY <1>b, <1>c, <3>1, AdoptedFacts
    <3>5. Tracks(p, a, trades)
      BY <3>1, <3>2, <3>4 DEF Tracks
    <3> HIDE DEF a
    <3>6. Tracks(p, a, trades')
      BY <1>a, <1>b, <1>c, <3>2, <3>5, TracksKept
    <3>7. Tracking'
      BY <1>a, <1>b, <2>2, <3>2, <3>6, StoreTracks DEF a
    <3>8. \A q \in Pairs : st'[q].pending = "none"
      <4>1. \A q \in Pairs : st[q].pending = "none"
        BY <1>2, <1>e DEF StartupAdoption, BootClean
      <4>2. st' = [st EXCEPT ![p] = a]
        BY <2>2 DEF a
      <4>3. st \in [Pairs -> PairState]
        BY <1>a DEF TypeOK
      <4>4. st'[p] = a /\ \A q \in Pairs : q # p => st'[q] = st[q]
        BY <1>b, <3>2, <4>2, <4>3, StoreFacts
      <4> QED
        BY <3>2, <4>1, <4>4
    <3> QED
      BY <3>7, <3>8 DEF BootClean
  <2> QED
    BY <1>2, <2>1, <2>2 DEF StartupAdoption
<1>3. CASE Reconcile \/ Poll \/ OrderRefused \/ OrderRetry
  <2>1. UNCHANGED st /\ pc' \notin {"warmup", "startup"}
    BY <1>3 DEF Reconcile, Poll, OrderRefused, OrderRetry, OrderDone, GoTo
  <2> QED
    BY <1>a, <2>1, SameTracks DEF BootClean
<1>4. CASE BarsDone
  <2>1. UNCHANGED st /\ pc' = "reconcile"
    BY <1>4 DEF BarsDone, NextPair
  <2> QED
    BY <1>a, <2>1, SameTracks DEF BootClean
<1>5. ASSUME st' = [st EXCEPT ![p] = Reset(@)], pc' = "poll"
      PROVE  Tracking' /\ BootClean'
  <2> DEFINE a == Reset(st[p])
  <2>1. /\ a \in PairState /\ a.pos_dir = 0 /\ a.open_trade_id = None
        /\ a.entry_px = None /\ a.pending = "none"
    BY <1>b, ResetFacts
  <2>2. Tracks(p, a, trades')
    BY <2>1 DEF Tracks
  <2> HIDE DEF a
  <2>3. st' = [st EXCEPT ![p] = a]
    BY <1>5 DEF a
  <2> QED
    BY <1>5, <1>a, <1>b, <2>1, <2>2, <2>3, StoreTracks DEF BootClean
<1>6. CASE Details \/ Reverify
  <2>1. CASE UNCHANGED st /\ pc' \in {"poll", "reverify"}
    BY <1>a, <2>1, SameTracks DEF BootClean
  <2>2. CASE st' = [st EXCEPT ![p] = Reset(@)] /\ pc' = "poll"
    BY <1>5, <2>2
  <2> QED
    BY <1>6, <2>1, <2>2 DEF Details, Reverify, Conclude, GoTo
<1>7. CASE QuietBar
  <2>1. pc' \notin {"warmup", "startup"}
    BY <1>7 DEF QuietBar, NewBar
  <2>2. CASE UNCHANGED st
    BY <1>a, <2>1, <2>2, SameTracks DEF BootClean
  <2>3. CASE st[p].pos_dir # 0 /\ st' = [st EXCEPT ![p] = Armed(@)]
    <3> DEFINE a == Armed(st[p])
    <3>1. /\ a \in PairState /\ a.pos_dir = st[p].pos_dir
          /\ a.open_trade_id = st[p].open_trade_id
          /\ a.entry_px = st[p].entry_px /\ a.pending = st[p].pending
      BY <1>b, ArmedFacts
    <3>2. st' = [st EXCEPT ![p] = a]
      BY <2>3
    <3> HIDE DEF a
    <3>3. Tracks(p, a, trades)
      BY <1>b, <3>1 DEF Tracks
    <3>4. Tracks(p, a, trades')
      BY <1>a, <1>b, <1>c, <3>1, <3>3, TracksKept
    <3> QED
      BY <1>a, <1>b, <2>1, <3>1, <3>2, <3>4, StoreTracks DEF BootClean
  <2> QED
    BY <1>7, <2>2, <2>3 DEF QuietBar
<1>8. CASE PsarExit
  <2>1. PICK reply \in {"psar_trail", "psar_trail_est"} :
          /\ CloseTrade(st[p].open_trade_id, reply)
          /\ st' = [st EXCEPT ![p] = [Armed(@) EXCEPT !.pending = reply]]
    BY <1>8 DEF PsarExit
  <2> DEFINE a == [Armed(st[p]) EXCEPT !.pending = reply]
             t == st[p].open_trade_id
  <2>2. st' = [st EXCEPT ![p] = a]
    BY <2>1
  <2>3. /\ a \in PairState /\ a.pos_dir = st[p].pos_dir /\ a.open_trade_id = t
        /\ a.entry_px = st[p].entry_px /\ a.pending = reply
    BY <1>b, ArmedFacts
  <2>4. t # None /\ st[p].pos_dir # 0 /\ pc' \notin {"warmup", "startup"}
    BY <1>8 DEF PsarExit, NewBar
  <2>5. /\ t \in 1..Len(trades) /\ trades[t].pair = p /\ trades[t].dir = st[p].pos_dir
        /\ st[p].entry_px = t
    BY <1>b, <2>4 DEF Tracks
  <2>6. reply = "psar_trail" => trades'[t].closer = "desk"
    <3>1. CASE reply = "psar_trail"
      <4>1. trades' = CloseAs(t, "desk")
        BY <2>1, <3>1 DEF CloseTrade
      <4> QED
        BY <1>c, <2>5, <4>1, CloseAsFacts
    <3> QED
      BY <3>1
  <2> HIDE DEF a, t
  <2>7. Tracks(p, a, trades')
    BY <1>a, <1>c, <2>3, <2>4, <2>5, <2>6 DEF Tracks, Grows
  <2> QED
    BY <1>a, <1>b, <2>2, <2>3, <2>4, <2>7, StoreTracks DEF BootClean
<1>9. ASSUME NEW d \in Dirs, EntrySignal(d)
      PROVE  Tracking' /\ BootClean'
  <2>1. pc' \notin {"warmup", "startup"} /\ st[p].pos_dir = 0
    BY <1>9 DEF EntrySignal, NewBar
  <2>2. st[p].pending = "none" /\ st[p].entry_px = None
    BY <1>b, <2>1 DEF Tracks
  <2>3. CASE UNCHANGED st
    BY <1>a, <2>1, <2>3, SameTracks DEF BootClean
  <2>4. ASSUME NEW seen \in Reads(p), OpenTradesRead(p, seen), NEW t \in seen,
               st' = [st EXCEPT ![p] = GuardAdopted(st[p], t)]
        PROVE  Tracking' /\ BootClean'
    <3>0. bad \in [Pairs -> 0..MaxBad]
      BY <1>a DEF TypeOK
    <3>1. t \in 1..Len(trades) /\ trades[t].pair = p
      BY <1>b, <2>4, <3>0, ReadFacts
    <3> DEFINE a == GuardAdopted(st[p], t)
    <3>2. /\ a \in PairState /\ a.pending = "none" /\ a.entry_px = t /\ a.pos_dir = trades[t].dir
          /\ a.pos_dir # 0 /\ a.open_trade_id = t /\ t # None
      <4>1. /\ a \in PairState /\ a.pending = st[p].pending /\ a.pos_dir = trades[t].dir
            /\ a.pos_dir # 0 /\ a.open_trade_id = t /\ a.open_trade_id # None
            /\ a.entry_px = t \/ (a.entry_px = st[p].entry_px /\ st[p].entry_px # None)
        BY <1>b, <1>c, <3>1, AdoptedFacts
      <4> HIDE DEF a
      <4> QED
        BY <2>2, <4>1
    <3> HIDE DEF a
    <3>3. Tracks(p, a, trades)
      BY <3>1, <3>2 DEF Tracks
    <3>4. Tracks(p, a, trades')
      BY <1>a, <1>b, <1>c, <3>2, <3>3, TracksKept
    <3>5. Tracking'
      BY <1>a, <1>b, <2>4, <3>2, <3>4, StoreTracks DEF a
    <3> QED
      BY <2>1, <3>5 DEF BootClean
  <2> QED
    BY <1>9, <2>3, <2>4 DEF EntrySignal
<1>10. CASE OrderFilled
  <2>1. PICK id \in 0..MaxTrades :
          Executed(p, want, id) /\ st' = [st EXCEPT ![p] = Entered(@, want, id)]
    BY <1>10 DEF OrderFilled
  <2>2. want \in Dirs /\ st[p].pos_dir = 0 /\ pc' = "bars"
    BY <1>10, <1>a DEF OrderFilled, OrderDone, GoTo, TypeOK
  <2>3. st[p].pending = "none" /\ want # 0
    BY <1>b, <2>2 DEF Tracks, Dirs
  <2> DEFINE a == Entered(st[p], want, id)
  <2>4. /\ a \in PairState /\ a.pos_dir = want /\ a.open_trade_id = id
        /\ a.entry_px = (IF id = None THEN Netted ELSE id) /\ a.pending = "none"
    BY <1>b, <2>2, <2>3, EnteredFacts
  <2>5. id # None => /\ id = Len(trades) + 1 /\ Len(trades') = id
                     /\ trades'[id].pair = p /\ trades'[id].dir = want
    BY <1>b, <1>c, <2>1, <2>2, ExecutedFacts
  <2>6. st' = [st EXCEPT ![p] = a]
    BY <2>1
  <2> HIDE DEF a
  <2>7. Tracks(p, a, trades')
    BY <1>c, <2>3, <2>4, <2>5 DEF Tracks
  <2> QED
    BY <1>a, <1>b, <2>2, <2>4, <2>6, <2>7, StoreTracks DEF BootClean
<1>11. CASE BrokerStep
  <2>1. \A t \in 1..Len(trades) : BracketClose(t) => UNCHANGED <<st, pc>>
    BY DEF BracketClose, deskVars
  <2>2. \A r \in inflight : DeliverLate(r) \/ DropRequest(r) => UNCHANGED <<st, pc>>
    BY DEF DeliverLate, DropRequest, deskVars
  <2> QED
    BY <1>0, <1>11, <2>1, <2>2 DEF BrokerStep
<1>12. CASE Crash
  <2>1. \A q \in Pairs : st'[q] = Flat
    BY <1>12 DEF Crash
  <2>2. \A q \in Pairs : Tracks(q, Flat, trades')
    BY DEF Tracks, Flat, None
  <2>3. \A q \in Pairs : Tracks(q, st'[q], trades')
    BY <2>1, <2>2
  <2>4. \A q \in Pairs : st'[q].pending = "none"
    BY <2>1 DEF Flat
  <2> QED
    BY <2>3, <2>4 DEF Tracking, BootClean
<1>13. CASE UNCHANGED vars
  BY <1>0, <1>13 DEF vars
<1> QED
  BY <1>1, <1>2, <1>3, <1>4, <1>6, <1>7, <1>8, <1>9, <1>10, <1>11, <1>12, <1>13
  DEF Next, DeskStep

\* A row that is true stays true: the broker never reopens or renames a trade.
LEMMA RowsKept ==
    ASSUME RowsTruthful, Grows, Len(trades) \in Nat, Len(trades') \in Nat, NEW r \in OwnRows
    PROVE  /\ r.trade \in 1..Len(trades')
           /\ r.trade_id = <<"010", r.trade>>
           /\ r.entry_px = r.trade
           /\ r.reason = "psar_trail" => trades'[r.trade].closer = "desk"
           /\ r.reason = "closed_broker" => Priced(r.trade)'
<1>1. /\ r.trade \in 1..Len(trades)
      /\ r.trade_id = <<"010", r.trade>>
      /\ r.entry_px = r.trade
      /\ r.reason = "psar_trail" => trades[r.trade].closer = "desk"
      /\ r.reason = "closed_broker" => trades[r.trade].closer # "-" \/ trades[r.trade].cut
  BY DEF RowsTruthful, Priced, IsOpen
<1> QED
  BY <1>1 DEF Grows, Priced, IsOpen

\* The row a reconcile writes tells the truth about the trade it tracked.
LEMMA RowTrue ==
    ASSUME st[p] \in PairState, Tracks(p, st[p], trades), Len(trades) \in Nat,
           NEW reason,
           \/ st[p].pending # "none" /\ reason = st[p].pending
           \/ st[p].open_trade_id # None /\ Priced(st[p].open_trade_id)
              /\ reason = "closed_broker"
    PROVE  LET r == Row(reason)
           IN  /\ r.trade \in 1..Len(trades)
               /\ r.trade_id = <<"010", r.trade>>
               /\ r.entry_px = r.trade
               /\ r.reason = "psar_trail" => trades[r.trade].closer = "desk"
               /\ r.reason = "closed_broker" => Priced(r.trade)
<1> DEFINE t == st[p].open_trade_id
<1>1. t # None /\ (reason = st[p].pending \/ (reason = "closed_broker" /\ Priced(t)))
  BY DEF Tracks
<1>2. /\ t \in 1..Len(trades) /\ st[p].entry_px = t
      /\ st[p].pending = "psar_trail" => trades[t].closer = "desk"
  BY <1>1 DEF Tracks
<1>3. /\ Row(reason).trade = t /\ Row(reason).trade_id = <<"010", t>>
      /\ Row(reason).entry_px = st[p].entry_px /\ Row(reason).reason = reason
  BY DEF Row, TradeKey
<1> HIDE DEF t
<1>4. reason = "closed_broker" => Priced(t)
  <2>1. st[p].pending # "closed_broker"
    BY DEF PairState
  <2> QED
    BY <1>1, <2>1
<1> QED
  BY <1>1, <1>2, <1>3, <1>4 DEF t

\* Every step keeps RowsTruthful: rows are written from a state that Tracks.
LEMMA RowsStep == IInv /\ [Next]_vars => RowsTruthful'
<1> SUFFICES ASSUME IInv, [Next]_vars PROVE RowsTruthful'
  OBVIOUS
<1>a. TypeOK /\ TypeOK' /\ Grows /\ Tracking /\ RowsTruthful
  BY NextType, NextGrows DEF IInv
<1>b. p \in Pairs /\ st[p] \in PairState /\ Tracks(p, st[p], trades)
  BY <1>a, CurrentPair DEF TypeOK, Tracking
<1>c. Len(trades) \in Nat /\ Len(trades') \in Nat
  BY <1>a, LenProperties DEF TypeOK
<1>1. ASSUME UNCHANGED ledger
      PROVE  RowsTruthful'
  <2>1. OwnRows' = OwnRows
    BY <1>1 DEF OwnRows
  <2> QED
    BY <1>a, <1>c, <2>1, RowsKept DEF RowsTruthful
<1>2. ASSUME Details, NEW reason, Conclude(reason),
             \/ st[p].pending # "none" /\ reason = st[p].pending
             \/ st[p].open_trade_id # None /\ Priced(st[p].open_trade_id)
                /\ reason = "closed_broker"
      PROVE  RowsTruthful'
  <2> DEFINE row == Row(reason)
  <2>1. trades' = trades /\ (\A t : Priced(t)' = Priced(t))
    BY <1>2 DEF Details, Priced, IsOpen
  <2>2. /\ row.trade \in 1..Len(trades) /\ row.trade_id = <<"010", row.trade>>
        /\ row.entry_px = row.trade
        /\ row.reason = "psar_trail" => trades[row.trade].closer = "desk"
        /\ row.reason = "closed_broker" => Priced(row.trade)
    BY <1>b, <1>c, <1>2, RowTrue
  <2>3. ledger' \subseteq ledger \cup {row}
    BY <1>2 DEF Conclude, Insert
  <2> HIDE DEF row
  <2>4. \A r \in OwnRows' : r = row \/ r \in OwnRows
    BY <2>3 DEF OwnRows
  <2>5. ASSUME NEW r \in OwnRows'
        PROVE  /\ r.trade \in 1..Len(trades)
               /\ r.trade_id = <<"010", r.trade>>
               /\ r.entry_px = r.trade
               /\ r.reason = "psar_trail" => trades[r.trade].closer = "desk"
               /\ r.reason = "closed_broker" => Priced(r.trade)
    BY <1>a, <2>2, <2>4 DEF RowsTruthful
  <2> QED
    BY <2>1, <2>5 DEF RowsTruthful
<1>3. CASE Details
  <2>1. CASE UNCHANGED ledger
    BY <1>1, <2>1
  <2>2. CASE st[p].pending # "none" /\ Conclude(st[p].pending)
    BY <1>2, <1>3, <2>2
  <2>3. CASE st[p].open_trade_id # None /\ Priced(st[p].open_trade_id)
             /\ Conclude("closed_broker")
    BY <1>2, <1>3, <2>3
  <2> QED
    BY <1>3, <2>1, <2>2, <2>3 DEF Details
<1>4. CASE BrokerStep
  <2>1. \A t \in 1..Len(trades) : BracketClose(t) => UNCHANGED ledger
    BY DEF BracketClose
  <2>2. \A r \in inflight : DeliverLate(r) \/ DropRequest(r) => UNCHANGED ledger
    BY DEF DeliverLate, DropRequest
  <2> QED
    BY <1>1, <1>4, <2>1, <2>2 DEF BrokerStep
<1>5. CASE DeskStep /\ ~Details
  <2>1. UNCHANGED ledger
    BY <1>5 DEF DeskStep, Warmup, StartupAdoption, Reconcile, Reverify, Poll, BarsDone,
                QuietBar, PsarExit, EntrySignal, OrderFilled, OrderRefused, OrderRetry
  <2> QED
    BY <1>1, <2>1
<1>6. CASE Crash \/ UNCHANGED vars
  BY <1>1, <1>6 DEF Crash, vars
<1> QED
  BY <1>3, <1>4, <1>5, <1>6 DEF Next

\* Every step keeps Whole: only an order of another size cuts a trade.
LEMMA WholeStep == TypeOK /\ Whole /\ [Next]_vars => Whole'
<1> SUFFICES ASSUME TypeOK, Whole, [Next]_vars PROVE Whole'
  OBVIOUS
<1>1. Grows /\ Len(trades) \in Nat
  BY NextGrows, LenProperties DEF TypeOK
<1> QED
  BY <1>1 DEF Whole, Uncut, Grows

\* Every step keeps IInv.
LEMMA NextIInv == IInv /\ [Next]_vars => IInv'
BY NextType, TrackingStep, RowsStep, WholeStep DEF IInv

\* IInv is inductive: no bound, fault, crash or late broker answer breaks it.
THEOREM Inductive == Spec => []IInv
BY InitIInv, NextIInv, PTL DEF Spec

\* What the desk believes in is a trade the broker opened, with its own side,
\* entry price and close fill, in every state of every instance.
THEOREM TrackingHolds == Spec => []Tracking
<1>1. IInv => Tracking
  BY DEF IInv
<1> QED
  BY Inductive, <1>1, PTL

\* No row of the table lies about its trade, in every state of every instance.
THEOREM RowsAreTruthful == Spec => []RowsTruthful
<1>1. IInv => RowsTruthful
  BY DEF IInv
<1> QED
  BY Inductive, <1>1, PTL
=============================================================================
