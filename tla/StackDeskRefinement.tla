------------------------ MODULE StackDeskRefinement -------------------------
(***************************************************************************)
(* Where reads of the open trades are exact, or no pair exits by PSAR and  *)
(* no order cuts a trade, the desk writes no phantom row, and implements   *)
(* TradeBook.                                                              *)
(***************************************************************************)
EXTENDS StackDeskProofs

\* What makes an estimated exit, and the close price of a cut trade, harmless.
ExactExit == MaxBad = 0 \/ (PsarPairs = {} /\ "shrink" \notin Faults)

\* Only a PSAR exit leaves a fill pending.
PsarOnly == \A q \in Pairs : st[q].pending # "none" => q \in PsarPairs

\* With exact reads, reconcile goes on only for a trade that has closed.
DetailsClosed ==
    pc = "details" /\ MaxBad = 0 => ~IsOpen(st[p].open_trade_id)

Bounded == Len(trades) <= MaxTrades

RInv == IInv /\ PsarOnly /\ DetailsClosed /\ Bounded /\ NoPhantomRows

-----------------------------------------------------------------------------
\* A store that sets no new pending fill outside PsarPairs keeps PsarOnly.
LEMMA StoreKeepsPsarOnly ==
    ASSUME TypeOK, PsarOnly, p \in Pairs, NEW s \in PairState, st' = [st EXCEPT ![p] = s],
           s.pending = "none" \/ s.pending = st[p].pending \/ p \in PsarPairs
    PROVE  PsarOnly'
<1>1. st'[p] = s /\ \A q \in Pairs : q # p => st'[q] = st[q]
  BY StoreFacts DEF TypeOK
<1>2. ASSUME NEW q \in Pairs, st'[q].pending # "none"
      PROVE  q \in PsarPairs
  BY <1>1, <1>2 DEF PsarOnly
<1> QED
  BY <1>2 DEF PsarOnly

\* Only pairs with a PSAR exit ever hold a pending fill.
LEMMA PsarOnlyStep == TypeOK /\ PsarOnly /\ [Next]_vars => PsarOnly'
<1> SUFFICES ASSUME TypeOK, PsarOnly, [Next]_vars PROVE PsarOnly'
  OBVIOUS
<1>b. /\ p \in Pairs /\ st[p] \in PairState /\ trades \in Seq(Trade)
      /\ bad \in [Pairs -> 0..MaxBad]
  BY CurrentPair DEF TypeOK
<1>0. ASSUME UNCHANGED st
      PROVE  PsarOnly'
  BY <1>0 DEF PsarOnly
<1>1. ASSUME NEW seen \in Reads(p), OpenTradesRead(p, seen), NEW t \in seen,
             NEW a \in {WarmupAdopted(st[p], t), StartupAdopted(st[p], t), GuardAdopted(st[p], t)},
             st' = [st EXCEPT ![p] = a]
      PROVE  PsarOnly'
  <2>1. t \in 1..Len(trades)
    BY <1>b, <1>1, ReadFacts
  <2>2. a \in PairState /\ a.pending = st[p].pending
    BY <1>b, <2>1, AdoptedFacts
  <2> QED
    BY <1>b, <1>1, <2>2, StoreKeepsPsarOnly
<1>2. CASE Warmup
  BY <1>0, <1>1, <1>2 DEF Warmup
<1>3. CASE StartupAdoption
  BY <1>0, <1>1, <1>3 DEF StartupAdoption
<1>4. CASE \E d \in Dirs : EntrySignal(d)
  BY <1>0, <1>1, <1>4 DEF EntrySignal
<1>5. CASE Details \/ Reverify
  <2>1. UNCHANGED st \/ st' = [st EXCEPT ![p] = Reset(@)]
    BY <1>5 DEF Details, Reverify, Conclude
  <2>2. Reset(st[p]) \in PairState /\ Reset(st[p]).pending = "none"
    BY <1>b, ResetFacts
  <2>3. CASE st' = [st EXCEPT ![p] = Reset(@)]
    <3> DEFINE a == Reset(st[p])
    <3>1. st' = [st EXCEPT ![p] = a]
      BY <2>3
    <3> HIDE DEF a
    <3> QED
      BY <1>b, <2>2, <3>1, StoreKeepsPsarOnly DEF a
  <2> QED
    BY <1>0, <2>1, <2>3
<1>6. CASE QuietBar
  <2>1. CASE st' = [st EXCEPT ![p] = Armed(@)]
    <3> DEFINE a == Armed(st[p])
    <3>1. st' = [st EXCEPT ![p] = a] /\ a \in PairState /\ a.pending = st[p].pending
      BY <1>b, <2>1, ArmedFacts
    <3> HIDE DEF a
    <3> QED
      BY <1>b, <3>1, StoreKeepsPsarOnly
  <2> QED
    BY <1>0, <1>6, <2>1 DEF QuietBar
<1>7. CASE PsarExit
  <2>1. PICK reply \in {"psar_trail", "psar_trail_est"} :
          st' = [st EXCEPT ![p] = [Armed(@) EXCEPT !.pending = reply]]
    BY <1>7 DEF PsarExit
  <2> DEFINE a == [Armed(st[p]) EXCEPT !.pending = reply]
  <2>2. st' = [st EXCEPT ![p] = a] /\ a \in PairState /\ p \in PsarPairs
    BY <1>b, <1>7, <2>1, ArmedFacts DEF PsarExit
  <2> HIDE DEF a
  <2> QED
    BY <1>b, <2>2, StoreKeepsPsarOnly
<1>8. CASE OrderFilled
  <2>1. PICK id \in 0..MaxTrades : st' = [st EXCEPT ![p] = Entered(@, want, id)]
    BY <1>8 DEF OrderFilled
  <2>2. want \in Dirs /\ id \in Nat
    BY <1>8 DEF OrderFilled, TypeOK
  <2> DEFINE a == Entered(st[p], want, id)
  <2>3. st' = [st EXCEPT ![p] = a] /\ a \in PairState /\ a.pending = st[p].pending
    BY <1>b, <2>1, <2>2, EnteredFacts
  <2> HIDE DEF a
  <2> QED
    BY <1>b, <2>3, StoreKeepsPsarOnly
<1>9. CASE Reconcile \/ Poll \/ BarsDone \/ OrderRefused \/ OrderRetry
  BY <1>0, <1>9 DEF Reconcile, Poll, BarsDone, OrderRefused, OrderRetry
<1>10. CASE BrokerStep
  <2>1. \A t \in 1..Len(trades) : BracketClose(t) => UNCHANGED st
    BY DEF BracketClose, deskVars
  <2>2. \A r \in inflight : DeliverLate(r) \/ DropRequest(r) => UNCHANGED st
    BY DEF DeliverLate, DropRequest, deskVars
  <2> QED
    BY <1>0, <1>10, <2>1, <2>2 DEF BrokerStep
<1>11. CASE Crash
  BY <1>11 DEF Crash, PsarOnly, Flat
<1>12. CASE UNCHANGED vars
  BY <1>0, <1>12 DEF vars
<1> QED
  BY <1>2, <1>3, <1>4, <1>5, <1>6, <1>7, <1>8, <1>9, <1>10, <1>11, <1>12 DEF Next, DeskStep

\* A trade the desk tracks, once closed, stays closed; None is never open.
LEMMA ClosedStays ==
    ASSUME TypeOK, TypeOK', Tracking, Grows, p \in Pairs, ~IsOpen(st[p].open_trade_id)
    PROVE  ~(st[p].open_trade_id \in 1..Len(trades') /\ trades'[st[p].open_trade_id].closer = "-")
<1> DEFINE t == st[p].open_trade_id
<1>1. t = None \/ t \in 1..Len(trades)
  BY DEF Tracking, Tracks
<1>2. Len(trades) \in Nat /\ Len(trades') \in Nat
  BY LenProperties DEF TypeOK
<1>3. CASE t = None
  BY <1>2, <1>3 DEF None
<1>4. CASE t \in 1..Len(trades)
  BY <1>2, <1>4 DEF Grows, IsOpen
<1> QED
  BY <1>1, <1>3, <1>4

\* With exact reads, the desk asks for details only of trades that have closed.
LEMMA DetailsClosedStep == IInv /\ DetailsClosed /\ [Next]_vars => DetailsClosed'
<1> SUFFICES ASSUME IInv, DetailsClosed, [Next]_vars, pc' = "details", MaxBad = 0
             PROVE  ~IsOpen(st[p].open_trade_id)'
  BY DEF DetailsClosed
<1>a. TypeOK /\ TypeOK' /\ Grows /\ Tracking /\ p \in Pairs
  BY NextType, NextGrows, CurrentPair DEF IInv, TypeOK
<1>0. ASSUME UNCHANGED <<st, pc, cur>>
      PROVE  ~IsOpen(st[p].open_trade_id)'
  <2>1. ~IsOpen(st[p].open_trade_id) /\ p' = p /\ st'[p] = st[p]
    BY <1>0 DEF DetailsClosed, p
  <2> QED
    BY <1>a, <2>1, ClosedStays DEF IsOpen
<1>1. CASE Reconcile
  <2>1. /\ st' = st /\ trades' = trades /\ p' = p
    BY <1>1 DEF Reconcile, GoTo, p
  <2>2. PICK seen \in Reads(p) :
          /\ OpenTradesRead(p, seen)
          /\ GoTo(IF st[p].open_trade_id \in seen THEN "poll" ELSE "details")
    BY <1>1 DEF Reconcile, GoTo
  <2>3. seen = OpenOn(p)
    BY <1>a, <2>2, ReadFacts DEF TypeOK
  <2>4. st[p].open_trade_id \notin OpenOn(p)
    BY <2>2, <2>3 DEF GoTo
  <2>5. st[p].open_trade_id = None \/ trades[st[p].open_trade_id].pair = p
    BY <1>a DEF Tracking, Tracks
  <2>6. ~IsOpen(st[p].open_trade_id)
    BY <2>4, <2>5, <1>a, LenProperties DEF OpenOn, IsOpen, None, TypeOK
  <2> QED
    BY <2>1, <2>6 DEF IsOpen
<1>2. CASE Warmup \/ StartupAdoption \/ BarsDone
  BY <1>2 DEF Warmup, StartupAdoption, BarsDone, NextPair
<1>3. CASE Details \/ Reverify \/ Poll \/ QuietBar \/ PsarExit
  BY <1>3 DEF Details, Conclude, Reverify, Poll, QuietBar, PsarExit, NewBar, GoTo
<1>4. CASE (\E d \in Dirs : EntrySignal(d)) \/ OrderFilled \/ OrderRefused \/ OrderRetry
  BY <1>4 DEF EntrySignal, NewBar, OrderFilled, OrderRefused, OrderRetry, OrderDone, GoTo
<1>5. CASE BrokerStep
  <2>1. \A t \in 1..Len(trades) : BracketClose(t) => UNCHANGED <<st, pc, cur>>
    BY DEF BracketClose, deskVars
  <2>2. \A r \in inflight : DeliverLate(r) \/ DropRequest(r) => UNCHANGED <<st, pc, cur>>
    BY DEF DeliverLate, DropRequest, deskVars
  <2> QED
    BY <1>0, <1>5, <2>1, <2>2 DEF BrokerStep
<1>6. CASE Crash
  BY <1>6 DEF Crash
<1>7. CASE UNCHANGED vars
  BY <1>0, <1>7 DEF vars
<1> QED
  BY <1>1, <1>2, <1>3, <1>4, <1>5, <1>6, <1>7 DEF Next, DeskStep
-----------------------------------------------------------------------------
(* The trades of the broker, as TradeBook sees them.                        *)

OpenIds   == {t \in 1..Len(trades) : trades[t].closer = "-"}
ClosedIds == {t \in 1..Len(trades) : trades[t].closer # "-"}
BookedIds == {r.trade : r \in OwnRows}

\* The three kinds of step of the book, in terms of what the views of it do.
LEMMA BookView ==
    /\ \A gone \in SUBSET OpenIds :
         /\ gone # {} /\ gone \subseteq 1..MaxTrades
         /\ OpenIds' = OpenIds \ gone /\ ClosedIds' = ClosedIds \cup gone
         /\ BookedIds' = BookedIds
         => Book!Next
    /\ \A gone \in SUBSET OpenIds : \A t \in 1..MaxTrades \ (OpenIds \cup ClosedIds) :
         /\ gone \subseteq 1..MaxTrades
         /\ OpenIds' = (OpenIds \ gone) \cup {t} /\ ClosedIds' = ClosedIds \cup gone
         /\ BookedIds' = BookedIds
         => Book!Next
    /\ \A t \in 1..MaxTrades :
         /\ t \in ClosedIds \ BookedIds
         /\ BookedIds' = BookedIds \cup {t}
         /\ OpenIds' = OpenIds /\ ClosedIds' = ClosedIds
         => Book!Next
BY DEF Book!Next, Book!Open, Book!Close, Book!Book, OpenIds, ClosedIds, BookedIds

\* A step that moves neither trades nor ledger is a stutter of the book.
LEMMA SameBook ==
    ASSUME UNCHANGED <<trades, ledger>>
    PROVE  UNCHANGED Book!vars
BY DEF Book!vars, OwnRows

\* One trade closing is a Close of the book.
LEMMA CloseBook ==
    ASSUME trades \in Seq(Trade), Bounded, NEW t, NEW who \in {"bracket", "desk", "late", "net"},
           IsOpen(t), trades' = CloseAs(t, who), UNCHANGED ledger
    PROVE  Book!Next /\ Bounded'
<1>1. t \in 1..Len(trades) /\ trades[t].closer = "-" /\ Len(trades) \in Nat
  BY LenProperties DEF IsOpen
<1>2. /\ Len(trades') = Len(trades) /\ trades'[t].closer = who
      /\ \A u \in 1..Len(trades) : u # t => trades'[u] = trades[u]
  BY <1>1, CloseAsFacts
<1>3. OpenIds' = OpenIds \ {t} /\ ClosedIds' = ClosedIds \cup {t}
  BY <1>1, <1>2 DEF OpenIds, ClosedIds
<1>4. BookedIds' = BookedIds
  BY DEF BookedIds, OwnRows
<1>5. t \in OpenIds /\ t \in 1..MaxTrades
  BY <1>1, BoundsAssumption DEF OpenIds, Bounded
<1>6. {t} # {} /\ {t} \in SUBSET OpenIds /\ {t} \subseteq 1..MaxTrades
  BY <1>5
<1>7. Book!Next
  BY <1>3, <1>4, <1>6, BookView
<1> QED
  BY <1>2, <1>7 DEF Bounded

\* A market order is an Open, a Close or a stutter of the book.
LEMMA ExecutedBook ==
    ASSUME trades \in Seq(Trade), Bounded, NEW q \in Pairs, NEW d \in Dirs, NEW id,
           Executed(q, d, id), UNCHANGED ledger
    PROVE  [Book!Next]_(Book!vars) /\ Bounded'
<1> DEFINE new == [pair |-> q, dir |-> d, closer |-> "-", cut |-> FALSE]
           u == Len(trades) + 1
<1>1. new \in Trade /\ new.closer = "-"
  BY DEF Trade
<1>2. PICK gone \in SUBSET OpenOn(q), part \in SUBSET OpenOn(q) :
        \/ trades' = Netting(gone, part)
        \/ Len(trades) < MaxTrades /\ trades' = Append(Netting(gone, part), new)
  BY DEF Executed
<1> HIDE DEF new
<1>3. /\ gone \cup part \subseteq {t \in 1..Len(trades) : trades[t].closer = "-"}
      /\ Len(trades) \in Nat /\ MaxTrades \in Nat
  BY LenProperties, BoundsAssumption DEF OpenOn
<1> DEFINE net == Netting(gone, part)
<1>4. /\ net \in Seq(Trade) /\ Len(net) = Len(trades)
      /\ \A t \in 1..Len(trades) :
           net[t].closer = IF t \in gone THEN "net" ELSE trades[t].closer
  BY <1>3, NettingFacts
<1> HIDE DEF net
<1>5. gone \in SUBSET OpenIds /\ gone \subseteq 1..MaxTrades
  BY <1>3 DEF OpenIds, Bounded
<1>6. BookedIds' = BookedIds
  BY DEF BookedIds, OwnRows
<1>7. CASE trades' = net
  <2>1. Bounded'
    BY <1>4, <1>7 DEF Bounded
  <2>2. CASE gone = {}
    <3>1. OpenIds' = OpenIds /\ ClosedIds' = ClosedIds
      BY <1>4, <1>7, <2>2 DEF OpenIds, ClosedIds
    <3> QED
      BY <1>6, <2>1, <3>1 DEF Book!vars, OpenIds, ClosedIds, BookedIds
  <2>3. CASE gone # {}
    <3>1. OpenIds' = OpenIds \ gone /\ ClosedIds' = ClosedIds \cup gone
      BY <1>3, <1>4, <1>7 DEF OpenIds, ClosedIds
    <3> QED
      BY <1>5, <1>6, <2>1, <2>3, <3>1, BookView
  <2> QED
    BY <2>2, <2>3
<1>8. CASE Len(trades) < MaxTrades /\ trades' = Append(net, new)
  <2>1. /\ Len(trades') = u /\ trades'[u] = new
        /\ \A t \in 1..Len(trades) : trades'[t] = net[t]
    BY <1>1, <1>4, <1>8, AppendProperties
  <2>2. u \in 1..MaxTrades \ (OpenIds \cup ClosedIds)
    BY <1>3, <1>8 DEF OpenIds, ClosedIds
  <2>3. OpenIds' = (OpenIds \ gone) \cup {u} /\ ClosedIds' = ClosedIds \cup gone
    BY <1>1, <1>3, <1>4, <2>1 DEF OpenIds, ClosedIds
  <2>4. Bounded'
    BY <1>3, <1>8, <2>1 DEF Bounded
  <2> HIDE DEF u
  <2> QED
    BY <1>5, <1>6, <2>2, <2>3, <2>4, BookView
<1> QED
  BY <1>2, <1>7, <1>8 DEF net

-----------------------------------------------------------------------------
\* A reconcile that writes a row writes it for a trade that has closed.
LEMMA ConcludeClosed ==
    ASSUME RInv, ExactExit, Details, UNCHANGED trades, ledger' # ledger
    PROVE  \E reason \in {"psar_trail", "psar_trail_est", "closed_broker"} :
              ledger' = Insert(Row(reason)) /\ ~IsOpen(st[p].open_trade_id)
<1>1. p \in Pairs /\ st[p] \in PairState /\ pc = "details"
  BY CurrentPair DEF RInv, IInv, TypeOK, Details
<1>2. CASE st[p].pending # "none" /\ Conclude(st[p].pending)
  <2>1. st[p].pending \in {"psar_trail", "psar_trail_est"}
    BY <1>1, <1>2 DEF PairState
  <2>2. MaxBad = 0
    BY <1>1, <1>2 DEF RInv, PsarOnly, ExactExit
  <2>3. ~IsOpen(st[p].open_trade_id)
    BY <1>1, <2>2 DEF RInv, DetailsClosed
  <2> QED
    BY <1>2, <2>1, <2>3 DEF Conclude
<1>3. CASE Priced(st[p].open_trade_id) /\ Conclude("closed_broker")
  <2>1. CASE MaxBad = 0
    BY <1>1, <1>3, <2>1 DEF Conclude, RInv, DetailsClosed
  <2>2. CASE "shrink" \notin Faults
    BY <1>3, <2>2, PricedIsClosed DEF Conclude, RInv, IInv, Whole
  <2> QED
    BY <2>1, <2>2 DEF ExactExit
<1> QED
  BY <1>2, <1>3 DEF Details

\* Reconciling is a Book step or a stutter.
LEMMA DetailsBook ==
    ASSUME RInv, ExactExit, Details
    PROVE  [Book!Next]_(Book!vars) /\ Bounded' /\ NoPhantomRows'
<1>1. UNCHANGED trades /\ Bounded'
  BY DEF Details, RInv, Bounded
<1>2. OpenIds' = OpenIds /\ ClosedIds' = ClosedIds
  BY <1>1 DEF OpenIds, ClosedIds
<1>3. CASE UNCHANGED ledger
  <2>1. UNCHANGED Book!vars
    BY <1>1, <1>3, SameBook
  <2>2. NoPhantomRows'
    BY <1>1, <1>3 DEF RInv, NoPhantomRows, OwnRows, IsOpen
  <2> QED
    BY <1>1, <2>1, <2>2
<1>4. CASE ledger' # ledger
  <2>1. PICK reason \in {"psar_trail", "psar_trail_est", "closed_broker"} :
          ledger' = Insert(Row(reason)) /\ ~IsOpen(st[p].open_trade_id)
    BY <1>1, <1>4, ConcludeClosed
  <2> DEFINE row == Row(reason)
             t == st[p].open_trade_id
  <2>2. row.trade = t /\ row.account = Account /\ row.trade_id = <<"010", t>>
    BY DEF Row, TradeKey
  <2>3. ledger' = ledger \cup {row} /\ \A r \in ledger : r.trade_id # row.trade_id
    BY <1>4, <2>1 DEF Insert
  <2>4. t \in 1..Len(trades)
    <3>1. p \in Pairs /\ st[p] \in PairState /\ Tracks(p, st[p], trades)
      BY CurrentPair DEF RInv, IInv, TypeOK, Tracking
    <3>2. t # None
      BY <3>1, <1>4 DEF Details, Conclude, Tracks
    <3> QED
      BY <3>1, <3>2 DEF Tracks
  <2> HIDE DEF row, t
  <2>5. OwnRows' = OwnRows \cup {row}
    BY <2>2, <2>3 DEF OwnRows
  <2>6. BookedIds' = BookedIds \cup {t}
    BY <2>2, <2>5 DEF BookedIds
  <2>7. t \notin BookedIds
    <3>1. \A r \in OwnRows : r.trade_id = <<"010", r.trade>> /\ r \in ledger
      BY DEF RInv, IInv, RowsTruthful, OwnRows
    <3> QED
      BY <2>2, <2>3, <3>1 DEF BookedIds
  <2>8. t \in ClosedIds /\ t \in 1..MaxTrades
    <3>1. trades[t].closer # "-"
      BY <2>1, <2>4 DEF IsOpen, t
    <3>2. Len(trades) \in Nat /\ Len(trades) <= MaxTrades
      BY LenProperties DEF RInv, IInv, TypeOK, Bounded
    <3> QED
      BY <2>4, <3>1, <3>2, BoundsAssumption DEF ClosedIds
  <2>9. Book!Next
    BY <1>2, <2>6, <2>7, <2>8, BookView
  <2>10. NoPhantomRows'
    <3>1. \A r \in OwnRows' : r = row \/ r \in OwnRows
      BY <2>5
    <3>2. ~IsOpen(row.trade)
      BY <2>1, <2>2 DEF t
    <3>3. \A u : IsOpen(u)' = IsOpen(u)
      BY <1>1 DEF IsOpen
    <3> QED
      BY <3>1, <3>2, <3>3 DEF RInv, NoPhantomRows
  <2> QED
    BY <1>1, <2>9, <2>10
<1> QED
  BY <1>3, <1>4

\* Every other step moves the trades of the broker, or nothing the book sees.
LEMMA OtherBook ==
    ASSUME RInv, [Next]_vars, ~Details
    PROVE  [Book!Next]_(Book!vars) /\ Bounded' /\ UNCHANGED ledger
<1>a. TypeOK /\ trades \in Seq(Trade) /\ Bounded /\ p \in Pairs
  BY CurrentPair DEF RInv, IInv, TypeOK
<1>0. ASSUME UNCHANGED <<trades, ledger>>
      PROVE  [Book!Next]_(Book!vars) /\ Bounded' /\ UNCHANGED ledger
  BY <1>0, <1>a, SameBook DEF Bounded
<1>1. CASE PsarExit
  <2>1. PICK reply \in {"psar_trail", "psar_trail_est"} : CloseTrade(st[p].open_trade_id, reply)
    BY <1>1 DEF PsarExit
  <2>2. UNCHANGED ledger
    BY <1>1 DEF PsarExit
  <2>3. CASE IsOpen(st[p].open_trade_id) /\ trades' = CloseAs(st[p].open_trade_id, "desk")
    BY <1>a, <2>2, <2>3, CloseBook
  <2> QED
    BY <1>0, <2>1, <2>2, <2>3 DEF CloseTrade
<1>2. CASE OrderFilled
  <2>1. want \in Dirs /\ UNCHANGED ledger
    BY <1>2, <1>a DEF OrderFilled, TypeOK
  <2>2. PICK id \in 0..MaxTrades : Executed(p, want, id)
    BY <1>2 DEF OrderFilled
  <2> QED
    BY <1>a, <2>1, <2>2, ExecutedBook
<1>3. CASE BrokerStep
  <2>1. ASSUME NEW t \in 1..Len(trades), BracketClose(t)
        PROVE  [Book!Next]_(Book!vars) /\ Bounded' /\ UNCHANGED ledger
    BY <2>1, <1>a, CloseBook DEF BracketClose
  <2>2. ASSUME NEW r \in inflight, DeliverLate(r)
        PROVE  [Book!Next]_(Book!vars) /\ Bounded' /\ UNCHANGED ledger
    <3>1. UNCHANGED ledger
      BY <2>2 DEF DeliverLate
    <3>2. CASE r.op = "open"
      <4>1. r.pair \in Pairs /\ r.dir \in Dirs
        BY <3>2, <1>a DEF Request, TypeOK
      <4>2. PICK id \in 0..MaxTrades : Executed(r.pair, r.dir, id)
        BY <2>2, <3>2 DEF DeliverLate
      <4> QED
        BY <1>a, <3>1, <4>1, <4>2, ExecutedBook
    <3>3. CASE r.op = "close"
      <4>1. CASE IsOpen(r.trade) /\ trades' = CloseAs(r.trade, "late")
        BY <1>a, <3>1, <4>1, CloseBook
      <4> QED
        BY <1>0, <2>2, <3>1, <3>3, <4>1 DEF DeliverLate
    <3> QED
      BY <2>2, <3>2, <3>3 DEF DeliverLate
  <2>3. ASSUME NEW r \in inflight, DropRequest(r)
        PROVE  UNCHANGED <<trades, ledger>>
    BY <2>3 DEF DropRequest
  <2> QED
    BY <1>0, <1>3, <2>1, <2>2, <2>3 DEF BrokerStep
<1>4. CASE DeskStep /\ ~Details /\ ~PsarExit /\ ~OrderFilled
  <2>1. UNCHANGED <<trades, ledger>>
    BY <1>4 DEF DeskStep, Warmup, StartupAdoption, Reconcile, Reverify, Poll, BarsDone,
                QuietBar, EntrySignal, OrderRefused, OrderRetry, brokerVars
  <2> QED
    BY <1>0, <2>1
<1>5. CASE Crash \/ UNCHANGED vars
  BY <1>0, <1>5 DEF Crash, vars, brokerVars
<1> QED
  BY <1>1, <1>2, <1>3, <1>4, <1>5 DEF Next

\* The invariant holds initially, and the initial book is empty.
LEMMA InitRInv == Init => RInv /\ Book!Init
<1> SUFFICES ASSUME Init PROVE RInv /\ Book!Init
  OBVIOUS
<1>1. Len(trades) = 0 /\ OwnRows = {}
  BY DEF Init, OwnRows
<1>2. PsarOnly
  BY DEF Init, PsarOnly, Flat
<1>3. DetailsClosed /\ NoPhantomRows
  BY <1>1 DEF Init, DetailsClosed, NoPhantomRows
<1>4. Bounded /\ Book!Init
  BY <1>1, BoundsAssumption DEF Bounded, Book!Init
<1> QED
  BY <1>2, <1>3, <1>4, InitIInv DEF RInv

\* One step of the desk: the invariant goes on, the book moves or stutters.
LEMMA RStep ==
    ASSUME ExactExit
    PROVE  RInv /\ [Next]_vars => RInv' /\ [Book!Next]_(Book!vars)
<1> SUFFICES ASSUME RInv, [Next]_vars PROVE RInv' /\ [Book!Next]_(Book!vars)
  OBVIOUS
<1>1. TypeOK /\ TypeOK' /\ Grows
  BY NextType, NextGrows DEF RInv, IInv
<1>2. IInv' /\ PsarOnly' /\ DetailsClosed'
  <2>1. IInv /\ PsarOnly /\ DetailsClosed
    BY DEF RInv
  <2> QED
    BY <1>1, <2>1, NextIInv, PsarOnlyStep, DetailsClosedStep
<1>3. CASE Details
  BY <1>2, <1>3, DetailsBook DEF RInv
<1>4. CASE ~Details
  <2>1. [Book!Next]_(Book!vars) /\ Bounded' /\ UNCHANGED ledger
    BY <1>4, OtherBook
  <2>2. Len(trades) \in Nat /\ Len(trades') \in Nat
    BY <1>1, LenProperties DEF TypeOK
  <2>3. \A r \in OwnRows : r.trade \in 1..Len(trades) /\ trades[r.trade].closer # "-"
    BY DEF RInv, IInv, RowsTruthful, NoPhantomRows, IsOpen
  <2>4. \A r \in OwnRows : trades'[r.trade].closer # "-"
    BY <1>1, <2>3 DEF Grows
  <2>5. NoPhantomRows'
    BY <2>1, <2>4 DEF NoPhantomRows, OwnRows, IsOpen
  <2> QED
    BY <1>2, <2>1, <2>5 DEF RInv
<1> QED
  BY <1>3, <1>4

\* With exact reads, or without a PSAR pair and a cut trade, no row is a phantom: no trade of the
\* table is still open, whatever crashes, times out or is delivered late.
THEOREM NoPhantoms ==
    ASSUME ExactExit
    PROVE  Spec => []NoPhantomRows
<1>1. RInv => NoPhantomRows
  BY DEF RInv
<1> QED
  BY InitRInv, RStep, <1>1, PTL DEF Spec

\* ... and the desk, its broker and its table implement the trade book.
THEOREM DeskImplementsBook ==
    ASSUME ExactExit
    PROVE  Spec => ImplementsBook
<1> QED
  BY InitRInv, RStep, PTL DEF Spec, ImplementsBook, Book!Spec
=============================================================================
