-------------------------- MODULE StackDeskOutage ---------------------------
(***************************************************************************)
(* How long an outage of the open-trades endpoint the desk survives: its   *)
(* re-verification outlasts ReVerify lost reads in a row, its start and    *)
(* its flip guard outlast two; and where nothing fails, every close is     *)
(* recorded.                                                               *)
(***************************************************************************)
EXTENDS StackDeskRefinement, FiniteSetTheorems

\* A pair without a PSAR exit, and outages no longer than the re-verification.
ShortOutage == PsarPairs = {} /\ MaxBad <= ReVerify

\* The retry counter starts at 1 in every loop that uses it.
FreshCounter == pc \notin {"reverify", "order"} => n = 1

\* A trade that is open and being given up was lost by every read so far.
Missed ==
    pc \in {"details", "reverify"} /\ IsOpen(st[p].open_trade_id) => bad[p] >= n

OInv == IInv /\ PsarOnly /\ FreshCounter /\ Missed

-----------------------------------------------------------------------------
\* A read that does not show an open trade counts as a lost one.
LEMMA ReadLost ==
    ASSUME bad \in [Pairs -> 0..MaxBad], NEW q \in Pairs, NEW seen,
           OpenTradesRead(q, seen), NEW t \in OpenOn(q), t \notin seen
    PROVE  bad'[q] = bad[q] + 1 /\ bad[q] < MaxBad
BY DEF OpenTradesRead

\* Whatever a tracked trade's id is, it is open only as a trade of its pair.
LEMMA TrackedOpen ==
    ASSUME TypeOK, Tracking, NEW q \in Pairs, IsOpen(st[q].open_trade_id)
    PROVE  st[q].open_trade_id \in OpenOn(q)
BY LenProperties DEF TypeOK, Tracking, Tracks, IsOpen, OpenOn, None

\* Outside a retry loop the attempt counter n is 1.
LEMMA CounterStep == TypeOK /\ FreshCounter /\ [Next]_vars => FreshCounter'
<1> SUFFICES ASSUME TypeOK, FreshCounter, [Next]_vars, pc' \notin {"reverify", "order"}
             PROVE  n' = 1
  BY DEF FreshCounter
<1>1. CASE BrokerStep
  <2>1. \A t \in 1..Len(trades) : BracketClose(t) => UNCHANGED <<n, pc>>
    BY DEF BracketClose, deskVars
  <2>2. \A r \in inflight : DeliverLate(r) \/ DropRequest(r) => UNCHANGED <<n, pc>>
    BY DEF DeliverLate, DropRequest, deskVars
  <2> QED
    BY <1>1, <2>1, <2>2 DEF FreshCounter, BrokerStep
<1>2. CASE Warmup \/ StartupAdoption \/ Reconcile \/ Details \/ Poll
  BY <1>2 DEF FreshCounter, Warmup, StartupAdoption, Reconcile, Details, Poll
<1>3. CASE Reverify
  BY <1>3 DEF Reverify
<1>4. CASE BarsDone \/ QuietBar \/ PsarExit \/ \E d \in Dirs : EntrySignal(d)
  BY <1>4 DEF FreshCounter, BarsDone, QuietBar, PsarExit, EntrySignal, NewBar
<1>5. CASE OrderFilled \/ OrderRefused \/ OrderRetry
  BY <1>5 DEF OrderFilled, OrderRefused, OrderRetry, OrderDone
<1>6. CASE Crash \/ UNCHANGED vars
  BY <1>6 DEF Crash, vars, FreshCounter
<1> QED
  BY <1>1, <1>2, <1>3, <1>4, <1>5, <1>6 DEF Next, DeskStep

\* An open trade that is being given up was lost by every read so far.
LEMMA MissedStep == OInv /\ [Next]_vars => Missed'
<1> SUFFICES ASSUME OInv, [Next]_vars, pc' \in {"details", "reverify"},
                    IsOpen(st[p].open_trade_id)'
             PROVE  (bad[p])' >= n'
  BY DEF Missed
<1>a. /\ TypeOK /\ TypeOK' /\ Grows /\ Tracking /\ p \in Pairs
      /\ bad \in [Pairs -> 0..MaxBad] /\ n \in Nat \ {0}
  BY NextType, NextGrows, CurrentPair DEF OInv, IInv, TypeOK
<1>0. ASSUME UNCHANGED <<st, pc, cur, bad, n>>
      PROVE  (bad[p])' >= n'
  <2>1. p' = p /\ st'[p] = st[p] /\ (bad[p])' = bad[p]
    BY <1>0 DEF p
  <2>2. IsOpen(st[p].open_trade_id)
    BY <1>a, <2>1, ClosedStays DEF IsOpen
  <2> QED
    BY <1>0, <2>1, <2>2 DEF OInv, Missed
<1>1. ASSUME UNCHANGED <<trades, st, cur>>, NEW seen \in Reads(p), OpenTradesRead(p, seen),
             st[p].open_trade_id \notin seen
      PROVE  (bad[p])' = bad[p] + 1
  <2>1. p' = p /\ IsOpen(st[p].open_trade_id)
    BY <1>1 DEF p, IsOpen
  <2>2. st[p].open_trade_id \in OpenOn(p)
    BY <1>a, <2>1, TrackedOpen
  <2>3. bad'[p] = bad[p] + 1
    BY <1>a, <1>1, <2>2, ReadLost
  <2> QED
    BY <2>1, <2>3
<1>2. CASE Reconcile
  <2>1. n' = 1 /\ UNCHANGED <<trades, st, cur>>
    BY <1>2 DEF Reconcile, GoTo, OInv, FreshCounter
  <2>2. PICK seen \in Reads(p) : OpenTradesRead(p, seen) /\ st[p].open_trade_id \notin seen
    BY <1>2 DEF Reconcile, GoTo
  <2>3. (bad[p])' = bad[p] + 1 /\ bad[p] \in Nat
    BY <1>1, <1>a, <2>1, <2>2
  <2> QED
    BY <2>1, <2>3
<1>3. CASE Details
  <2>1. UNCHANGED <<trades, st, cur, bad, n>> /\ pc = "details"
    BY <1>3 DEF Details, Conclude, GoTo
  <2>2. p' = p /\ (bad[p])' = bad[p] /\ IsOpen(st[p].open_trade_id)
    BY <2>1 DEF p, IsOpen
  <2> QED
    BY <2>1, <2>2 DEF OInv, Missed
<1>4. CASE Reverify
  <2>1. PICK seen \in Reads(p) : OpenTradesRead(p, seen) /\ st[p].open_trade_id \notin seen
    BY <1>4 DEF Reverify, GoTo
  <2>2. n' = n + 1 /\ UNCHANGED <<trades, st, cur>> /\ pc = "reverify"
    BY <1>4 DEF Reverify, GoTo
  <2>3. (bad[p])' = bad[p] + 1 /\ bad[p] \in Nat
    BY <1>1, <1>a, <2>1, <2>2
  <2>4. IsOpen(st[p].open_trade_id)
    BY <2>2 DEF p, IsOpen
  <2>5. bad[p] >= n
    BY <2>2, <2>4 DEF OInv, Missed
  <2> QED
    BY <1>a, <2>2, <2>3, <2>5
<1>5. CASE Warmup \/ StartupAdoption \/ BarsDone
  BY <1>5 DEF Warmup, StartupAdoption, BarsDone, NextPair
<1>6. CASE Poll \/ QuietBar \/ PsarExit \/ \E d \in Dirs : EntrySignal(d)
  BY <1>6 DEF Poll, QuietBar, PsarExit, EntrySignal, NewBar, GoTo
<1>7. CASE OrderFilled \/ OrderRefused \/ OrderRetry
  BY <1>7 DEF OrderFilled, OrderRefused, OrderRetry, OrderDone, GoTo
<1>8. CASE BrokerStep
  <2>1. \A t \in 1..Len(trades) : BracketClose(t) => UNCHANGED <<st, pc, cur, bad, n>>
    BY DEF BracketClose, deskVars
  <2>2. \A r \in inflight : DeliverLate(r) \/ DropRequest(r) => UNCHANGED <<st, pc, cur, bad, n>>
    BY DEF DeliverLate, DropRequest, deskVars
  <2> QED
    BY <1>0, <1>8, <2>1, <2>2 DEF BrokerStep
<1>9. CASE Crash
  BY <1>9 DEF Crash
<1>10. CASE UNCHANGED vars
  BY <1>0, <1>10 DEF vars
<1> QED
  BY <1>2, <1>3, <1>4, <1>5, <1>6, <1>7, <1>8, <1>9, <1>10 DEF Next, DeskStep

\* The invariant of a short outage holds when the containers first start.
LEMMA InitOInv == Init => OInv
<1> SUFFICES ASSUME Init PROVE OInv
  OBVIOUS
<1>1. PsarOnly
  BY DEF Init, PsarOnly, Flat
<1>2. FreshCounter /\ Missed
  BY DEF Init, FreshCounter, Missed
<1> QED
  BY <1>1, <1>2, InitIInv DEF OInv

\* Every step keeps the invariant of a short outage.
LEMMA OStep == OInv /\ [Next]_vars => OInv'
<1> SUFFICES ASSUME OInv, [Next]_vars PROVE OInv'
  OBVIOUS
<1>1. IInv /\ TypeOK /\ PsarOnly
  BY DEF OInv, IInv
<1> QED
  BY <1>1, NextIInv, PsarOnlyStep, CounterStep, MissedStep DEF OInv

\* A position is given up only by a reconcile that concludes, or by a last re-read.
LEMMA GivenUp ==
    ASSUME OInv, [Next]_vars, NEW q \in Pairs, st[q].open_trade_id # None,
           st'[q].open_trade_id = None, crashes' = crashes
    PROVE  /\ q = p
           /\ \/ Details /\ (st[p].pending # "none" \/ Priced(st[p].open_trade_id))
              \/ /\ pc = "reverify" /\ n = ReVerify
                 /\ \E seen \in Reads(p) :
                      OpenTradesRead(p, seen) /\ st[p].open_trade_id \notin seen
<1>a. /\ TypeOK /\ Tracking /\ p \in Pairs /\ st[p] \in PairState /\ trades \in Seq(Trade)
      /\ bad \in [Pairs -> 0..MaxBad]
  BY CurrentPair DEF OInv, IInv, TypeOK
<1>0. st' # st
  OBVIOUS
<1>1. ASSUME NEW s \in PairState, st' = [st EXCEPT ![p] = s]
      PROVE  q = p /\ s.open_trade_id = None
  BY <1>a, <1>1, StoreFacts DEF TypeOK
<1>2. ASSUME NEW seen \in Reads(p), OpenTradesRead(p, seen), NEW t \in seen,
             NEW a \in {WarmupAdopted(st[p], t), StartupAdopted(st[p], t), GuardAdopted(st[p], t)},
             st' = [st EXCEPT ![p] = a]
      PROVE  FALSE
  <2>1. t \in 1..Len(trades)
    BY <1>a, <1>2, ReadFacts
  <2>2. a \in PairState /\ a.open_trade_id # None
    BY <1>a, <2>1, AdoptedFacts
  <2> QED
    BY <1>1, <1>2, <2>2
<1>3. CASE Warmup
  BY <1>0, <1>2, <1>3 DEF Warmup
<1>4. CASE StartupAdoption
  BY <1>0, <1>2, <1>4 DEF StartupAdoption
<1>5. CASE \E d \in Dirs : EntrySignal(d)
  BY <1>0, <1>2, <1>5 DEF EntrySignal
<1>6. ASSUME st' = [st EXCEPT ![p] = Reset(@)]
      PROVE  q = p
  <2> DEFINE a == Reset(st[p])
  <2>1. st' = [st EXCEPT ![p] = a] /\ a \in PairState
    BY <1>a, <1>6, ResetFacts
  <2> HIDE DEF a
  <2> QED
    BY <1>1, <2>1
<1>7. CASE Details
  <2>1. st' = [st EXCEPT ![p] = Reset(@)]
    BY <1>0, <1>7 DEF Details, Conclude
  <2>2. st[p].pending # "none" \/ Priced(st[p].open_trade_id)
    BY <1>0, <1>7 DEF Details
  <2> QED
    BY <1>6, <1>7, <2>1, <2>2
<1>8. CASE Reverify
  <2>1. st' = [st EXCEPT ![p] = Reset(@)] /\ pc = "reverify" /\ n = ReVerify
        /\ \E seen \in Reads(p) : OpenTradesRead(p, seen) /\ st[p].open_trade_id \notin seen
    BY <1>0, <1>8 DEF Reverify
  <2> QED
    BY <1>6, <2>1
<1>9. CASE QuietBar
  <2> DEFINE a == Armed(st[p])
  <2>1. st' = [st EXCEPT ![p] = a]
    BY <1>0, <1>9 DEF QuietBar
  <2>2. a \in PairState /\ a.open_trade_id = st[p].open_trade_id
    BY <1>a, ArmedFacts
  <2> HIDE DEF a
  <2> QED
    BY <1>1, <2>1, <2>2
<1>10. CASE PsarExit
  <2>1. PICK reply \in {"psar_trail", "psar_trail_est"} :
          st' = [st EXCEPT ![p] = [Armed(@) EXCEPT !.pending = reply]]
    BY <1>10 DEF PsarExit
  <2> DEFINE a == [Armed(st[p]) EXCEPT !.pending = reply]
  <2>2. st' = [st EXCEPT ![p] = a] /\ a \in PairState /\ a.open_trade_id = st[p].open_trade_id
    BY <1>a, <2>1, ArmedFacts
  <2> HIDE DEF a
  <2> QED
    BY <1>1, <2>2
<1>11. CASE OrderFilled
  <2>1. PICK id \in 0..MaxTrades : st' = [st EXCEPT ![p] = Entered(@, want, id)]
    BY <1>11 DEF OrderFilled
  <2>2. want \in Dirs /\ id \in Nat /\ st[p].open_trade_id = None
    BY <1>11, <1>a DEF OrderFilled, TypeOK, Tracking, Tracks
  <2> DEFINE a == Entered(st[p], want, id)
  <2>3. st' = [st EXCEPT ![p] = a] /\ a \in PairState
    BY <1>a, <2>1, <2>2, EnteredFacts
  <2> HIDE DEF a
  <2> QED
    BY <1>1, <2>2, <2>3
<1>12. CASE Reconcile \/ Poll \/ BarsDone \/ OrderRefused \/ OrderRetry
  BY <1>0, <1>12 DEF Reconcile, Poll, BarsDone, OrderRefused, OrderRetry
<1>13. CASE BrokerStep
  <2>1. \A t \in 1..Len(trades) : BracketClose(t) => UNCHANGED st
    BY DEF BracketClose, deskVars
  <2>2. \A r \in inflight : DeliverLate(r) \/ DropRequest(r) => UNCHANGED st
    BY DEF DeliverLate, DropRequest, deskVars
  <2> QED
    BY <1>0, <1>13, <2>1, <2>2 DEF BrokerStep
<1>14. CASE Crash
  BY <1>14, <1>a DEF Crash, TypeOK
<1>15. CASE UNCHANGED vars
  BY <1>0, <1>15 DEF vars
<1> QED
  BY <1>3, <1>4, <1>5, <1>7, <1>8, <1>9, <1>10, <1>11, <1>12, <1>13, <1>14, <1>15
  DEF Next, DeskStep

\* Under a short outage what is given up has closed, if no trade has been cut.
LEMMA GivenUpClosed ==
    ASSUME ShortOutage, OInv, Uncut, [Next]_vars, NEW q \in Pairs, st[q].open_trade_id # None,
           st'[q].open_trade_id = None, crashes' = crashes
    PROVE  ~IsOpen(st[q].open_trade_id)
<1>a. /\ TypeOK /\ Tracking /\ q = p /\ bad \in [Pairs -> 0..MaxBad]
  BY GivenUp DEF OInv, IInv, TypeOK
<1>1. st[q].pending = "none"
  BY DEF OInv, PsarOnly, ShortOutage
<1>2. ASSUME IsOpen(st[p].open_trade_id)
      PROVE  FALSE
  <2>0. ~Priced(st[p].open_trade_id)
    BY <1>2, PricedIsClosed
  <2>1. pc = "reverify" /\ n = ReVerify
    BY <1>a, <1>1, <2>0, GivenUp
  <2>2. PICK seen \in Reads(p) : OpenTradesRead(p, seen) /\ st[p].open_trade_id \notin seen
    BY <1>a, <1>1, <2>0, GivenUp
  <2>3. st[p].open_trade_id \in OpenOn(p)
    BY <1>a, <1>2, TrackedOpen
  <2>4. bad[p] < MaxBad
    BY <1>a, <2>2, <2>3, ReadLost
  <2>5. bad[p] >= ReVerify
    BY <1>2, <2>1 DEF OInv, Missed
  <2>6. bad[p] \in Nat
    BY <1>a
  <2> QED
    BY <2>4, <2>5, <2>6, BoundsAssumption DEF ShortOutage
<1> QED
  BY <1>a, <1>2

\* As long as no outage loses more reads in a row than the re-verification makes, and no
\* order cuts a trade, a trade is never given up while it is open (without a restart or a
\* PSAR exit).
THEOREM NoFalseCloses ==
    ASSUME ShortOutage, "shrink" \notin Faults
    PROVE  Spec => NoFalseClose
<1>1. OInv /\ [Next]_vars =>
        [\A q \in Pairs : /\ st[q].open_trade_id # None
                          /\ st'[q].open_trade_id = None
                          /\ crashes' = crashes
                          => ~IsOpen(st[q].open_trade_id)]_vars
  BY GivenUpClosed DEF OInv, IInv, Whole
<1> QED
  BY InitOInv, OStep, <1>1, PTL DEF Spec, NoFalseClose

-----------------------------------------------------------------------------
(* ... and outages of at most two reads, with no order in doubt.            *)

BriefOutage == ShortOutage /\ MaxBad <= 2 /\ MaxLost = 0 /\ "candles" \notin Faults

\* Reads of the open trades the start has made for the k-th pair.
ReadsDone(k) ==
    CASE pc = "warmup"  -> IF k < cur THEN 1 ELSE 0
      [] pc = "startup" -> IF k < cur THEN 2 ELSE 1
      [] OTHER          -> 2

\* A pair that is believed flat and is not was lost by every read of the start.
Untracked ==
    \A k \in DOMAIN PairSeq :
        st[PairSeq[k]].pos_dir = 0 /\ OpenOn(PairSeq[k]) # {} => bad[PairSeq[k]] >= ReadsDone(k)

\* A pair in a position has no other trade open than the one it tracks.
OnlyTracked == \A q \in Pairs : st[q].pos_dir # 0 => OpenOn(q) \subseteq {st[q].open_trade_id}

\* An order goes out only on a pair that is flat at the broker.
OrderClear == pc = "order" => OpenOn(p) = {}

AtMostOne == \A q \in Pairs : \A t, u \in OpenOn(q) : t = u

\* A reconcile is about a position.
Reconciling == pc \in {"details", "reverify"} => st[p].pos_dir # 0

SInv ==
    /\ OInv /\ inflight = {} /\ Reconciling
    /\ Untracked /\ OnlyTracked /\ OrderClear /\ AtMostOne /\ Uncut
-----------------------------------------------------------------------------
\* A pair that is believed flat while a trade of it is open is never read wrongly
\* once the start is over: the outage has already been as long as it can be.
LEMMA FlatReadExact ==
    ASSUME BriefOutage, SInv, pc \notin {"warmup", "startup"}, st[p].pos_dir = 0,
           NEW seen \in Reads(p), OpenTradesRead(p, seen)
    PROVE  seen = OpenOn(p)
<1>1. cur \in DOMAIN PairSeq /\ bad \in [Pairs -> 0..MaxBad] /\ p \in Pairs
  BY CurrentPair DEF SInv, OInv, IInv, TypeOK
<1>2. ReadsDone(cur) = 2
  BY DEF ReadsDone
<1>3. OpenOn(p) # {} => bad[p] >= 2
  BY <1>1, <1>2 DEF SInv, Untracked, p
<1>4. ASSUME NEW t \in OpenOn(p), t \notin seen
      PROVE  FALSE
  <2>1. bad[p] < MaxBad /\ bad[p] >= 2 /\ bad[p] \in Nat
    BY <1>1, <1>3, <1>4, ReadLost
  <2> QED
    BY <2>1, BoundsAssumption DEF BriefOutage
<1> QED
  BY <1>4 DEF Reads

\* With nothing in doubt, only a fill opens a trade, and nothing cuts one.
LEMMA Shrinks ==
    ASSUME SInv, [Next]_vars, ~OrderFilled
    PROVE  Uncut' /\ \A q \in Pairs : OpenOn(q)' \subseteq OpenOn(q)
<1>t. trades \in Seq(Trade)
  BY DEF SInv, OInv, IInv, TypeOK
<1>0. ASSUME UNCHANGED trades
      PROVE  Uncut' /\ \A q \in Pairs : OpenOn(q)' \subseteq OpenOn(q)
  BY <1>0 DEF OpenOn, SInv, Uncut
<1>1. ASSUME NEW t, NEW who \in {"bracket", "desk"}, IsOpen(t), trades' = CloseAs(t, who)
      PROVE  Uncut' /\ \A q \in Pairs : OpenOn(q)' \subseteq OpenOn(q)
  <2>1. t \in 1..Len(trades)
    BY <1>1 DEF IsOpen
  <2>2. /\ Len(trades') = Len(trades) /\ trades'[t].closer = who
        /\ \A u \in 1..Len(trades) : /\ u # t => trades'[u] = trades[u]
                                    /\ trades'[u].cut = trades[u].cut
    <3>1. who \in {"bracket", "desk", "late", "net"}
      BY <1>1
    <3>2. /\ Len(CloseAs(t, who)) = Len(trades) /\ CloseAs(t, who)[t].closer = who
          /\ \A u \in 1..Len(trades) : /\ u # t => CloseAs(t, who)[u] = trades[u]
                                      /\ CloseAs(t, who)[u].cut = trades[u].cut
      BY <1>t, <2>1, <3>1, CloseAsFacts
    <3> QED
      BY <1>1, <3>2
  <2> QED
    BY <2>1, <2>2 DEF OpenOn, SInv, Uncut
<1>2. CASE PsarExit
  BY <1>0, <1>1, <1>2 DEF PsarExit, CloseTrade
<1>3. CASE BrokerStep
  <2>1. PICK t \in 1..Len(trades) : BracketClose(t)
    BY <1>3 DEF BrokerStep, SInv
  <2> QED
    BY <1>1, <2>1 DEF BracketClose
<1>4. CASE DeskStep /\ ~PsarExit
  <2>1. UNCHANGED trades
    BY <1>4 DEF DeskStep, Warmup, StartupAdoption, Reconcile, Details, Reverify, Poll, BarsDone,
                QuietBar, EntrySignal, OrderRefused, OrderRetry, brokerVars
  <2> QED
    BY <1>0, <2>1
<1>5. CASE Crash \/ UNCHANGED vars
  BY <1>0, <1>5 DEF Crash, vars, brokerVars
<1> QED
  BY <1>2, <1>3, <1>4, <1>5 DEF Next

\* The fill of an order that goes out on a flat pair is its only open trade.
LEMMA FilledAlone ==
    ASSUME SInv, OrderFilled
    PROVE  Uncut' /\ \E id \in Nat \ {0} :
              /\ st' = [st EXCEPT ![p] = Entered(st[p], want, id)]
              /\ \A q \in Pairs : q = p => OpenOn(q)' \subseteq {id}
              /\ \A q \in Pairs : q # p => OpenOn(q)' = OpenOn(q)
<1>a. /\ trades \in Seq(Trade) /\ Len(trades) \in Nat /\ OpenOn(p) = {} /\ p \in Pairs
      /\ want \in Dirs
  BY CurrentPair, LenProperties DEF SInv, OInv, IInv, TypeOK, OrderClear, OrderFilled
<1>1. PICK id \in 0..MaxTrades :
        Executed(p, want, id) /\ st' = [st EXCEPT ![p] = Entered(@, want, id)]
  BY DEF OrderFilled
<1> DEFINE new == [pair |-> p, dir |-> want, closer |-> "-", cut |-> FALSE]
<1>2. trades' = Append(trades, new) /\ id = Len(trades) + 1
  <2>1. trades' = Append(Netting({}, {}), new) /\ id = Len(trades) + 1
    BY <1>a, <1>1 DEF Executed
  <2>2. Netting({}, {}) = trades
    <3>1. /\ Netting({}, {}) \in Seq(Trade) /\ Len(Netting({}, {})) = Len(trades)
          /\ \A u \in 1..Len(trades) : Netting({}, {})[u] = trades[u]
      BY <1>a, NettingFacts
    <3> QED
      BY <1>a, <3>1, SeqEqual
  <2> QED
    BY <2>1, <2>2
<1>3. new \in Trade /\ new.pair = p /\ ~new.cut
  BY <1>a DEF Trade
<1> HIDE DEF new
<1>4. /\ Len(trades') = id /\ trades'[id] = new
      /\ \A t \in 1..Len(trades) : trades'[t] = trades[t]
  BY <1>a, <1>2, <1>3, AppendProperties
<1>5. /\ \A q \in Pairs : q = p => OpenOn(q)' \subseteq {id}
      /\ \A q \in Pairs : q # p => OpenOn(q)' = OpenOn(q)
  <2>1. \A t \in 1..Len(trades') : t = id \/ t \in 1..Len(trades)
    BY <1>a, <1>2, <1>4
  <2>2. \A t \in 1..Len(trades) : ~(trades[t].pair = p /\ trades[t].closer = "-")
    BY <1>a DEF OpenOn
  <2>3. ASSUME NEW t \in 1..Len(trades'), t # id
        PROVE  ~(trades'[t].pair = p /\ trades'[t].closer = "-")
    BY <1>4, <2>1, <2>2, <2>3
  <2>4. \A t \in 1..Len(trades) : t \in 1..Len(trades')
    BY <1>a, <1>2, <1>4
  <2>5. ASSUME NEW q \in Pairs, q # p
        PROVE  OpenOn(q)' = OpenOn(q)
    BY <1>3, <1>4, <2>1, <2>4, <2>5 DEF OpenOn
  <2>6. ASSUME NEW q \in Pairs, q = p
        PROVE  OpenOn(q)' \subseteq {id}
    BY <2>3, <2>6 DEF OpenOn
  <2> QED
    BY <2>5, <2>6
<1>6. id \in Nat \ {0} /\ st' = [st EXCEPT ![p] = Entered(st[p], want, id)]
  BY <1>a, <1>1, <1>2
<1>7. Uncut'
  BY <1>a, <1>2, <1>3, <1>4 DEF SInv, Uncut
<1> QED
  BY <1>5, <1>6, <1>7

\* What a reconcile gives up leaves the pair flat at the broker.
LEMMA GivenUpFlat ==
    ASSUME BriefOutage, SInv, [Next]_vars, Details \/ Reverify, st'[p].pos_dir = 0
    PROVE  OpenOn(p) = {}
<1>a. /\ TypeOK /\ Tracking /\ p \in Pairs /\ st[p].pos_dir # 0 /\ trades' = trades
      /\ crashes' = crashes
  BY CurrentPair DEF SInv, OInv, IInv, TypeOK, Reconciling, Details, Reverify
<1>1. st'[p].open_trade_id = None
  <2>1. TypeOK' /\ Tracking'
    BY OStep DEF SInv, OInv, IInv
  <2> QED
    BY <1>a, <2>1 DEF Tracking, Tracks
<1>2. ~IsOpen(st[p].open_trade_id)
  <2>1. CASE st[p].open_trade_id = None
    BY <1>a, <2>1, LenProperties DEF IsOpen, None, TypeOK
  <2>2. CASE st[p].open_trade_id # None
    BY <1>a, <1>1, <2>2, GivenUpClosed DEF SInv, BriefOutage
  <2> QED
    BY <2>1, <2>2
<1>3. OpenOn(p) \subseteq {st[p].open_trade_id}
  BY <1>a DEF SInv, OnlyTracked
<1>4. \A t \in OpenOn(p) : IsOpen(t)
  BY DEF OpenOn, IsOpen
<1> QED
  BY <1>2, <1>3, <1>4

\* With MaxLost = 0 no request is ever in doubt.
LEMMA InflightStep ==
    ASSUME BriefOutage, SInv, [Next]_vars
    PROVE  inflight' = {}
<1>a. inflight = {} /\ ~(Cardinality(inflight) < MaxLost)
  BY FS_EmptySet DEF SInv, BriefOutage
<1>1. CASE DeskStep
  BY <1>1, <1>a DEF DeskStep, Warmup, StartupAdoption, Reconcile, Details, Reverify, Poll,
     BarsDone, QuietBar, PsarExit, CloseTrade, EntrySignal, OrderFilled, OrderRefused, OrderRetry,
     brokerVars
<1>2. CASE BrokerStep
  BY <1>2, <1>a DEF BrokerStep, BracketClose
<1>3. CASE Crash \/ UNCHANGED vars
  BY <1>3, <1>a DEF Crash, vars, brokerVars
<1> QED
  BY <1>1, <1>2, <1>3 DEF Next
\* An order goes out only on a pair that is flat; a reconcile is about a position.
LEMMA OrderClearStep ==
    ASSUME BriefOutage, SInv, [Next]_vars
    PROVE  OrderClear' /\ Reconciling'
<1>a. p \in Pairs
  BY CurrentPair DEF SInv, OInv, IInv, TypeOK
<1>0. ASSUME UNCHANGED <<pc, cur, st>>, ~OrderFilled
      PROVE  OrderClear' /\ Reconciling'
  <2>1. p' = p /\ pc' = pc /\ st'[p] = st[p]
    BY <1>0 DEF p
  <2>2. ASSUME NEW q \in Pairs, q = p, pc' = "order"
        PROVE  OpenOn(q)' = {}
    BY <1>0, <2>1, <2>2, Shrinks DEF SInv, OrderClear
  <2>3. pc' = "order" => OpenOn(p)' = {}
    BY <1>a, <2>1, <2>2
  <2> QED
    BY <2>1, <2>3 DEF SInv, OrderClear, Reconciling
<1>1. ASSUME pc' \notin {"order", "details", "reverify"}
      PROVE  OrderClear' /\ Reconciling'
  BY <1>1 DEF OrderClear, Reconciling
<1>2. CASE \E d \in Dirs : EntrySignal(d)
  <2>1. PICK d \in Dirs : EntrySignal(d)
    BY <1>2
  <2>2. PICK seen \in Reads(p) :
          /\ OpenTradesRead(p, seen)
          /\ pc' = "bars" \/ (pc' = "order" /\ seen = {})
    BY <2>1 DEF EntrySignal, NewBar
  <2>3. seen = OpenOn(p)
    BY <2>1, <2>2, FlatReadExact DEF EntrySignal, NewBar
  <2>4. p' = p /\ UNCHANGED trades
    BY <2>1 DEF EntrySignal, p
  <2>5. pc' = "order" => OpenOn(p)' = {}
    BY <2>2, <2>3, <2>4 DEF OpenOn
  <2>6. pc' \notin {"details", "reverify"}
    BY <2>2
  <2> QED
    BY <2>5, <2>6 DEF OrderClear, Reconciling
<1>3. CASE OrderRetry
  <2>1. UNCHANGED <<pc, cur, st>> \/ pc' = "bars"
    BY <1>3 DEF OrderRetry, OrderDone, GoTo
  <2>2. ~OrderFilled \/ pc' = "bars"
    BY DEF OrderFilled, OrderDone, GoTo
  <2> QED
    BY <1>0, <1>1, <2>1, <2>2
<1>4. CASE Reconcile
  <2>1. pc' = "poll" \/ (pc' = "details" /\ st[p].pos_dir # 0 /\ UNCHANGED st /\ p' = p)
    BY <1>4 DEF Reconcile, GoTo, p
  <2> QED
    BY <1>1, <2>1 DEF OrderClear, Reconciling
<1>5. CASE Details \/ Reverify
  <2>1. \/ pc' = "poll"
        \/ pc \in {"details", "reverify"} /\ pc' = "reverify" /\ UNCHANGED <<st, cur>>
    BY <1>5 DEF Details, Reverify, Conclude, GoTo
  <2>2. CASE pc \in {"details", "reverify"} /\ pc' = "reverify" /\ UNCHANGED <<st, cur>>
    BY <2>2 DEF SInv, OrderClear, Reconciling, p
  <2> QED
    BY <1>1, <2>1, <2>2
<1>6. CASE Warmup \/ StartupAdoption \/ BarsDone
  BY <1>1, <1>6 DEF Warmup, StartupAdoption, BarsDone, NextPair
<1>7. CASE Poll \/ QuietBar \/ PsarExit \/ OrderFilled \/ OrderRefused
  BY <1>1, <1>7 DEF Poll, QuietBar, PsarExit, NewBar, OrderFilled, OrderRefused, OrderDone, GoTo
<1>8. CASE BrokerStep
  <2>1. PICK t \in 1..Len(trades) : BracketClose(t)
    BY <1>8 DEF BrokerStep, SInv
  <2>2. UNCHANGED <<pc, cur, st>> /\ (OrderFilled => pc' = "bars")
    BY <2>1 DEF BracketClose, deskVars, OrderFilled, OrderDone, GoTo
  <2> QED
    BY <1>0, <1>1, <2>2
<1>9. CASE Crash
  BY <1>1, <1>9 DEF Crash
<1>10. CASE UNCHANGED vars
  BY <1>0, <1>1, <1>10 DEF vars, OrderFilled, OrderDone, GoTo
<1> QED
  BY <1>2, <1>3, <1>4, <1>5, <1>6, <1>7, <1>8, <1>9, <1>10 DEF Next, DeskStep

\* Every step keeps at most one trade open on a pair.
LEMMA AtMostOneStep ==
    ASSUME SInv, [Next]_vars
    PROVE  AtMostOne'
<1>1. CASE OrderFilled
  <2>1. PICK id \in Nat \ {0} :
          /\ \A q \in Pairs : q = p => OpenOn(q)' \subseteq {id}
          /\ \A q \in Pairs : q # p => OpenOn(q)' = OpenOn(q)
    BY <1>1, FilledAlone
  <2>2. ASSUME NEW q \in Pairs
        PROVE  \A t, u \in OpenOn(q)' : t = u
    BY <2>1 DEF SInv, AtMostOne
  <2> QED
    BY <2>2 DEF AtMostOne
<1>2. CASE ~OrderFilled
  <2>1. \A q \in Pairs : OpenOn(q)' \subseteq OpenOn(q)
    BY <1>2, Shrinks
  <2>2. ASSUME NEW q \in Pairs
        PROVE  \A t, u \in OpenOn(q)' : t = u
    BY <2>1 DEF SInv, AtMostOne
  <2> QED
    BY <2>2 DEF AtMostOne
<1> QED
  BY <1>1, <1>2

\* A pair in a position has no other trade open than the one it tracks.
LEMMA OnlyTrackedStep ==
    ASSUME BriefOutage, SInv, [Next]_vars
    PROVE  OnlyTracked'
<1>a. /\ TypeOK /\ p \in Pairs /\ st[p] \in PairState /\ trades \in Seq(Trade)
      /\ bad \in [Pairs -> 0..MaxBad] /\ PsarPairs = {}
  BY CurrentPair DEF SInv, OInv, IInv, TypeOK, BriefOutage, ShortOutage
<1>b. ~OrderFilled => \A q \in Pairs : OpenOn(q)' \subseteq OpenOn(q)
  BY Shrinks
<1>0. ASSUME UNCHANGED st, ~OrderFilled
      PROVE  OnlyTracked'
  BY <1>0, <1>b DEF SInv, OnlyTracked
<1>1. ASSUME NEW s \in PairState, st' = [st EXCEPT ![p] = s],
             \A q \in Pairs : q = p /\ s.pos_dir # 0 => OpenOn(q)' \subseteq {s.open_trade_id},
             \A q \in Pairs : q # p => OpenOn(q)' \subseteq OpenOn(q)
      PROVE  OnlyTracked'
  <2>1. st'[p] = s /\ \A q \in Pairs : q # p => st'[q] = st[q]
    BY <1>a, <1>1, StoreFacts DEF TypeOK
  <2>2. ASSUME NEW q \in Pairs, st'[q].pos_dir # 0
        PROVE  OpenOn(q)' \subseteq {st'[q].open_trade_id}
    <3>1. CASE q = p
      BY <1>1, <2>1, <2>2, <3>1
    <3>2. CASE q # p
      BY <1>1, <2>1, <2>2, <3>2 DEF SInv, OnlyTracked
    <3> QED
      BY <3>1, <3>2
  <2> QED
    BY <2>2 DEF OnlyTracked
<1>2. ASSUME UNCHANGED trades, NEW seen \in Reads(p), OpenTradesRead(p, seen), NEW t \in seen,
             NEW a \in {WarmupAdopted(st[p], t), StartupAdopted(st[p], t), GuardAdopted(st[p], t)},
             st' = [st EXCEPT ![p] = a]
      PROVE  OnlyTracked'
  <2>1. t \in 1..Len(trades) /\ t \in OpenOn(p)
    BY <1>a, <1>2, ReadFacts DEF Reads
  <2>2. a \in PairState /\ a.open_trade_id = t
    BY <1>a, <2>1, AdoptedFacts
  <2>3. \A q \in Pairs : OpenOn(q)' = OpenOn(q)
    BY <1>2 DEF OpenOn
  <2>4. OpenOn(p) \subseteq {t}
    BY <1>a, <2>1 DEF SInv, AtMostOne
  <2> QED
    BY <1>1, <1>2, <2>2, <2>3, <2>4
<1>3. CASE Warmup
  BY <1>0, <1>2, <1>3 DEF Warmup, OrderFilled
<1>4. CASE StartupAdoption
  BY <1>0, <1>2, <1>4 DEF StartupAdoption, OrderFilled
<1>5. CASE \E d \in Dirs : EntrySignal(d)
  BY <1>0, <1>2, <1>5 DEF EntrySignal, NewBar, OrderFilled
<1>6. CASE Details \/ Reverify
  <2>1. UNCHANGED st \/ st' = [st EXCEPT ![p] = Reset(@)]
    BY <1>6 DEF Details, Reverify, Conclude
  <2>2. ~OrderFilled
    BY <1>6 DEF Details, Reverify, OrderFilled
  <2>3. CASE st' = [st EXCEPT ![p] = Reset(@)]
    <3> DEFINE a == Reset(st[p])
    <3>1. st' = [st EXCEPT ![p] = a] /\ a \in PairState /\ a.pos_dir = 0
      BY <1>a, <2>3, ResetFacts
    <3> HIDE DEF a
    <3> QED
      BY <1>1, <1>b, <2>2, <3>1
  <2> QED
    BY <1>0, <2>1, <2>2, <2>3
<1>7. CASE QuietBar \/ PsarExit \/ Reconcile \/ Poll \/ BarsDone \/ OrderRefused \/ OrderRetry
  <2>1. UNCHANGED st
    BY <1>7, <1>a DEF QuietBar, PsarExit, Reconcile, Poll, BarsDone, OrderRefused, OrderRetry
  <2>2. CASE OrderFilled
    <3>1. \E id \in 0..MaxTrades : Executed(p, want, id)
      BY <2>2 DEF OrderFilled
    <3>2. pc = "order" /\ want \in Dirs /\ st[p].pos_dir = 0
      BY <1>a, <2>2 DEF OrderFilled, TypeOK
    <3>3. PICK id \in Nat \ {0} : st' = [st EXCEPT ![p] = Entered(st[p], want, id)]
      BY <2>2, FilledAlone
    <3> DEFINE a == Entered(st[p], want, id)
    <3>4. st' = [st EXCEPT ![p] = a] /\ a \in PairState /\ a.pos_dir = want
      <4>0. st[p] \in PairState /\ want \in Dirs /\ id \in Nat
        BY <1>a, <3>2
      <4>1. a \in PairState /\ a.pos_dir = want
        BY <4>0, EnteredFacts
      <4> QED
        BY <3>3, <4>1
    <3> HIDE DEF a
    <3>5. st'[p] = a
      BY <1>a, <3>4, StoreFacts DEF TypeOK
    <3> QED
      BY <2>1, <3>2, <3>4, <3>5 DEF Dirs
  <2> QED
    BY <1>0, <2>1, <2>2
<1>8. CASE OrderFilled
  <2>1. PICK id \in Nat \ {0} :
          /\ st' = [st EXCEPT ![p] = Entered(st[p], want, id)]
          /\ \A q \in Pairs : q = p => OpenOn(q)' \subseteq {id}
          /\ \A q \in Pairs : q # p => OpenOn(q)' = OpenOn(q)
    BY <1>8, FilledAlone
  <2>2. want \in Dirs
    BY <1>8, <1>a DEF OrderFilled, TypeOK
  <2> DEFINE a == Entered(st[p], want, id)
  <2>3. st' = [st EXCEPT ![p] = a] /\ a \in PairState /\ a.open_trade_id = id
    <3>0. st[p] \in PairState /\ want \in Dirs /\ id \in Nat
      BY <1>a, <2>2
    <3>1. a \in PairState /\ a.open_trade_id = id
      BY <3>0, EnteredFacts
    <3> QED
      BY <2>1, <3>1
  <2> HIDE DEF a
  <2> QED
    BY <1>1, <2>1, <2>3
<1>9. CASE BrokerStep
  <2>1. PICK t \in 1..Len(trades) : BracketClose(t)
    BY <1>9 DEF BrokerStep, SInv
  <2>2. UNCHANGED <<st, pc>>
    BY <2>1 DEF BracketClose, deskVars
  <2>3. ~OrderFilled
    BY <2>2 DEF OrderFilled, OrderDone, GoTo
  <2> QED
    BY <1>0, <2>2, <2>3
<1>10. CASE Crash
  BY <1>10 DEF Crash, OnlyTracked, Flat
<1>11. CASE UNCHANGED vars
  BY <1>0, <1>11 DEF vars, OrderFilled, OrderDone, GoTo
<1> QED
  BY <1>3, <1>4, <1>5, <1>6, <1>7, <1>8, <1>9, <1>10, <1>11 DEF Next, DeskStep
\* One step of the start: the pair it reads is one read further, the others wait.
LEMMA StartReads ==
    ASSUME TypeOK, NEW stage \in {"warmup", "startup"}, pc = stage,
           NextPair(stage, IF stage = "warmup" THEN "startup" ELSE "reconcile"),
           NEW k \in DOMAIN PairSeq
    PROVE  IF k = cur THEN ReadsDone(k)' = ReadsDone(k) + 1 ELSE ReadsDone(k)' = ReadsDone(k)
<1>a. /\ cur \in 1..Len(PairSeq) /\ k \in 1..Len(PairSeq) /\ Len(PairSeq) \in Nat
  BY PairSeqAssumption, LenProperties DEF TypeOK
<1>1. CASE stage = "warmup"
  <2>1. ReadsDone(k) = IF k < cur THEN 1 ELSE 0
    BY <1>1 DEF ReadsDone
  <2>2. CASE cur < Len(PairSeq)
    <3>1. pc' = "warmup" /\ cur' = cur + 1
      BY <1>1, <2>2 DEF NextPair
    <3>2. ReadsDone(k)' = IF k < cur + 1 THEN 1 ELSE 0
      BY <3>1 DEF ReadsDone
    <3> QED
      BY <1>a, <2>1, <3>2
  <2>3. CASE ~(cur < Len(PairSeq))
    <3>1. pc' = "startup" /\ cur' = 1
      BY <1>1, <2>3 DEF NextPair
    <3>2. ReadsDone(k)' = IF k < 1 THEN 2 ELSE 1
      BY <3>1 DEF ReadsDone
    <3> QED
      BY <1>a, <2>1, <2>3, <3>2
  <2> QED
    BY <2>2, <2>3
<1>2. CASE stage = "startup"
  <2>1. ReadsDone(k) = IF k < cur THEN 2 ELSE 1
    BY <1>2 DEF ReadsDone
  <2>2. CASE cur < Len(PairSeq)
    <3>1. pc' = "startup" /\ cur' = cur + 1
      BY <1>2, <2>2 DEF NextPair
    <3>2. ReadsDone(k)' = IF k < cur + 1 THEN 2 ELSE 1
      BY <3>1 DEF ReadsDone
    <3> QED
      BY <1>a, <2>1, <3>2
  <2>3. CASE ~(cur < Len(PairSeq))
    <3>1. pc' = "reconcile"
      BY <1>2, <2>3 DEF NextPair
    <3>2. ReadsDone(k)' = 2
      BY <3>1 DEF ReadsDone
    <3> QED
      BY <1>a, <2>1, <2>3, <3>2
  <2> QED
    BY <2>2, <2>3
<1> QED
  BY <1>1, <1>2

\* A pair believed flat while it has an open trade lost every read since the restart.
LEMMA UntrackedStep ==
    ASSUME BriefOutage, SInv, [Next]_vars
    PROVE  Untracked'
<1>a. /\ TypeOK /\ p \in Pairs /\ st[p] \in PairState /\ trades \in Seq(Trade)
      /\ bad \in [Pairs -> 0..MaxBad] /\ cur \in DOMAIN PairSeq /\ PsarPairs = {}
      /\ \A k \in DOMAIN PairSeq : PairSeq[k] \in Pairs
  BY CurrentPair DEF SInv, OInv, IInv, TypeOK, BriefOutage, ShortOutage, Pairs
<1>b. ~OrderFilled => \A q \in Pairs : OpenOn(q)' \subseteq OpenOn(q)
  BY Shrinks
<1>c. \A k \in DOMAIN PairSeq : PairSeq[k] = p => k = cur
  BY <1>a, PairSeqAssumption DEF p
<1>0. ASSUME pc \notin {"warmup", "startup"}, pc' \notin {"warmup", "startup"},
             \A q \in Pairs :
                \/ st'[q].pos_dir # 0 \/ OpenOn(q)' = {}
                \/ /\ bad'[q] = bad[q] /\ st'[q].pos_dir = st[q].pos_dir
                   /\ OpenOn(q)' \subseteq OpenOn(q)
      PROVE  Untracked'
  <2>1. ASSUME NEW k \in DOMAIN PairSeq, st'[PairSeq[k]].pos_dir = 0, OpenOn(PairSeq[k])' # {}
        PROVE  bad'[PairSeq[k]] >= ReadsDone(k)'
    <3>1. ReadsDone(k) = 2 /\ ReadsDone(k)' = 2
      BY <1>0 DEF ReadsDone
    <3>2. /\ bad'[PairSeq[k]] = bad[PairSeq[k]] /\ st[PairSeq[k]].pos_dir = 0
          /\ OpenOn(PairSeq[k]) # {}
      BY <1>0, <1>a, <2>1
    <3>3. bad[PairSeq[k]] >= ReadsDone(k)
      BY <3>2 DEF SInv, Untracked
    <3> QED
      BY <3>1, <3>2, <3>3
  <2> QED
    BY <2>1 DEF Untracked
<1>1. ASSUME NEW stage \in {"warmup", "startup"}, pc = stage,
             NextPair(stage, IF stage = "warmup" THEN "startup" ELSE "reconcile"),
             UNCHANGED trades, NEW seen \in Reads(p), OpenTradesRead(p, seen),
             \/ seen = {} /\ UNCHANGED st
             \/ \E t \in seen : \E a \in {WarmupAdopted(st[p], t), StartupAdopted(st[p], t)} :
                   st' = [st EXCEPT ![p] = a]
      PROVE  Untracked'
  <2>1. ASSUME NEW k \in DOMAIN PairSeq, st'[PairSeq[k]].pos_dir = 0, OpenOn(PairSeq[k])' # {}
        PROVE  bad'[PairSeq[k]] >= ReadsDone(k)'
    <3>0. OpenOn(PairSeq[k]) # {}
      BY <1>1, <2>1 DEF OpenOn
    <3>1. CASE k = cur
      <4>1. PairSeq[k] = p
        BY <3>1 DEF p
      <4>2. seen = {} /\ UNCHANGED st
        <5>1. ASSUME NEW t \in seen,
                     NEW a \in {WarmupAdopted(st[p], t), StartupAdopted(st[p], t)},
                     st' = [st EXCEPT ![p] = a]
              PROVE  FALSE
          <6>1. t \in 1..Len(trades)
            BY <1>a, <1>1, <5>1, ReadFacts
          <6>2. a \in PairState /\ a.pos_dir # 0
            <7>1. a \in {WarmupAdopted(st[p], t), StartupAdopted(st[p], t), GuardAdopted(st[p], t)}
              BY <5>1
            <7> QED
              BY <1>a, <6>1, <7>1, AdoptedFacts
          <6>3. st'[p] = a
            BY <1>a, <5>1, <6>2, StoreFacts DEF TypeOK
          <6> QED
            BY <2>1, <4>1, <6>2, <6>3
        <5> QED
          BY <1>1, <5>1
      <4>3. bad'[p] = bad[p] + 1
        BY <1>a, <1>1, <3>0, <4>1, <4>2, ReadLost
      <4>4. st[p].pos_dir = 0
        BY <2>1, <4>1, <4>2
      <4>5. bad[p] >= ReadsDone(k)
        BY <3>0, <4>1, <4>4 DEF SInv, Untracked
      <4>6. ReadsDone(k)' = ReadsDone(k) + 1
        BY <1>a, <1>1, <3>1, StartReads
      <4>7. bad[p] \in Nat /\ ReadsDone(k) \in Nat
        BY <1>a DEF ReadsDone
      <4> QED
        BY <4>1, <4>3, <4>5, <4>6, <4>7
    <3>2. CASE k # cur
      <4>1. PairSeq[k] # p /\ PairSeq[k] \in Pairs
        BY <1>a, <1>c, <3>2
      <4>2. bad'[PairSeq[k]] = bad[PairSeq[k]]
        BY <1>1, <1>a, <4>1 DEF OpenTradesRead
      <4>3. st'[PairSeq[k]] = st[PairSeq[k]]
        BY <1>1, <1>a, <4>1 DEF TypeOK
      <4>4. bad[PairSeq[k]] >= ReadsDone(k)
        BY <2>1, <3>0, <4>3 DEF SInv, Untracked
      <4>5. ReadsDone(k)' = ReadsDone(k)
        BY <1>a, <1>1, <3>2, StartReads
      <4> QED
        BY <4>2, <4>4, <4>5
    <3> QED
      BY <3>1, <3>2
  <2> QED
    BY <2>1 DEF Untracked
<1>2. CASE Warmup
  <2>1. PICK seen \in Reads(p) :
          /\ OpenTradesRead(p, seen)
          /\ \/ seen = {} /\ UNCHANGED st
             \/ \E t \in seen : st' = [st EXCEPT ![p] = WarmupAdopted(st[p], t)]
    BY <1>2 DEF Warmup, BriefOutage
  <2>2. pc = "warmup" /\ NextPair("warmup", "startup") /\ UNCHANGED trades
    BY <1>2 DEF Warmup
  <2> QED
    BY <1>1, <2>1, <2>2
<1>3. CASE StartupAdoption
  <2>1. PICK seen \in Reads(p) :
          /\ OpenTradesRead(p, seen)
          /\ \/ seen = {} /\ UNCHANGED st
             \/ \E t \in seen : st' = [st EXCEPT ![p] = StartupAdopted(st[p], t)]
    BY <1>3 DEF StartupAdoption
  <2>2. pc = "startup" /\ NextPair("startup", "reconcile") /\ UNCHANGED trades
    BY <1>3 DEF StartupAdoption
  <2> QED
    BY <1>1, <2>1, <2>2
<1>4. ASSUME pc \notin {"warmup", "startup"}, pc' \notin {"warmup", "startup"},
             UNCHANGED <<st, bad>>, ~OrderFilled
      PROVE  Untracked'
  BY <1>0, <1>b, <1>4
<1>5. CASE Reconcile
  <2>1. /\ pc = "reconcile" /\ pc' \in {"poll", "details"} /\ UNCHANGED <<st, trades>>
        /\ \/ UNCHANGED bad
           \/ st[p].pos_dir # 0 /\ \E seen : OpenTradesRead(p, seen)
    BY <1>5 DEF Reconcile, GoTo
  <2>2. \A q \in Pairs : q # p => bad'[q] = bad[q]
    BY <1>a, <2>1 DEF OpenTradesRead
  <2>3. \A q \in Pairs : OpenOn(q)' = OpenOn(q)
    BY <2>1 DEF OpenOn
  <2>4. bad'[p] = bad[p] \/ st[p].pos_dir # 0
    BY <2>1
  <2> QED
    BY <1>0, <2>1, <2>2, <2>3, <2>4
<1>6. CASE Details \/ Reverify
  <2>1. /\ pc \in {"details", "reverify"} /\ pc' \in {"poll", "reverify"} /\ UNCHANGED trades
        /\ UNCHANGED bad \/ \E seen : OpenTradesRead(p, seen)
        /\ UNCHANGED st \/ st' = [st EXCEPT ![p] = Reset(@)]
    BY <1>6 DEF Details, Reverify, Conclude, GoTo
  <2>2. \A q \in Pairs : q # p => bad'[q] = bad[q] /\ st'[q] = st[q]
    BY <1>a, <2>1 DEF OpenTradesRead, TypeOK
  <2>3. \A q \in Pairs : OpenOn(q)' = OpenOn(q)
    BY <2>1 DEF OpenOn
  <2>4. st'[p].pos_dir = 0 => OpenOn(p) = {}
    BY <1>6, GivenUpFlat
  <2>5. \A q \in Pairs : \/ st'[q].pos_dir # 0 \/ OpenOn(q)' = {}
                         \/ /\ bad'[q] = bad[q] /\ st'[q].pos_dir = st[q].pos_dir
                            /\ OpenOn(q)' \subseteq OpenOn(q)
    <3>1. ASSUME NEW q \in Pairs, q = p
          PROVE  st'[q].pos_dir # 0 \/ OpenOn(q)' = {}
      BY <2>3, <2>4, <3>1
    <3> QED
      BY <2>2, <2>3, <3>1
  <2>6. pc \notin {"warmup", "startup"} /\ pc' \notin {"warmup", "startup"}
    BY <2>1
  <2> QED
    BY <1>0, <2>5, <2>6
<1>7. CASE \E d \in Dirs : EntrySignal(d)
  <2>1. PICK d \in Dirs : EntrySignal(d)
    BY <1>7
  <2>2. PICK seen \in Reads(p) :
          /\ OpenTradesRead(p, seen)
          /\ \/ \E t \in seen : st' = [st EXCEPT ![p] = GuardAdopted(st[p], t)]
             \/ seen = {} /\ UNCHANGED st
    BY <2>1 DEF EntrySignal
  <2>3. /\ pc = "bars" /\ pc' \in {"bars", "order"} /\ st[p].pos_dir = 0 /\ UNCHANGED trades
    BY <2>1 DEF EntrySignal, NewBar
  <2>4. seen = OpenOn(p)
    BY <2>2, <2>3, FlatReadExact
  <2>5. \A q \in Pairs : OpenOn(q)' = OpenOn(q)
    BY <2>3 DEF OpenOn
  <2>6. \A q \in Pairs : q # p => bad'[q] = bad[q] /\ st'[q] = st[q]
    BY <1>a, <2>2 DEF OpenTradesRead, TypeOK
  <2>7. st'[p].pos_dir # 0 \/ OpenOn(p) = {}
    <3>1. ASSUME NEW t \in seen, st' = [st EXCEPT ![p] = GuardAdopted(st[p], t)]
          PROVE  st'[p].pos_dir # 0
      <4> DEFINE a == GuardAdopted(st[p], t)
      <4>1. t \in 1..Len(trades)
        BY <1>a, <2>2, <3>1, ReadFacts
      <4>2. st' = [st EXCEPT ![p] = a] /\ a \in PairState /\ a.pos_dir # 0
        BY <1>a, <3>1, <4>1, AdoptedFacts
      <4> HIDE DEF a
      <4> QED
        BY <1>a, <4>2, StoreFacts DEF TypeOK
    <3> QED
      BY <2>2, <2>4, <3>1
  <2>8. \A q \in Pairs : \/ st'[q].pos_dir # 0 \/ OpenOn(q)' = {}
                         \/ /\ bad'[q] = bad[q] /\ st'[q].pos_dir = st[q].pos_dir
                            /\ OpenOn(q)' \subseteq OpenOn(q)
    BY <2>5, <2>6, <2>7
  <2>9. pc \notin {"warmup", "startup"} /\ pc' \notin {"warmup", "startup"}
    BY <2>3
  <2> QED
    BY <1>0, <2>8, <2>9
<1>8. CASE OrderFilled
  <2>1. PICK id \in Nat \ {0} :
          /\ st' = [st EXCEPT ![p] = Entered(st[p], want, id)]
          /\ \A q \in Pairs : q # p => OpenOn(q)' = OpenOn(q)
    BY <1>8, FilledAlone
  <2>2. /\ pc = "order" /\ pc' = "bars" /\ UNCHANGED bad /\ want \in Dirs
    BY <1>8, <1>a DEF OrderFilled, OrderDone, GoTo, TypeOK
  <2> DEFINE a == Entered(st[p], want, id)
  <2>a. id \in Nat /\ st[p] \in PairState
    BY <1>a
  <2>3. /\ st' = [st EXCEPT ![p] = a]
        /\ a \in PairState /\ a.pos_dir = want
    <3>1. a \in PairState /\ a.pos_dir = want
      BY <2>a, <2>2, EnteredFacts
    <3> HIDE DEF a
    <3> QED
      BY <2>1, <3>1 DEF a
  <2> HIDE DEF a
  <2>4. st'[p].pos_dir = want /\ \A q \in Pairs : q # p => st'[q] = st[q]
    BY <1>a, <2>3, StoreFacts DEF TypeOK
  <2>5. want # 0
    BY <2>2 DEF Dirs
  <2> QED
    BY <1>0, <2>1, <2>2, <2>4, <2>5
<1>9. CASE Poll \/ BarsDone \/ QuietBar \/ PsarExit \/ OrderRefused
  <2>1. /\ pc \notin {"warmup", "startup"} /\ pc' \notin {"warmup", "startup"}
        /\ UNCHANGED <<st, bad>>
    BY <1>9, <1>a DEF Poll, BarsDone, QuietBar, PsarExit, OrderRefused, OrderDone, NewBar, NextPair,
                      GoTo, brokerVars
  <2> QED
    BY <1>4, <1>8, <2>1
<1>10. CASE OrderRetry
  <2>1. /\ pc = "order" /\ pc' \in {"order", "bars"} /\ UNCHANGED <<st, bad>>
    BY <1>10 DEF OrderRetry, OrderDone, GoTo
  <2> QED
    BY <1>4, <1>8, <2>1
<1>11. ASSUME UNCHANGED <<pc, cur, st, bad>>, ~OrderFilled
      PROVE  Untracked'
  <2>1. ASSUME NEW k \in DOMAIN PairSeq, st'[PairSeq[k]].pos_dir = 0, OpenOn(PairSeq[k])' # {}
        PROVE  bad'[PairSeq[k]] >= ReadsDone(k)'
    <3>1. ReadsDone(k)' = ReadsDone(k)
      BY <1>11 DEF ReadsDone
    <3>2. OpenOn(PairSeq[k]) # {}
      BY <1>a, <1>b, <1>11, <2>1
    <3> QED
      BY <1>11, <2>1, <3>1, <3>2 DEF SInv, Untracked
  <2> QED
    BY <2>1 DEF Untracked
<1>12. CASE BrokerStep
  <2>1. PICK t \in 1..Len(trades) : BracketClose(t)
    BY <1>12 DEF BrokerStep, SInv
  <2>2. UNCHANGED <<pc, cur, st, bad>>
    BY <2>1 DEF BracketClose, deskVars
  <2> QED
    BY <1>8, <1>11, <2>2
<1>13. CASE Crash
  <2>1. /\ pc' = "warmup" /\ cur' = 1 /\ bad' = bad
    BY <1>13 DEF Crash, brokerVars
  <2>2. ASSUME NEW k \in DOMAIN PairSeq
        PROVE  bad'[PairSeq[k]] >= ReadsDone(k)'
    <3>1. k \in 1..Len(PairSeq) /\ Len(PairSeq) \in Nat
      BY PairSeqAssumption, LenProperties
    <3>2. ReadsDone(k)' = IF k < 1 THEN 1 ELSE 0
      BY <2>1 DEF ReadsDone
    <3>3. bad[PairSeq[k]] \in Nat
      BY <1>a
    <3> QED
      BY <2>1, <3>1, <3>2, <3>3
  <2> QED
    BY <2>2 DEF Untracked
<1>14. CASE UNCHANGED vars
  <2>1. UNCHANGED <<pc, cur, st, bad>>
    BY <1>14 DEF vars
  <2> QED
    BY <1>8, <1>11, <2>1
<1> QED
  BY <1>2, <1>3, <1>5, <1>6, <1>7, <1>8, <1>9, <1>10, <1>12, <1>13, <1>14 DEF Next, DeskStep

\* The invariant of a brief outage holds when the container first starts.
LEMMA InitSInv == Init => SInv
<1> SUFFICES ASSUME Init PROVE SInv
  OBVIOUS
<1>1. Len(trades) = 0 /\ \A q \in Pairs : OpenOn(q) = {}
  BY DEF Init, OpenOn
<1>2. \A k \in DOMAIN PairSeq : PairSeq[k] \in Pairs
  BY DEF Pairs
<1>3. Untracked /\ OnlyTracked /\ AtMostOne /\ Uncut
  BY <1>1, <1>2 DEF Untracked, OnlyTracked, AtMostOne, Uncut
<1>4. inflight = {} /\ OrderClear /\ Reconciling
  BY DEF Init, OrderClear, Reconciling
<1> QED
  BY <1>3, <1>4, InitOInv DEF SInv

\* At most one member is cardinality at most one (the sets are finite).
LEMMA AtMostOneSingle == AtMostOne => SinglePosition
<1> SUFFICES ASSUME AtMostOne, NEW q \in Pairs PROVE Cardinality(OpenOn(q)) <= 1
  BY DEF SinglePosition
<1>1. CASE OpenOn(q) = {}
  BY <1>1, FS_EmptySet
<1>2. CASE OpenOn(q) # {}
  <2>1. PICK t \in OpenOn(q) : TRUE
    BY <1>2
  <2>2. OpenOn(q) = {t}
    BY <2>1 DEF AtMostOne
  <2>3. Cardinality({t}) = 1
    BY FS_Singleton
  <2> QED
    BY <2>2, <2>3
<1> QED
  BY <1>1, <1>2

\* With no order in doubt and outages of at most two reads, the desk never holds
\* two trades on a pair, however often and wherever it is restarted.
THEOREM OnePosition ==
    ASSUME BriefOutage
    PROVE  Spec => []SinglePosition
<1>1. SInv /\ [Next]_vars => SInv'
  <2> SUFFICES ASSUME SInv, [Next]_vars PROVE SInv'
    OBVIOUS
  <2>1. OInv'
    BY OStep DEF SInv
  <2>2. Uncut'
    BY Shrinks, FilledAlone
  <2> QED
    BY <2>1, <2>2, InflightStep, OrderClearStep, AtMostOneStep, OnlyTrackedStep, UntrackedStep DEF SInv
<1>2. SInv => SinglePosition
  BY AtMostOneSingle DEF SInv
<1> QED
  BY InitSInv, <1>1, <1>2, PTL DEF Spec

-----------------------------------------------------------------------------
(* Nothing fails: no close goes unrecorded.                                 *)

\* The faults that do lose closes; a failed warmup of the candles is not one.
QuietRun == MaxCrashes = 0 /\ MaxBad = 0 /\ MaxLost = 0 /\ Faults \cap {"db", "details"} = {}

\* Each trade, open or not, is tracked or has its row.
Kept ==
    \A t \in 1..Len(trades) :
        (\E q \in Pairs : st[q].open_trade_id = t) \/ (\E r \in OwnRows : r.trade = t)

Booting == pc \in {"warmup", "startup"} => trades = <<>>
Clear   == pc = "order" => OpenOn(p) = {}
Held    == \A q \in Pairs : st[q].pos_dir # 0 => st[q].open_trade_id # None
Gone    == /\ pc # "reverify"
           /\ pc = "details" => st[p].open_trade_id # None /\ ~IsOpen(st[p].open_trade_id)

\* A pair that has traded has the time of an entry, so the table takes its rows.
Timed   == \A t \in 1..Len(trades) : st[trades[t].pair].entry_time # None

KInv == IInv /\ inflight = {} /\ Kept /\ Booting /\ Clear /\ Held /\ Gone /\ Timed

-----------------------------------------------------------------------------
\* What every lemma below needs of the state.
LEMMA KFacts ==
    ASSUME KInv
    PROVE  /\ trades \in Seq(Trade) /\ Len(trades) \in Nat /\ ledger \subseteq LedgerRow
           /\ st \in [Pairs -> PairState] /\ p \in Pairs
           /\ cur \in DOMAIN PairSeq /\ bad \in [Pairs -> 0..MaxBad]
           /\ None \notin 1..Len(trades)
BY CurrentPair, LenProperties DEF KInv, IInv, TypeOK, None

\* A read of the open trades is exact.
LEMMA ExactRead ==
    ASSUME QuietRun, KInv, NEW seen \in Reads(p), OpenTradesRead(p, seen)
    PROVE  seen = OpenOn(p)
BY KFacts, ReadFacts DEF QuietRun

\* An order goes out on a flat account, so it opens a trade of its own.
LEMMA FillOpens ==
    ASSUME KInv, pc = "order", NEW d \in Dirs, NEW id \in 0..MaxTrades, Executed(p, d, id)
    PROVE  id = Len(trades) + 1 /\ Len(trades') = id /\ id # None
<1>1. {t \in OpenOn(p) : trades[t].dir = -d} = {}
  BY DEF KInv, Clear
<1>2. id = Len(trades) + 1
  BY <1>1 DEF Executed
<1>3. id # None
  BY <1>2, KFacts DEF None
<1> QED
  BY <1>2, <1>3, KFacts, ExecutedFacts

\* Nothing is ever in doubt.
LEMMA InflightStays ==
    ASSUME QuietRun, KInv, [Next]_vars
    PROVE  inflight' = {}
<1>a. inflight = {} /\ ~(Cardinality(inflight) < MaxLost)
  BY FS_EmptySet DEF KInv, QuietRun
<1>1. CASE DeskStep
  BY <1>1, <1>a DEF DeskStep, Warmup, StartupAdoption, Reconcile, Details, Reverify, Poll,
     BarsDone, QuietBar, PsarExit, CloseTrade, EntrySignal, OrderFilled, OrderRefused, OrderRetry,
     brokerVars
<1>2. CASE BrokerStep
  BY <1>2, <1>a DEF BrokerStep, BracketClose
<1>3. CASE Crash \/ UNCHANGED vars
  BY <1>3, <1>a DEF Crash, vars, brokerVars
<1> QED
  BY <1>1, <1>2, <1>3 DEF Next

\* A trade stays kept while no row goes and no id is overwritten.
LEMMA StaysKept ==
    ASSUME KInv, ledger \subseteq ledger',
           \A q \in Pairs : st'[q].open_trade_id = st[q].open_trade_id
                               \/ st[q].open_trade_id = None,
           NEW t \in 1..Len(trades)
    PROVE  (\E q \in Pairs : st'[q].open_trade_id = t) \/ (\E r \in OwnRows' : r.trade = t)
BY KFacts DEF KInv, Kept, OwnRows

\* With no trade opened, that keeps them all.
LEMMA AllStayKept ==
    ASSUME KInv, ledger \subseteq ledger', Len(trades') = Len(trades),
           \A q \in Pairs : st'[q].open_trade_id = st[q].open_trade_id
                               \/ st[q].open_trade_id = None
    PROVE  Kept'
BY StaysKept DEF Kept

\* A confirmed close leaves its row behind.
LEMMA ConcludeKeeps ==
    ASSUME QuietRun, KInv, NEW reason, Conclude(reason), Len(trades') = Len(trades),
           st[p].open_trade_id # None
    PROVE  Kept'
<1> DEFINE id == st[p].open_trade_id
<1>1. ledger' = Insert(Row(reason)) /\ st' = [st EXCEPT ![p] = Reset(@)]
  BY DEF Conclude, QuietRun
<1>2. \A q \in Pairs : q # p => st'[q] = st[q]
  BY <1>1, KFacts
<1>3. \E r \in OwnRows' : r.trade = id
  <2>1. CASE \E r \in ledger : r.trade_id = Row(reason).trade_id
    <3>1. PICK r \in ledger : r.trade_id = <<"010", id>>
      BY <2>1 DEF Row, TradeKey
    <3>2. r \in OwnRows
      BY KFacts DEF OwnRows, LedgerRow
    <3>3. r.trade_id = <<"010", r.trade>>
      BY <3>2 DEF KInv, IInv, RowsTruthful
    <3>4. r.trade = id
      BY <3>1, <3>3
    <3>5. ledger' = ledger
      BY <1>1, <2>1 DEF Insert
    <3> QED
      BY <3>2, <3>4, <3>5 DEF OwnRows
  <2>2. CASE ~\E r \in ledger : r.trade_id = Row(reason).trade_id
    <3>0. Row(reason).entry_time # None
      BY KFacts DEF KInv, IInv, Tracking, Tracks, Timed, Row
    <3>1. Row(reason) \in ledger'
      BY <1>1, <2>2, <3>0 DEF Insert
    <3>2. Row(reason).trade = id /\ Row(reason).account = Account
      BY DEF Row
    <3> QED
      BY <3>1, <3>2 DEF OwnRows
  <2> QED
    BY <2>1, <2>2
<1>4. ledger \subseteq ledger'
  BY <1>1 DEF Insert
<1>5. ASSUME NEW t \in 1..Len(trades)
      PROVE  (\E q \in Pairs : st'[q].open_trade_id = t) \/ (\E r \in OwnRows' : r.trade = t)
  <2>1. CASE id = t
    BY <1>3, <2>1
  <2>2. CASE \E r \in OwnRows : r.trade = t
    BY <1>4, <2>2 DEF OwnRows
  <2>3. CASE id # t /\ \E q \in Pairs : st[q].open_trade_id = t
    BY <1>2, <2>3
  <2> QED
    BY <2>1, <2>2, <2>3 DEF KInv, Kept
<1> QED
  BY <1>5 DEF Kept

\* A bar that quits nothing, and one that asks for the exit, leave the position alone.
LEMMA BarKeepsPosition ==
    ASSUME KInv, QuietBar \/ PsarExit
    PROVE  \A q \in Pairs : /\ st'[q].pos_dir = st[q].pos_dir
                            /\ st'[q].open_trade_id = st[q].open_trade_id
                            /\ st'[q].entry_time = st[q].entry_time
<1>a. st \in [Pairs -> PairState] /\ p \in Pairs
  BY KFacts
<1> DEFINE exits == {[Armed(st[p]) EXCEPT !.pending = reply] :
                        reply \in {"psar_trail", "psar_trail_est"}}
<1>1. UNCHANGED st \/ \E s \in {Armed(st[p])} \cup exits : st' = [st EXCEPT ![p] = s]
  BY DEF QuietBar, PsarExit
<1>2. \A s \in {Armed(st[p])} \cup exits :
         s \in PairState /\ s.pos_dir = st[p].pos_dir /\ s.open_trade_id = st[p].open_trade_id
         /\ s.entry_time = st[p].entry_time
  <2>1. st[p] \in PairState
    BY <1>a
  <2>2. ASSUME NEW reply \in {"psar_trail", "psar_trail_est"}
        PROVE  LET s == [Armed(st[p]) EXCEPT !.pending = reply]
               IN  /\ s \in PairState /\ s.pos_dir = st[p].pos_dir
                   /\ s.open_trade_id = st[p].open_trade_id /\ s.entry_time = st[p].entry_time
    BY <2>1, ArmedFacts
  <2>3. /\ Armed(st[p]) \in PairState /\ Armed(st[p]).pos_dir = st[p].pos_dir
        /\ Armed(st[p]).open_trade_id = st[p].open_trade_id
        /\ Armed(st[p]).entry_time = st[p].entry_time
    BY <2>1, ArmedFacts
  <2> QED
    BY <2>2, <2>3
<1> HIDE DEF exits
<1>3. ASSUME NEW s \in {Armed(st[p])} \cup exits, st' = [st EXCEPT ![p] = s]
      PROVE  \A q \in Pairs : /\ st'[q].pos_dir = st[q].pos_dir
                              /\ st'[q].open_trade_id = st[q].open_trade_id
                              /\ st'[q].entry_time = st[q].entry_time
  BY <1>a, <1>2, <1>3, StoreFacts
<1> QED
  BY <1>1, <1>3

\* Every step keeps each trade tracked or recorded.
LEMMA KeptStep ==
    ASSUME QuietRun, KInv, [Next]_vars
    PROVE  Kept'
<1>a. /\ st \in [Pairs -> PairState] /\ p \in Pairs /\ trades \in Seq(Trade)
  BY KFacts
<1>0. ASSUME UNCHANGED <<trades, ledger, st>>
      PROVE  Kept'
  BY <1>0, AllStayKept
<1>1. CASE Warmup \/ StartupAdoption
  <2>1. trades' = <<>>
    BY <1>1 DEF Warmup, StartupAdoption, KInv, Booting
  <2> QED
    BY <2>1 DEF Kept
<1>2. CASE Reconcile \/ Poll \/ BarsDone \/ OrderRefused \/ OrderRetry \/ UNCHANGED vars
  <2>1. UNCHANGED <<trades, ledger, st>>
    BY <1>2 DEF Reconcile, Poll, BarsDone, OrderRefused, OrderRetry, brokerVars, deskVars, vars
  <2> QED
    BY <1>0, <2>1
<1>3. CASE Details
  <2>1. UNCHANGED trades
    BY <1>3 DEF Details
  <2>2. (\E reason \in {st[p].pending, "closed_broker"} : Conclude(reason)) \/ UNCHANGED <<ledger, st>>
    BY <1>3 DEF Details
  <2>3. st[p].open_trade_id # None
    BY <1>3 DEF Details, KInv, Gone
  <2> QED
    BY <1>0, <2>1, <2>2, <2>3, ConcludeKeeps
<1>4. CASE Reverify
  BY <1>4 DEF Reverify, KInv, Gone
<1>5. CASE QuietBar
  <2>1. UNCHANGED <<trades, ledger>>
    BY <1>5 DEF QuietBar, brokerVars
  <2> QED
    BY <1>5, <2>1, BarKeepsPosition, AllStayKept
<1>6. CASE PsarExit
  <2>1. PICK reply \in {"psar_trail", "psar_trail_est"} :
           CloseTrade(st[p].open_trade_id, reply) /\ UNCHANGED ledger
    BY <1>6 DEF PsarExit
  <2>2. Len(trades') = Len(trades)
    BY <1>a, <2>1, CloseAsFacts DEF CloseTrade, IsOpen
  <2> QED
    BY <1>6, <2>1, <2>2, BarKeepsPosition, AllStayKept
<1>7. CASE \E d \in Dirs : EntrySignal(d)
  <2>1. PICK d \in Dirs : EntrySignal(d)
    BY <1>7
  <2>2. st[p].open_trade_id = None
    BY <1>a, <2>1 DEF EntrySignal, KInv, IInv, Tracking, Tracks
  <2>3. UNCHANGED <<trades, ledger>> /\ \A q \in Pairs : q # p => st'[q] = st[q]
    BY <1>a, <2>1 DEF EntrySignal
  <2> QED
    BY <2>2, <2>3, AllStayKept
<1>8. CASE OrderFilled
  <2>1. PICK id \in 0..MaxTrades :
           Executed(p, want, id) /\ st' = [st EXCEPT ![p] = Entered(@, want, id)]
    BY <1>8 DEF OrderFilled
  <2>2. pc = "order" /\ want \in Dirs /\ st[p].pos_dir = 0 /\ UNCHANGED ledger
    BY <1>8 DEF OrderFilled, KInv, IInv, TypeOK
  <2>3. id = Len(trades) + 1 /\ Len(trades') = id
    BY <2>1, <2>2, FillOpens
  <2>4. st[p].open_trade_id = None
    BY <1>a, <2>2 DEF KInv, IInv, Tracking, Tracks
  <2>5. st'[p].open_trade_id = id /\ \A q \in Pairs : q # p => st'[q] = st[q]
    <3>1. Entered(st[p], want, id).open_trade_id = id
      BY <1>a, <2>2, EnteredFacts
    <3> QED
      BY <1>a, <2>1, <3>1
  <2>6. ASSUME NEW t \in 1..Len(trades')
        PROVE  (\E q \in Pairs : st'[q].open_trade_id = t) \/ (\E r \in OwnRows' : r.trade = t)
    <3>1. CASE t = id
      BY <1>a, <2>5, <3>1
    <3>2. CASE t # id
      <4>1. t \in 1..Len(trades)
        BY <2>3, <3>2, KFacts
      <4> QED
        BY <2>2, <2>4, <2>5, <4>1, StaysKept
    <3> QED
      BY <3>1, <3>2
  <2> QED
    BY <2>6 DEF Kept
<1>9. CASE BrokerStep
  <2>1. PICK t \in 1..Len(trades) : BracketClose(t)
    BY <1>9 DEF BrokerStep, KInv
  <2>2. Len(trades') = Len(trades) /\ UNCHANGED <<ledger, st>>
    BY <1>a, <2>1, CloseAsFacts DEF BracketClose, deskVars
  <2> QED
    BY <2>2, AllStayKept
<1>10. CASE Crash
  BY <1>10 DEF Crash, QuietRun, KInv, IInv, TypeOK
<1> QED
  BY <1>1, <1>2, <1>3, <1>4, <1>5, <1>6, <1>7, <1>8, <1>9, <1>10 DEF Next, DeskStep

\* The start comes once, before the first trade; an order meets a flat account; a
\* position has its trade; a reconcile that finds it gone finds it closed.
LEMMA StagesStep ==
    ASSUME QuietRun, KInv, [Next]_vars
    PROVE  Booting' /\ Clear' /\ Held' /\ Gone'
<1>a. /\ st \in [Pairs -> PairState] /\ p \in Pairs /\ trades \in Seq(Trade)
      /\ Booting /\ Clear /\ Held /\ Gone /\ Tracking
  BY KFacts DEF KInv, IInv
<1>b. ASSUME pc' \notin {"warmup", "startup", "order", "details", "reverify"}
      PROVE  Booting' /\ Clear' /\ Gone'
  BY <1>b DEF Booting, Clear, Gone
<1>c. ASSUME UNCHANGED st PROVE Held'
  BY <1>a, <1>c DEF Held
<1>1. CASE Warmup \/ StartupAdoption
  <2>1. trades = <<>> /\ trades' = <<>> /\ OpenOn(p) = {}
    BY <1>1, <1>a DEF Warmup, StartupAdoption, Booting, OpenOn
  <2>2. UNCHANGED st
    <3>1. \A seen \in Reads(p) : seen = {}
      BY <2>1 DEF Reads
    <3> QED
      BY <1>1, <3>1 DEF Warmup, StartupAdoption
  <2>3. pc' \in {"warmup", "startup", "reconcile"}
    BY <1>1 DEF Warmup, StartupAdoption, NextPair
  <2> QED
    BY <1>c, <2>1, <2>2, <2>3 DEF Booting, Clear, Gone
<1>2. CASE Reconcile
  <2>1. UNCHANGED <<trades, st>> /\ p' = p /\ pc' \in {"poll", "details"}
    BY <1>2 DEF Reconcile, GoTo, p
  <2>2. CASE pc' = "details"
    <3>1. PICK seen \in Reads(p) : OpenTradesRead(p, seen) /\ st[p].open_trade_id \notin seen
      BY <1>2, <2>2 DEF Reconcile, GoTo
    <3>2. st[p].open_trade_id \notin OpenOn(p)
      BY <3>1, ExactRead
    <3>3. st[p].open_trade_id # None
      BY <1>2, <1>a, <2>2 DEF Reconcile, GoTo, Held
    <3>4. ~IsOpen(st[p].open_trade_id)
      BY <1>a, <3>2, <3>3 DEF Tracking, Tracks, IsOpen, OpenOn
    <3> QED
      BY <1>c, <2>1, <2>2, <3>3, <3>4 DEF Booting, Clear, Gone, IsOpen
  <2>3. CASE pc' = "poll"
    BY <1>b, <1>c, <2>1, <2>3
  <2> QED
    BY <2>1, <2>2, <2>3
<1>3. CASE Details
  <2>1. \E reason \in {st[p].pending, "closed_broker"} : Conclude(reason)
    <3>1. st[p].open_trade_id # None /\ Priced(st[p].open_trade_id) /\ "details" \notin Faults
      BY <1>3, <1>a DEF Details, Gone, QuietRun, Priced
    <3> QED
      BY <1>3, <3>1 DEF Details
  <2>2. pc' = "poll" /\ st' = [st EXCEPT ![p] = Reset(@)]
    BY <2>1 DEF Conclude, GoTo
  <2>3. st'[p].pos_dir = 0 /\ \A q \in Pairs : q # p => st'[q] = st[q]
    BY <1>a, <2>2, ResetFacts
  <2>4. Held'
    BY <1>a, <2>3 DEF Held
  <2> QED
    BY <1>b, <2>2, <2>4
<1>4. CASE Reverify
  BY <1>4, <1>a DEF Reverify, Gone
<1>5. CASE Poll \/ BarsDone \/ OrderRefused
  <2>1. UNCHANGED st /\ pc' \in {"bars", "reconcile"}
    BY <1>5 DEF Poll, BarsDone, OrderRefused, OrderDone, GoTo, NextPair
  <2> QED
    BY <1>b, <1>c, <2>1
<1>6. CASE QuietBar \/ PsarExit
  <2>1. pc' = "bars"
    BY <1>6 DEF QuietBar, PsarExit, NewBar
  <2>2. Held'
    BY <1>6, <1>a, BarKeepsPosition DEF Held
  <2> QED
    BY <1>b, <2>1, <2>2
<1>7. CASE \E d \in Dirs : EntrySignal(d)
  <2>1. PICK d \in Dirs : EntrySignal(d)
    BY <1>7
  <2>2. PICK seen \in Reads(p) :
          /\ OpenTradesRead(p, seen)
          /\ \/ \E t \in seen : st' = [st EXCEPT ![p] = GuardAdopted(st[p], t)] /\ UNCHANGED pc
             \/ seen = {} /\ pc' = "order" /\ UNCHANGED st
    BY <2>1 DEF EntrySignal
  <2>3. seen = OpenOn(p) /\ UNCHANGED trades /\ p' = p /\ pc = "bars"
    BY <2>1, <2>2, ExactRead DEF EntrySignal, NewBar, p
  <2>4. CASE seen = {} /\ pc' = "order" /\ UNCHANGED st
    BY <1>c, <2>3, <2>4 DEF Booting, Clear, Gone, OpenOn
  <2>5. CASE \E t \in seen : st' = [st EXCEPT ![p] = GuardAdopted(st[p], t)] /\ UNCHANGED pc
    <3>1. PICK t \in seen : st' = [st EXCEPT ![p] = GuardAdopted(st[p], t)]
      BY <2>5
    <3>2. GuardAdopted(st[p], t).open_trade_id # None
      BY <1>a, <2>3, AdoptedFacts DEF OpenOn
    <3>3. Held'
      BY <1>a, <3>1, <3>2 DEF Held
    <3> QED
      BY <1>b, <2>3, <2>5, <3>3
  <2> QED
    BY <2>2, <2>4, <2>5
<1>8. CASE OrderFilled
  <2>1. PICK id \in 0..MaxTrades :
           Executed(p, want, id) /\ st' = [st EXCEPT ![p] = Entered(@, want, id)]
    BY <1>8 DEF OrderFilled
  <2>2. pc = "order" /\ want \in Dirs /\ pc' = "bars"
    BY <1>8 DEF OrderFilled, OrderDone, GoTo, KInv, IInv, TypeOK
  <2>3. id # None
    BY <2>1, <2>2, FillOpens
  <2>4. st'[p].open_trade_id # None /\ \A q \in Pairs : q # p => st'[q] = st[q]
    BY <1>a, <2>1, <2>2, <2>3, EnteredFacts
  <2> QED
    BY <1>a, <1>b, <2>2, <2>4 DEF Held
<1>9. CASE OrderRetry
  <2>1. UNCHANGED <<trades, st>> /\ (pc' = "bars" \/ (pc' = "order" /\ pc = "order" /\ p' = p))
    BY <1>9 DEF OrderRetry, OrderDone, GoTo, p
  <2>2. CASE pc' = "order" /\ pc = "order" /\ p' = p
    BY <1>a, <1>c, <2>1, <2>2 DEF Booting, Clear, Gone, OpenOn
  <2> QED
    BY <1>b, <1>c, <2>1, <2>2
<1>10. CASE BrokerStep
  <2>1. PICK t \in 1..Len(trades) : BracketClose(t)
    BY <1>10 DEF BrokerStep, KInv
  <2>2. UNCHANGED <<pc, st>> /\ p' = p /\ trades # <<>>
    BY <2>1 DEF BracketClose, deskVars, p
  <2>3. /\ Len(trades') = Len(trades)
        /\ \A u \in 1..Len(trades) : /\ trades[u].closer # "-" => trades'[u].closer # "-"
                                     /\ trades'[u].pair = trades[u].pair
    BY <1>a, <2>1, CloseAsFacts DEF BracketClose, IsOpen
  <2>4. ASSUME NEW q \in Pairs, q = p, pc' = "order"
        PROVE  OpenOn(q)' = {}
    <3>1. OpenOn(q) = {}
      BY <1>a, <2>2, <2>4 DEF Clear
    <3> QED
      BY <2>3, <3>1 DEF OpenOn
  <2>5. \A id : ~IsOpen(id) => ~IsOpen(id)'
    BY <2>3 DEF IsOpen
  <2>6. Booting' /\ Clear'
    BY <1>a, <2>2, <2>4 DEF Booting, Clear
  <2>7. Gone'
    BY <1>a, <2>2, <2>5 DEF Gone, IsOpen
  <2> QED
    BY <1>c, <2>2, <2>6, <2>7
<1>11. CASE Crash
  BY <1>11 DEF Crash, QuietRun, KInv, IInv, TypeOK
<1>12. CASE UNCHANGED vars
  <2>1. UNCHANGED <<trades, st, pc>> /\ p' = p
    BY <1>12 DEF vars, brokerVars, deskVars, p
  <2> QED
    BY <1>a, <1>c, <2>1 DEF Booting, Clear, Gone, OpenOn, IsOpen
<1> QED
  BY <1>1, <1>2, <1>3, <1>4, <1>5, <1>6, <1>7, <1>8, <1>9, <1>10, <1>11, <1>12 DEF Next, DeskStep

\* No step takes a pair's entry time away: only a fill sets it, and the desk has nothing
\* to adopt that it does not know.
LEMMA TimedStep ==
    ASSUME QuietRun, KInv, [Next]_vars
    PROVE  Timed'
<1>a. /\ st \in [Pairs -> PairState] /\ p \in Pairs /\ trades \in Seq(Trade) /\ Timed
      /\ Len(trades) \in Nat /\ \A t \in 1..Len(trades) : trades[t].pair \in Pairs
  <2>1. /\ st \in [Pairs -> PairState] /\ p \in Pairs /\ trades \in Seq(Trade) /\ Timed
        /\ Len(trades) \in Nat
    BY KFacts DEF KInv
  <2>2. ASSUME NEW t \in 1..Len(trades) PROVE trades[t].pair \in Pairs
    <3>1. trades[t] \in Trade
      BY <2>1, ElementOfSeq
    <3> QED
      BY <3>1 DEF Trade
  <2> QED
    BY <2>1, <2>2
<1>b. ASSUME Len(trades') = Len(trades),
             \A t \in 1..Len(trades) : trades'[t].pair = trades[t].pair,
             \A q \in Pairs : st'[q].entry_time = st[q].entry_time
      PROVE  Timed'
  BY <1>a, <1>b DEF Timed
<1>1. CASE Warmup \/ StartupAdoption
  <2>1. trades' = <<>>
    BY <1>1 DEF Warmup, StartupAdoption, KInv, Booting
  <2> QED
    BY <2>1 DEF Timed
<1>2. CASE Reconcile \/ Poll \/ BarsDone \/ OrderRefused \/ OrderRetry \/ UNCHANGED vars
  <2>1. UNCHANGED <<trades, st>>
    BY <1>2 DEF Reconcile, Poll, BarsDone, OrderRefused, OrderRetry, brokerVars, deskVars, vars
  <2> QED
    BY <1>b, <2>1
<1>3. CASE Details
  <2>1. UNCHANGED trades /\ (UNCHANGED st \/ st' = [st EXCEPT ![p] = Reset(@)])
    BY <1>3 DEF Details, Conclude
  <2>2. Reset(st[p]) \in PairState /\ Reset(st[p]).entry_time = st[p].entry_time
    <3> DEFINE s == st[p]
    <3>1. s \in PairState
      BY <1>a
    <3> HIDE DEF s
    <3>2. Reset(s) \in PairState /\ Reset(s).entry_time = s.entry_time
      BY <3>1 DEF Reset, PairState, None
    <3> QED
      BY <3>2 DEF s
  <2>3. \A q \in Pairs : st'[q].entry_time = st[q].entry_time
    BY <1>a, <2>1, <2>2, StoreFacts
  <2> QED
    BY <1>b, <2>1, <2>3
<1>4. CASE Reverify
  BY <1>4 DEF Reverify, KInv, Gone
<1>5. CASE QuietBar \/ PsarExit
  <2>1. \A q \in Pairs : st'[q].entry_time = st[q].entry_time
    BY <1>5, BarKeepsPosition
  <2>2. /\ Len(trades') = Len(trades)
        /\ \A t \in 1..Len(trades) : trades'[t].pair = trades[t].pair
    BY <1>5, <1>a, CloseAsFacts DEF QuietBar, PsarExit, CloseTrade, IsOpen, brokerVars
  <2> QED
    BY <1>b, <2>1, <2>2
<1>6. CASE \E d \in Dirs : EntrySignal(d)
  <2>1. PICK d \in Dirs : EntrySignal(d)
    BY <1>6
  <2>2. UNCHANGED trades
    BY <2>1 DEF EntrySignal
  <2>3. UNCHANGED st \/ \E t \in 1..Len(trades) : st' = [st EXCEPT ![p] = GuardAdopted(st[p], t)]
    BY <1>a, <2>1, ExactRead DEF EntrySignal, OpenOn
  <2>4. \A t \in 1..Len(trades) : /\ GuardAdopted(st[p], t) \in PairState
                                 /\ GuardAdopted(st[p], t).entry_time = st[p].entry_time
    <3>1. ASSUME NEW t \in 1..Len(trades), NEW dir, NEW px
          PROVE  [st[p] EXCEPT !.pos_dir = dir, !.open_trade_id = t, !.entry_px = px].entry_time
                     = st[p].entry_time
      BY <1>a DEF PairState
    <3>2. ASSUME NEW t \in 1..Len(trades)
          PROVE  GuardAdopted(st[p], t).entry_time = st[p].entry_time
      BY <3>1 DEF GuardAdopted
    <3>3. ASSUME NEW t \in 1..Len(trades)
          PROVE  GuardAdopted(st[p], t) \in PairState
      BY <1>a, AdoptedFacts
    <3> QED
      BY <3>2, <3>3
  <2>5. \A q \in Pairs : st'[q].entry_time = st[q].entry_time
    BY <1>a, <2>3, <2>4, StoreFacts
  <2> QED
    BY <1>b, <2>2, <2>5
<1>7. CASE OrderFilled
  <2>1. PICK id \in 0..MaxTrades :
           Executed(p, want, id) /\ st' = [st EXCEPT ![p] = Entered(@, want, id)]
    BY <1>7 DEF OrderFilled
  <2>2. pc = "order" /\ want \in Dirs
    BY <1>7 DEF OrderFilled, KInv, IInv, TypeOK
  <2>3. id = Len(trades) + 1 /\ Len(trades') = id /\ id # None
    BY <2>1, <2>2, FillOpens
  <2>4. /\ trades'[id].pair = p
        /\ \A t \in 1..Len(trades) : trades'[t].pair = trades[t].pair
    BY <1>a, <2>1, <2>2, <2>3, ExecutedFacts DEF Grows
  <2>5. /\ Entered(st[p], want, id) \in PairState
        /\ Entered(st[p], want, id).entry_time # None
    <3>1. st[p] \in PairState /\ id \in Nat
      BY <1>a, <2>1
    <3>2. Entered(st[p], want, id).entry_time = id
      BY <2>3, <3>1 DEF Entered, PairState
    <3> QED
      BY <2>2, <2>3, <3>1, <3>2, EnteredFacts
  <2>6. st'[p].entry_time # None /\ \A q \in Pairs : q # p => st'[q] = st[q]
    BY <1>a, <2>1, <2>5, StoreFacts
  <2>7. ASSUME NEW t \in 1..Len(trades')
        PROVE  st'[trades'[t].pair].entry_time # None
    BY <1>a, <2>3, <2>4, <2>6 DEF Timed
  <2> QED
    BY <2>7 DEF Timed
<1>8. CASE BrokerStep
  <2>1. PICK t \in 1..Len(trades) : BracketClose(t)
    BY <1>8 DEF BrokerStep, KInv
  <2> QED
    BY <1>a, <1>b, <2>1, CloseAsFacts DEF BracketClose, deskVars
<1>9. CASE Crash
  BY <1>9 DEF Crash, QuietRun, KInv, IInv, TypeOK
<1> QED
  BY <1>1, <1>2, <1>3, <1>4, <1>5, <1>6, <1>7, <1>8, <1>9 DEF Next, DeskStep

\* While the process lives and what it asks is answered, no close is lost: whatever
\* the number of pairs, bars and trades, and however the broker's closes, PSAR exits
\* with an estimated fill and refused orders interleave.
THEOREM NoCloseIsLost ==
    ASSUME QuietRun
    PROVE  Spec => []NothingUnrecorded
<1>1. Init => KInv
  <2> SUFFICES ASSUME Init PROVE KInv
    OBVIOUS
  <2>1. IInv
    BY InitIInv
  <2>2. st = [q \in Pairs |-> Flat] /\ trades = <<>> /\ pc = "warmup" /\ inflight = {}
    BY DEF Init
  <2>3. Held
    BY <2>2 DEF Held, Flat
  <2> QED
    BY <2>1, <2>2, <2>3 DEF KInv, Kept, Booting, Clear, Gone, Timed
<1>2. KInv /\ [Next]_vars => KInv'
  <2> SUFFICES ASSUME KInv, [Next]_vars PROVE KInv'
    OBVIOUS
  <2>1. IInv'
    BY NextIInv DEF KInv
  <2> QED
    BY <2>1, InflightStays, KeptStep, StagesStep, TimedStep DEF KInv
<1>3. KInv => NothingUnrecorded
  BY DEF KInv, Kept, NothingUnrecorded
<1> QED
  BY <1>1, <1>2, <1>3, PTL DEF Spec
=============================================================================
