---------------------------- MODULE NeatDeskProofs ----------------------------
(***************************************************************************)
(* Theorems about NeatDesk and TradeWriter: any pairs, modes and faults,   *)
(* any high-water mark of the sockets, any number of trades and restarts.  *)
(***************************************************************************)
EXTENDS NeatDesk, SequenceTheorems, FiniteSetTheorems, TLAPS

NTrade == [pair : Pairs, dir : {-1, 1}, closer : {"-", "desk", "broker", "net"}, trail : BOOLEAN]

Recs == [trade_id : Nat, pair : Pairs, dir : {-1, 0, 1}, entry : Nat,
         px : {"broker", "mid"}, by : {"desk", "broker"}]

\* A task of a handler that is about a pair.
Tasks == [op : Ops \ {"adopt"}, pair : Pairs, dir : {-1, 0, 1},
          by : {"-", "desk", "broker"}, px : {"-", "broker", "mid"}]

-----------------------------------------------------------------------------
(* Sequences.                                                               *)

LEMMA ToSetAppend ==
    ASSUME NEW S, NEW s \in Seq(S), NEW e \in S
    PROVE  ToSet(Append(s, e)) = ToSet(s) \cup {e}
<1> DEFINE t == Append(s, e)
<1>1. /\ t \in Seq(S) /\ Len(t) = Len(s) + 1 /\ t[Len(s) + 1] = e
      /\ \A i \in 1..Len(s) : t[i] = s[i]
  BY AppendProperties
<1> HIDE DEF t
<1>2. Len(s) \in Nat /\ DOMAIN s = 1..Len(s) /\ DOMAIN t = 1..Len(t)
  BY <1>1, LenProperties
<1>3. ToSet(t) \subseteq ToSet(s) \cup {e}
  BY <1>1, <1>2 DEF ToSet
<1>4. ToSet(s) \cup {e} \subseteq ToSet(t)
  <2>1. \A i \in 1..Len(s) : i \in 1..Len(t)
    BY <1>1, <1>2
  <2>2. Len(s) + 1 \in 1..Len(t)
    BY <1>1, <1>2
  <2> QED
    BY <1>1, <1>2, <2>1, <2>2 DEF ToSet
<1> QED
  BY <1>3, <1>4 DEF t

LEMMA ToSetTail ==
    ASSUME NEW S, NEW s \in Seq(S), s # <<>>
    PROVE  /\ ToSet(s) = {s[1]} \cup ToSet(Tail(s)) /\ Head(s) = s[1] /\ s[1] \in S
           /\ Tail(s) \in Seq(S) /\ Len(Tail(s)) = Len(s) - 1 /\ Len(s) \in Nat \ {0}
<1> DEFINE t == Tail(s)
<1>1. /\ t \in Seq(S) /\ Len(t) = Len(s) - 1 /\ \A i \in 1..Len(t) : t[i] = s[i + 1]
      /\ Len(s) \in Nat \ {0} /\ Head(s) = s[1]
  BY HeadTailProperties, EmptySeq
<1> HIDE DEF t
<1>2. DOMAIN s = 1..Len(s) /\ DOMAIN t = 1..Len(t) /\ s[1] \in S
  BY <1>1, LenProperties, ElementOfSeq
<1>3. ToSet(s) \subseteq {s[1]} \cup ToSet(t)
  <2>1. ASSUME NEW i \in 1..Len(s) PROVE s[i] \in {s[1]} \cup ToSet(t)
    <3>1. CASE i = 1
      BY <3>1
    <3>2. CASE i # 1
      <4>1. i - 1 \in 1..Len(t) /\ t[i - 1] = s[i]
        BY <1>1, <3>2
      <4> QED
        BY <1>2, <4>1 DEF ToSet
    <3> QED
      BY <3>1, <3>2
  <2> QED
    BY <1>2, <2>1 DEF ToSet
<1>4. {s[1]} \cup ToSet(t) \subseteq ToSet(s)
  <2>1. \A i \in 1..Len(t) : i + 1 \in 1..Len(s)
    BY <1>1
  <2>2. 1 \in 1..Len(s)
    BY <1>1
  <2> QED
    BY <1>1, <1>2, <2>1, <2>2 DEF ToSet
<1> QED
  BY <1>1, <1>2, <1>3, <1>4 DEF t

LEMMA ToSetEmpty == ToSet(<<>>) = {}
<1>1. DOMAIN <<>> = {}
  OBVIOUS
<1> QED
  BY <1>1 DEF ToSet

LEMMA ToSetIn == ASSUME NEW S, NEW s \in Seq(S) PROVE ToSet(s) \subseteq S
<1>1. DOMAIN s = 1..Len(s)
  BY LenProperties
<1> QED
  BY <1>1, ElementOfSeq DEF ToSet

\* The head task is replaced by what it leads to; the others move up.
LEMMA ThenFacts ==
    ASSUME NEW s \in Seq(Tasks), s # <<>>, NEW more \in Seq(Tasks)
    PROVE  LET t == more \o Tail(s)
           IN  /\ t \in Seq(Tasks) /\ Len(t) = Len(more) + Len(s) - 1
               /\ Len(s) \in Nat \ {0} /\ Len(more) \in Nat
               /\ \A i \in 1..Len(more) : t[i] = more[i]
               /\ \A i \in 1..(Len(s) - 1) : t[Len(more) + i] = s[i + 1]
<1> DEFINE rest == Tail(s)
           t    == more \o rest
<1>1. /\ rest \in Seq(Tasks) /\ Len(rest) = Len(s) - 1 /\ Len(s) \in Nat \ {0}
      /\ \A i \in 1..Len(rest) : rest[i] = s[i + 1]
  BY HeadTailProperties, EmptySeq
<1> HIDE DEF rest
<1>2. Len(more) \in Nat /\ Len(rest) \in Nat
  BY <1>1, LenProperties
<1>3. /\ t \in Seq(Tasks) /\ Len(t) = Len(more) + Len(rest)
      /\ \A i \in 1..(Len(more) + Len(rest)) :
            t[i] = IF i <= Len(more) THEN more[i] ELSE rest[i - Len(more)]
  BY <1>1, ConcatProperties
<1> HIDE DEF t
<1>4. \A i \in 1..Len(more) : t[i] = more[i]
  BY <1>2, <1>3
<1>5. ASSUME NEW i \in 1..Len(rest) PROVE t[Len(more) + i] = rest[i]
  <2>1. Len(more) + i \in 1..(Len(more) + Len(rest)) /\ ~(Len(more) + i <= Len(more))
        /\ (Len(more) + i) - Len(more) = i
    BY <1>2
  <2> QED
    BY <1>3, <2>1
<1> QED
  BY <1>1, <1>2, <1>3, <1>4, <1>5 DEF t, rest

\* One task for each pair of the set, in some order.
LEMMA ForEachFacts ==
    ASSUME NEW op \in Ops \ {"adopt"}, NEW ps, ps \subseteq Pairs
    PROVE  LET f == ForEach(op, ps)
           IN  /\ f \in Seq(Tasks) /\ Len(f) \in Nat
               /\ \A i \in 1..Len(f) : f[i].op = op /\ f[i].pair \in ps
               /\ \A i, j \in 1..Len(f) : i # j => f[i].pair # f[j].pair
<1> DEFINE k == Cardinality(ps)
           q == SetToSeq(ps)
           f == [i \in 1..Len(q) |-> Task(op, q[i])]
<1>1. k \in Nat /\ ExistsBijection(1..k, ps)
  BY NeatAssumption, FS_Subset, FS_CardinalityType
<1>2. \E g \in [1..k -> ps] : IsInjective(g)
  BY <1>1 DEF ExistsBijection, Bijection, Injection, IsInjective
<1>3. q \in [1..k -> ps] /\ IsInjective(q)
  BY <1>2 DEF SetToSeq
<1> HIDE DEF q, k
<1>4. q \in Seq(ps) /\ Len(q) = k
  BY <1>1, <1>3, IsASeq
<1>5. \A i \in 1..k : q[i] \in Pairs /\ q[i] \in ps
  BY <1>3
<1>6. \A i \in 1..k : Task(op, q[i]) \in Tasks
  BY <1>5 DEF Task, Tasks
<1>7. f \in [1..k -> Tasks] /\ f = ForEach(op, ps)
  BY <1>4, <1>6 DEF ForEach, q
<1>8. \A i \in 1..k : f[i].op = op /\ f[i].pair = q[i]
  BY <1>4 DEF Task
<1> HIDE DEF f
<1>9. f \in Seq(Tasks) /\ Len(f) = k
  BY <1>1, <1>7
<1>10. \A i, j \in 1..k : i # j => q[i] # q[j]
  BY <1>3 DEF IsInjective
<1> QED
  BY <1>1, <1>5, <1>7, <1>8, <1>9, <1>10

-----------------------------------------------------------------------------
(* The invariant.                                                           *)

WriterOK ==
    /\ out \in Seq(Recs) /\ inbox \in Seq(Recs) /\ rows \subseteq Recs
    /\ Len(out) <= Hwm /\ Len(inbox) <= Hwm

\* What the history of failures may say: which trade, at which failure.
Noted == (1..Len(trades)) \X Nat

Types ==
    /\ trades \in Seq(NTrade)
    /\ inflight \subseteq [pair : Pairs, dir : {-1, 1}, n : Nat]
    /\ st \in [Pairs -> PairState] /\ mode \in Modes /\ bound \in BOOLEAN
    /\ held \subseteq 1..Len(trades) /\ adopted \subseteq held /\ excused \subseteq Noted
    /\ failed \in 0..MaxFailed /\ restarts \in 0..MaxRestarts
    /\ foreign \subseteq OtherIds /\ lost \subseteq 1..Len(trades)
    /\ WriterOK

\* What a record of the task would say of its exit is true.
Justified(task) ==
    /\ task.by \in {"desk", "broker"} /\ task.px \in {"broker", "mid"}
    /\ task.px = "broker" =>
         IF task.by = "broker" THEN trades[st[task.pair].tid].closer \in {"broker", "net"}
                               ELSE trades[st[task.pair].tid].closer = "desk"

\* A handler's rest: an order stands alone or behind the close that makes its pair
\* flat; a record is about to be sent only at its head; details are asked of held
\* pairs, each once.
Agenda ==
    \A i \in 1..Len(todo) :
        /\ todo[i].op = "order" =>
             /\ todo[i].dir # 0
             /\ \/ i = 1 /\ ~Held(todo[i].pair)
                \/ i = 2 /\ todo[1].op \in {"close", "send"} /\ todo[1].pair = todo[2].pair
        /\ todo[i].op = "send" => i = 1 /\ Held(todo[i].pair) /\ Justified(todo[i])
        /\ todo[i].op = "details" =>
             /\ Held(todo[i].pair)
             /\ \A j \in 1..(i - 1) :
                  todo[j].op \in {"details", "send"} /\ todo[j].pair # todo[i].pair

\* Before the adoption there is nothing but an empty desk.
Stage == \/ todo = Booting /\ st = AllFlat
         \/ todo \in Seq(Tasks) /\ Agenda

\* Only an adopted trade's open_time has no offset.
Naive == \A p \in Pairs : Held(p) /\ st[p].time = "naive" => st[p].tid \in adopted

\* A trade the desk closed is forgotten before anything else happens.
Settled ==
    \A p \in Pairs : Held(p) /\ trades[st[p].tid].closer = "desk" =>
        todo # <<>> /\ todo[1].op = "send" /\ todo[1].pair = p

NInv == Types /\ DeskTracks /\ Stage /\ Naive /\ Settled /\ RecordsTruthful /\ NothingUnrecorded

\* The facts of Types that the steps need.
LEMMA NFacts ==
    ASSUME NInv
    PROVE  /\ trades \in Seq(NTrade) /\ Len(trades) \in Nat
           /\ out \in Seq(Recs) /\ inbox \in Seq(Recs) /\ rows \subseteq Recs
           /\ Records \subseteq Recs /\ None \notin 1..Len(trades)
           /\ st \in [Pairs -> PairState]
           /\ \A p \in Pairs : /\ st[p] \in PairState /\ st[p].tid \in Nat
                               /\ st[p].dir \in {-1, 0, 1} /\ st[p].entry \in Nat
<1>1. trades \in Seq(NTrade) /\ out \in Seq(Recs) /\ inbox \in Seq(Recs) /\ rows \subseteq Recs
      /\ st \in [Pairs -> PairState]
  BY DEF NInv, Types, WriterOK
<1>2. Len(trades) \in Nat
  BY <1>1, LenProperties
<1>3. Records \subseteq Recs
  BY <1>1, ToSetIn DEF Records
<1>4. None \notin 1..Len(trades)
  BY <1>2 DEF None
<1>5. \A p \in Pairs : /\ st[p] \in PairState /\ st[p].tid \in Nat
                       /\ st[p].dir \in {-1, 0, 1} /\ st[p].entry \in Nat
  BY <1>1 DEF PairState
<1> QED
  BY <1>1, <1>2, <1>3, <1>4, <1>5

\* A handler at work: its tasks, and the one it does.
LEMMA DoingFacts ==
    ASSUME NInv, NEW op \in Ops \ {"adopt"}, Doing(op)
    PROVE  /\ todo \in Seq(Tasks) /\ Agenda /\ todo # <<>> /\ Len(todo) \in Nat \ {0}
           /\ todo[1] \in Tasks /\ Head(todo) = todo[1] /\ todo[1].op = op /\ todo[1].pair \in Pairs
<1>1. todo # Booting
  <2>1. Head(Booting).op = "adopt"
    BY DEF Booting
  <2> QED
    BY <2>1 DEF Doing
<1>2. todo \in Seq(Tasks) /\ Agenda /\ todo # <<>>
  BY <1>1 DEF NInv, Stage, Doing
<1>3. Len(todo) \in Nat \ {0} /\ Head(todo) = todo[1] /\ todo[1] \in Tasks
  BY <1>2, ToSetTail
<1> QED
  BY <1>2, <1>3 DEF Doing, Tasks

LEMMA IdleFacts == ASSUME NInv, todo = <<>> PROVE todo \in Seq(Tasks) /\ Agenda
<1>1. Booting # <<>>
  BY DEF Booting
<1> QED
  BY <1>1 DEF NInv, Stage

LEMMA InitNInv == Init => NInv
<1> SUFFICES ASSUME Init PROVE NInv
  OBVIOUS
<1>1. /\ trades = <<>> /\ inflight = {} /\ st = AllFlat /\ todo = Booting /\ mode \in Modes
      /\ bound = FALSE /\ held = {} /\ adopted = {} /\ excused = {} /\ failed = 0 /\ restarts = 0
      /\ out = <<>> /\ inbox = <<>> /\ rows = {} /\ foreign = {} /\ lost = {}
  BY DEF Init, WriterInit
<1>2. Flat \in PairState
  BY DEF Flat, PairState, None
<1>3. st \in [Pairs -> PairState] /\ \A p \in Pairs : st[p] = Flat
  BY <1>1, <1>2 DEF AllFlat
<1>4. trades \in Seq(NTrade) /\ out \in Seq(Recs) /\ inbox \in Seq(Recs) /\ Len(out) = 0 /\ Len(inbox) = 0
  BY <1>1, EmptySeq
<1>5. Types
  <2>1. mode \in Modes /\ bound \in BOOLEAN /\ held = {} /\ adopted = {} /\ excused = {}
        /\ foreign = {} /\ lost = {}
    BY <1>1
  <2>2. failed \in 0..MaxFailed /\ restarts \in 0..MaxRestarts
    BY <1>1, NeatAssumption
  <2>3. WriterOK
    BY <1>1, <1>4, WriterAssumption DEF WriterOK
  <2> QED
    BY <1>1, <1>3, <1>4, <2>1, <2>2, <2>3 DEF Types
<1>6. DeskTracks /\ Naive /\ Settled
  BY <1>3 DEF DeskTracks, Naive, Settled, Held, Flat, None
<1>7. Records = {}
  BY <1>1, ToSetEmpty DEF Records
<1>8. RecordsTruthful /\ NothingUnrecorded
  BY <1>1, <1>7 DEF RecordsTruthful, NothingUnrecorded
<1> QED
  BY <1>1, <1>5, <1>6, <1>8 DEF NInv, Stage

-----------------------------------------------------------------------------
(* What steps leave as it was.                                              *)

\* The broker opens trades, ends them once, and never takes a trailing stop back.
Grows ==
    /\ trades' \in Seq(NTrade) /\ Len(trades') \in Nat /\ Len(trades) <= Len(trades')
    /\ \A t \in 1..Len(trades) :
         /\ trades'[t].pair = trades[t].pair /\ trades'[t].dir = trades[t].dir
         /\ trades[t].trail => trades'[t].trail
         /\ trades[t].closer # "-" => trades'[t].closer = trades[t].closer

\* No trade is closed by the desk.
NotByDesk == \A t \in 1..Len(trades) : trades'[t].closer = "desk" => trades[t].closer = "desk"

\* Every pair is about the trade it was about.
SameTrades ==
    /\ st' \in [Pairs -> PairState]
    /\ \A p \in Pairs :
         /\ st'[p].tid = st[p].tid /\ st'[p].dir = st[p].dir /\ st'[p].entry = st[p].entry
         /\ st'[p].time = "naive" => st[p].time = "naive"
         /\ st'[p].trail => st[p].trail \/ (Held(p) /\ trades'[st[p].tid].trail)

LEMMA StillGrows == ASSUME NInv, UNCHANGED trades PROVE Grows /\ NotByDesk
BY NFacts DEF Grows, NotByDesk

LEMMA StillSame == ASSUME NInv, UNCHANGED st PROVE SameTrades
BY NFacts DEF SameTrades

LEMMA CloseAsGrows ==
    ASSUME NInv, NEW t \in 1..Len(trades), trades[t].closer = "-",
           NEW who \in {"desk", "broker", "net"}, trades' = CloseAs(t, who)
    PROVE  /\ Grows /\ Len(trades') = Len(trades)
           /\ \A u \in 1..Len(trades) :
                trades'[u].closer = IF u = t THEN who ELSE trades[u].closer
<1>1. trades \in Seq(NTrade) /\ trades[t] \in NTrade /\ Len(trades) \in Nat
  BY NFacts, ElementOfSeq
<1> DEFINE closed == [trades[t] EXCEPT !.closer = who]
<1>2. /\ closed \in NTrade /\ closed.dir = trades[t].dir /\ closed.pair = trades[t].pair
      /\ closed.trail = trades[t].trail /\ closed.closer = who
  BY <1>1 DEF NTrade
<1>3. trades' = [trades EXCEPT ![t] = closed]
  BY DEF CloseAs
<1> HIDE DEF closed
<1>4. /\ trades' \in Seq(NTrade) /\ Len(trades') = Len(trades)
      /\ \A u \in 1..Len(trades) : trades'[u] = IF u = t THEN closed ELSE trades[u]
  BY <1>1, <1>2, <1>3, ExceptSeq
<1>5. \A u \in 1..Len(trades) :
         /\ trades'[u].pair = trades[u].pair /\ trades'[u].dir = trades[u].dir
         /\ trades'[u].trail = trades[u].trail
         /\ trades'[u].closer = IF u = t THEN who ELSE trades[u].closer
  BY <1>2, <1>4
<1> QED
  BY <1>1, <1>4, <1>5 DEF Grows

LEMMA TrailGrows ==
    ASSUME NInv, NEW t \in 1..Len(trades), trades' = [trades EXCEPT ![t].trail = TRUE]
    PROVE  Grows /\ NotByDesk /\ trades'[t].trail
<1>1. trades \in Seq(NTrade) /\ trades[t] \in NTrade /\ Len(trades) \in Nat
  BY NFacts, ElementOfSeq
<1> DEFINE set == [trades[t] EXCEPT !.trail = TRUE]
<1>2. /\ set \in NTrade /\ set.dir = trades[t].dir /\ set.pair = trades[t].pair
      /\ set.trail /\ set.closer = trades[t].closer
  BY <1>1 DEF NTrade
<1>3. trades' = [trades EXCEPT ![t] = set]
  OBVIOUS
<1> HIDE DEF set
<1> DEFINE after == [trades EXCEPT ![t] = set]
<1>4. /\ after \in Seq(NTrade) /\ Len(after) = Len(trades)
      /\ \A u \in 1..Len(trades) : after[u] = IF u = t THEN set ELSE trades[u]
  BY <1>1, <1>2, ExceptSeq
<1>5. trades' = after
  BY <1>3
<1> HIDE DEF after
<1>6. trades'[t] = set /\ \A u \in 1..Len(trades) : u # t => trades'[u] = trades[u]
  BY <1>4, <1>5
<1>7. \A u \in 1..Len(trades) : trades[u].trail => trades'[u].trail
  <2>1. ASSUME NEW u \in 1..Len(trades), trades[u].trail PROVE trades'[u].trail
    <3>1. CASE u = t
      BY <1>2, <1>6, <3>1, Zenon
    <3>2. CASE u # t
      BY <1>6, <2>1, <3>2, Zenon
    <3> QED
      BY <3>1, <3>2
  <2> QED
    BY <2>1
<1>8. \A u \in 1..Len(trades) : /\ trades'[u].pair = trades[u].pair
                                /\ trades'[u].dir = trades[u].dir
                                /\ trades'[u].closer = trades[u].closer
  BY <1>2, <1>6
<1>9. trades' \in Seq(NTrade) /\ Len(trades') = Len(trades)
  BY <1>4, <1>5
<1>10. trades'[t].trail
  BY <1>2, <1>6, Zenon
<1> QED
  BY <1>1, <1>7, <1>8, <1>9, <1>10 DEF Grows, NotByDesk

LEMMA ExecutedGrows ==
    ASSUME NInv, NEW p \in Pairs, NEW d \in {-1, 1}, NEW id \in 0..MaxTrades, Executed(p, d, id)
    PROVE  /\ Grows /\ NotByDesk
           /\ id # None => /\ id \in 1..Len(trades') /\ id \notin 1..Len(trades)
                           /\ trades'[id] = [pair |-> p, dir |-> d, closer |-> "-", trail |-> FALSE]
<1>1. trades \in Seq(NTrade) /\ Len(trades) \in Nat
  BY NFacts
<1>2. CASE \E t \in OpenTrades : trades' = CloseAs(t, "net") /\ id = None
  <2>1. PICK t \in OpenTrades : trades' = CloseAs(t, "net") /\ id = None
    BY <1>2
  <2>2. t \in 1..Len(trades) /\ trades[t].closer = "-"
    BY DEF OpenTrades
  <2> QED
    BY <2>1, <2>2, CloseAsGrows DEF NotByDesk
<1>3. CASE /\ trades' = Append(trades, [pair |-> p, dir |-> d, closer |-> "-", trail |-> FALSE])
           /\ id = Len(trades) + 1
  <2> DEFINE new == [pair |-> p, dir |-> d, closer |-> "-", trail |-> FALSE]
  <2>1. new \in NTrade
    BY DEF NTrade
  <2> HIDE DEF new
  <2>2. /\ trades' \in Seq(NTrade) /\ Len(trades') = Len(trades) + 1
        /\ trades'[Len(trades) + 1] = new
        /\ \A u \in 1..Len(trades) : trades'[u] = trades[u]
    BY <1>1, <1>3, <2>1, AppendProperties DEF new
  <2>3. Grows /\ NotByDesk
    BY <1>1, <2>2 DEF Grows, NotByDesk
  <2> QED
    BY <1>1, <1>3, <2>2, <2>3 DEF new
<1> QED
  BY <1>2, <1>3 DEF Executed

\* The sockets and the table stay as they are.
LEMMA WriterStill ==
    ASSUME NInv, UNCHANGED writerVars
    PROVE  Records' = Records /\ WriterOK' /\ lost' = lost /\ foreign' = foreign
BY DEF NInv, Types, WriterOK, writerVars, Records, ToSet

\* The records stay true while the broker's trades grow and none is added.
LEMMA RecordsKept ==
    ASSUME NInv, Grows, Records' \subseteq Records
    PROVE  RecordsTruthful'
<1>1. Len(trades) \in Nat /\ \A r \in Records : r \in Recs
  BY NFacts
<1>2. ASSUME NEW r \in Records
      PROVE  /\ r.trade_id \in 1..Len(trades') /\ r.pair = trades'[r.trade_id].pair
             /\ r.dir = trades'[r.trade_id].dir /\ r.entry = r.trade_id
             /\ r.px = "broker" =>
                  IF r.by = "broker" THEN trades'[r.trade_id].closer \in {"broker", "net"}
                                     ELSE trades'[r.trade_id].closer = "desk"
  <2>1. /\ r.trade_id \in 1..Len(trades) /\ r.pair = trades[r.trade_id].pair
        /\ r.dir = trades[r.trade_id].dir /\ r.entry = r.trade_id
        /\ r.px = "broker" =>
             IF r.by = "broker" THEN trades[r.trade_id].closer \in {"broker", "net"}
                                ELSE trades[r.trade_id].closer = "desk"
    BY DEF NInv, RecordsTruthful
  <2> DEFINE t == r.trade_id
  <2>2. t \in 1..Len(trades') /\ r.pair = trades'[t].pair /\ r.dir = trades'[t].dir
    BY <1>1, <2>1 DEF Grows
  <2>3. trades[t].closer # "-" => trades'[t].closer = trades[t].closer
    BY <2>1 DEF Grows
  <2> QED
    BY <2>1, <2>2, <2>3
<1> QED
  BY <1>2 DEF RecordsTruthful

\* Where a pair is about its old trade, it is so truly, adopted or not.
LEMMA DeskKept ==
    ASSUME NInv, Grows, SameTrades, UNCHANGED <<held, adopted, writerVars>>
    PROVE  DeskTracks' /\ Naive' /\ RecordsTruthful' /\ NothingUnrecorded'
<1>1. \A p \in Pairs : Held(p)' <=> Held(p)
  BY DEF SameTrades, Held
<1>2. DeskTracks'
  <2>1. ASSUME NEW p \in Pairs, Held(p)
        PROVE  /\ st'[p].tid \in 1..Len(trades') /\ trades'[st'[p].tid].pair = p
               /\ trades'[st'[p].tid].dir = st'[p].dir /\ st'[p].entry = st'[p].tid
               /\ st'[p].trail => trades'[st'[p].tid].trail
    <3>1. /\ st[p].tid \in 1..Len(trades) /\ trades[st[p].tid].pair = p
          /\ trades[st[p].tid].dir = st[p].dir /\ st[p].entry = st[p].tid
          /\ st[p].trail => trades[st[p].tid].trail
      BY <2>1 DEF NInv, DeskTracks
    <3>2. st[p].tid \in 1..Len(trades')
      BY <3>1, NFacts DEF Grows
    <3> QED
      BY <3>1, <3>2 DEF Grows, SameTrades
  <2>2. ASSUME NEW p \in Pairs, ~Held(p) PROVE st'[p].dir = 0 /\ ~st'[p].trail
    BY <2>2 DEF NInv, DeskTracks, SameTrades
  <2> QED
    BY <1>1, <2>1, <2>2 DEF DeskTracks
<1>3. Naive'
  BY <1>1 DEF NInv, Naive, SameTrades
<1>4. Tracked' = Tracked
  BY DEF Tracked, SameTrades
<1>5. Records' = Records /\ lost' = lost /\ foreign' = foreign
  BY WriterStill
<1>6. RecordsTruthful'
  BY <1>5, RecordsKept
<1>7. NothingUnrecorded'
  BY <1>4, <1>5 DEF NInv, NothingUnrecorded, Ids
<1> QED
  BY <1>2, <1>3, <1>6, <1>7

\* No pair waits to be settled unless a record is about to be sent.
LEMMA SettledKept ==
    ASSUME NInv, Grows, NotByDesk, SameTrades,
           UNCHANGED todo \/ todo = <<>> \/ todo[1].op # "send"
    PROVE  Settled'
<1> SUFFICES ASSUME NEW p \in Pairs, Held(p)', trades'[st'[p].tid].closer = "desk"
             PROVE  todo' # <<>> /\ todo'[1].op = "send" /\ todo'[1].pair = p
  BY DEF Settled
<1>1. st'[p].tid = st[p].tid /\ Held(p)
  BY DEF SameTrades, Held
<1>2. st[p].tid \in 1..Len(trades)
  BY <1>1 DEF NInv, DeskTracks
<1>3. trades[st[p].tid].closer = "desk"
  BY <1>1, <1>2 DEF NotByDesk
<1>4. todo # <<>> /\ todo[1].op = "send" /\ todo[1].pair = p
  BY <1>1, <1>3 DEF NInv, Settled
<1> QED
  BY <1>4

\* The histories and the counters keep their types.
LEMMA TypesKept ==
    ASSUME NInv, Grows, SameTrades, UNCHANGED <<held, adopted, mode, writerVars>>,
           inflight' \subseteq [pair : Pairs, dir : {-1, 1}, n : Nat], bound' \in BOOLEAN,
           excused' \subseteq Noted', failed' \in 0..MaxFailed, UNCHANGED restarts
    PROVE  Types'
<1>1. Len(trades) \in Nat /\ held \subseteq 1..Len(trades) /\ lost \subseteq 1..Len(trades)
      /\ adopted \subseteq held /\ mode \in Modes /\ restarts \in 0..MaxRestarts
      /\ foreign \subseteq OtherIds
  BY NFacts DEF NInv, Types
<1>2. held \subseteq 1..Len(trades') /\ lost \subseteq 1..Len(trades')
  BY <1>1 DEF Grows
<1>3. WriterOK' /\ lost' = lost /\ foreign' = foreign
  BY WriterStill
<1> QED
  BY <1>1, <1>2, <1>3 DEF Types, Grows, SameTrades

\* A handler's rest stays sound while the pairs keep their trades.
LEMMA AgendaKept ==
    ASSUME NInv, Grows, SameTrades, UNCHANGED todo, todo \in Seq(Tasks), Agenda
    PROVE  Stage'
<1>1. \A p \in Pairs : Held(p)' <=> Held(p)
  BY DEF SameTrades, Held
<1>2. \A i \in 1..Len(todo) : todo[i].pair \in Pairs
  <2>1. \A i \in 1..Len(todo) : todo[i] \in Tasks
    BY ElementOfSeq
  <2> QED
    BY <2>1 DEF Tasks
<1>3. ASSUME NEW i \in 1..Len(todo), Held(todo[i].pair), Justified(todo[i])
      PROVE  Justified(todo[i])'
  <2> DEFINE t == st[todo[i].pair].tid
  <2>1. t \in 1..Len(trades) /\ st'[todo[i].pair].tid = t
    BY <1>2, <1>3 DEF NInv, DeskTracks, SameTrades
  <2>2. trades[t].closer # "-" => trades'[t].closer = trades[t].closer
    BY <2>1 DEF Grows
  <2> QED
    BY <1>3, <2>1, <2>2 DEF Justified
<1>4. Agenda'
  BY <1>1, <1>2, <1>3 DEF Agenda
<1> QED
  BY <1>4 DEF Stage

\* Tasks other than orders, records and details.
Plain == {task \in Tasks : task.op \notin {"order", "send", "details"}}

LEMMA TaskFacts ==
    ASSUME NEW p \in Pairs
    PROVE  /\ Task("mfe", p) \in Plain /\ Task("hold", p) \in Plain /\ Task("tick", p) \in Plain
           /\ Close(p) \in Plain /\ Close(p).op = "close" /\ Close(p).pair = p
           /\ \A d \in {-1, 1} : /\ Order(p, d) \in Tasks /\ Order(p, d).op = "order"
                                 /\ Order(p, d).pair = p /\ Order(p, d).dir = d
           /\ \A by \in {"desk", "broker"}, px \in {"broker", "mid"} :
                /\ Send(p, by, px) \in Tasks /\ Send(p, by, px).op = "send"
                /\ Send(p, by, px).pair = p /\ Send(p, by, px).by = by /\ Send(p, by, px).px = px
BY DEF Task, Close, Order, Send, Plain, Tasks, Ops

\* A rest of such tasks is sound, and so is an order of a flat pair before it, or
\* behind the close of its pair.
LEMMA PlainStage == ASSUME todo' \in Seq(Plain) PROVE Stage'
<1>1. todo' \in Seq(Tasks) /\ \A i \in 1..Len(todo') : todo'[i] \in Plain
  <2>1. \A i \in 1..Len(todo') : todo'[i] \in Plain
    BY ElementOfSeq
  <2>2. Plain \subseteq Tasks
    BY DEF Plain
  <2> QED
    BY <2>1, <2>2
<1> QED
  BY <1>1 DEF Stage, Agenda, Plain

LEMMA OrderStage ==
    ASSUME NEW p \in Pairs, NEW d \in {-1, 1}, NEW rest \in Seq(Plain),
           todo' = <<Order(p, d)>> \o rest, ~Held(p)'
    PROVE  Stage'
<1> DEFINE o == Order(p, d)
<1>1. o \in Tasks /\ o.op = "order" /\ o.pair = p /\ o.dir = d
  BY TaskFacts
<1> HIDE DEF o
<1>2. <<o>> \in Seq(Tasks) /\ Len(<<o>>) = 1 /\ rest \in Seq(Tasks) /\ Len(rest) \in Nat
      /\ \A i \in 1..Len(rest) : rest[i] \in Plain
  <2>1. Plain \subseteq Tasks /\ Len(rest) \in Nat /\ \A i \in 1..Len(rest) : rest[i] \in Plain
    BY LenProperties, ElementOfSeq DEF Plain
  <2> QED
    BY <1>1, <2>1
<1>3. /\ todo' \in Seq(Tasks) /\ Len(todo') = Len(rest) + 1 /\ todo'[1] = o
      /\ \A i \in 1..Len(todo') : i # 1 => todo'[i] = rest[i - 1]
  BY <1>2, ConcatProperties DEF o
<1>4. \A i \in 1..Len(todo') : i # 1 => todo'[i] \in Plain
  <2>1. \A i \in 1..Len(todo') : i # 1 => i - 1 \in 1..Len(rest)
    BY <1>2, <1>3
  <2> QED
    BY <1>2, <1>3, <2>1
<1> QED
  BY <1>1, <1>3, <1>4 DEF Stage, Agenda, Plain

LEMMA CloseOrderStage ==
    ASSUME NEW p \in Pairs, NEW d \in {-1, 1}, NEW rest \in Seq(Plain),
           todo' = (<<Close(p)>> \o <<Order(p, d)>>) \o rest
    PROVE  Stage'
<1> DEFINE o == Order(p, d)
           c == Close(p)
<1>1. /\ o \in Tasks /\ o.op = "order" /\ o.pair = p /\ o.dir = d
      /\ c \in Plain /\ c \in Tasks /\ c.op = "close" /\ c.pair = p
  BY TaskFacts DEF Plain
<1> HIDE DEF o, c
<1> DEFINE both == <<c>> \o <<o>>
<1>2. /\ both \in Seq(Tasks) /\ Len(both) = 2 /\ both[1] = c /\ both[2] = o
      /\ rest \in Seq(Tasks) /\ Len(rest) \in Nat /\ \A i \in 1..Len(rest) : rest[i] \in Plain
  <2>1. Plain \subseteq Tasks /\ Len(rest) \in Nat /\ \A i \in 1..Len(rest) : rest[i] \in Plain
    BY LenProperties, ElementOfSeq DEF Plain
  <2>2. <<c>> \in Seq(Tasks) /\ <<o>> \in Seq(Tasks) /\ Len(<<c>>) = 1 /\ Len(<<o>>) = 1
    BY <1>1
  <2>3. /\ both \in Seq(Tasks) /\ Len(both) = 2
        /\ \A i \in 1..2 : both[i] = IF i <= 1 THEN <<c>>[i] ELSE <<o>>[i - 1]
    BY <2>2, ConcatProperties
  <2>4. both[1] = c /\ both[2] = o
    BY <2>3
  <2> QED
    BY <2>1, <2>3, <2>4
<1> HIDE DEF both
<1>3. /\ todo' \in Seq(Tasks) /\ Len(todo') = Len(rest) + 2 /\ todo'[1] = c /\ todo'[2] = o
      /\ \A i \in 1..Len(todo') : i \notin {1, 2} => todo'[i] = rest[i - 2]
  BY <1>2, ConcatProperties DEF both, o, c
<1>4. \A i \in 1..Len(todo') : i \notin {1, 2} => todo'[i] \in Plain
  <2>1. \A i \in 1..Len(todo') : i \notin {1, 2} => i - 2 \in 1..Len(rest)
    BY <1>2, <1>3
  <2> QED
    BY <1>2, <1>3, <2>1
<1> QED
  BY <1>1, <1>3, <1>4 DEF Stage, Agenda, Plain

\* After a plain task or an order there are only plain tasks.
LEMMA PlainTail ==
    ASSUME todo \in Seq(Tasks), Agenda, todo # <<>>, todo[1].op \notin {"close", "send", "details"}
    PROVE  Tail(todo) \in Seq(Plain)
<1> DEFINE rest == Tail(todo)
<1>1. /\ rest \in Seq(Tasks) /\ Len(rest) = Len(todo) - 1 /\ Len(todo) \in Nat \ {0}
      /\ \A i \in 1..Len(rest) : rest[i] = todo[i + 1]
  BY HeadTailProperties, EmptySeq
<1>2. ASSUME NEW i \in 1..Len(rest) PROVE rest[i] \in Plain
  <2>1. i + 1 \in 1..Len(todo) /\ i + 1 # 1 /\ 1 \in 1..((i + 1) - 1)
    BY <1>1
  <2>2. todo[i + 1] \in Tasks
    BY <2>1, ElementOfSeq
  <2>3. todo[i + 1].op \notin {"order", "send", "details"}
    BY <2>1 DEF Agenda
  <2> QED
    BY <1>1, <2>2, <2>3 DEF Plain
<1> HIDE DEF rest
<1>3. rest \in [1..Len(rest) -> Tasks] /\ Len(rest) \in Nat
  BY <1>1, LenProperties
<1>4. rest \in [1..Len(rest) -> Plain]
  BY <1>2, <1>3
<1>5. rest \in Seq(Plain)
  BY <1>3, <1>4
<1> QED
  BY <1>5 DEF rest

LEMMA PlainConcat ==
    ASSUME NEW a \in Seq(Plain), NEW b \in Seq(Plain) PROVE a \o b \in Seq(Plain)
BY ConcatProperties

\* A handler's step that keeps every pair at its trade and closes no trade.
LEMMA DeskStep ==
    ASSUME NInv, Grows, NotByDesk, SameTrades, UNCHANGED <<held, adopted, mode, restarts, writerVars>>,
           inflight' \subseteq [pair : Pairs, dir : {-1, 1}, n : Nat], bound' \in BOOLEAN,
           excused' \subseteq Noted', failed' = failed \/ Fail,
           UNCHANGED todo \/ todo = <<>> \/ todo[1].op # "send",
           Stage'
    PROVE  NInv'
<1>1. failed' \in 0..MaxFailed
  BY NeatAssumption DEF NInv, Types, Fail
<1>2. Types'
  BY <1>1, TypesKept
<1>3. DeskTracks' /\ Naive' /\ RecordsTruthful' /\ NothingUnrecorded'
  BY DeskKept
<1>4. Settled'
  BY SettledKept
<1> QED
  BY <1>2, <1>3, <1>4 DEF NInv

\* The same, of a step that leaves the broker alone.
LEMMA QuietStep ==
    ASSUME NInv, SameTrades, UNCHANGED <<brokerVars, mode, history, restarts, writerVars>>,
           bound' \in BOOLEAN, failed' = failed \/ Fail,
           UNCHANGED todo \/ todo = <<>> \/ todo[1].op # "send",
           Stage'
    PROVE  NInv'
<1>1. UNCHANGED <<trades, inflight, held, adopted, excused>>
  BY DEF brokerVars, history
<1>2. Grows /\ NotByDesk
  BY <1>1, StillGrows
<1>3. inflight' \subseteq [pair : Pairs, dir : {-1, 1}, n : Nat] /\ excused' \subseteq Noted'
  BY <1>1 DEF NInv, Types, Noted
<1> QED
  BY <1>1, <1>2, <1>3, DeskStep

\* One pair's state changes and keeps its trade.
LEMMA OnePair ==
    ASSUME NInv, NEW p \in Pairs, NEW s \in PairState, st' = [st EXCEPT ![p] = s],
           s.tid = st[p].tid, s.dir = st[p].dir, s.entry = st[p].entry,
           s.time = "naive" => st[p].time = "naive",
           s.trail => st[p].trail \/ (Held(p) /\ trades'[st[p].tid].trail)
    PROVE  SameTrades
<1>1. st \in [Pairs -> PairState]
  BY NFacts
<1>2. st' \in [Pairs -> PairState] /\ st'[p] = s /\ \A q \in Pairs \ {p} : st'[q] = st[q]
  BY <1>1
<1>3. ASSUME NEW q \in Pairs
      PROVE  /\ st'[q].tid = st[q].tid /\ st'[q].dir = st[q].dir /\ st'[q].entry = st[q].entry
             /\ st'[q].time = "naive" => st[q].time = "naive"
             /\ st'[q].trail => st[q].trail \/ (Held(q) /\ trades'[st[q].tid].trail)
  <2>1. CASE q = p
    BY <1>2, <2>1
  <2>2. CASE q # p
    BY <1>2, <2>2
  <2> QED
    BY <2>1, <2>2
<1> QED
  BY <1>2, <1>3 DEF SameTrades

-----------------------------------------------------------------------------
(* The messages and the broker.                                             *)

LEMMA IndicatorKeeps ==
    ASSUME NInv, NEW p \in Pairs, OwnIndicator(p) \/ OtherIndicator(p) PROVE NInv'
<1>1. /\ todo = <<>> /\ UNCHANGED <<brokerVars, st, mode, history, failed, restarts, writerVars>>
      /\ bound' \in BOOLEAN
  BY DEF OwnIndicator, OtherIndicator, NInv, Types
<1>2. todo' \in Seq(Plain)
  <2> DEFINE checks == <<Task("mfe", p), Task("hold", p)>>
             tick   == <<Task("tick", p)>>
  <2>1. checks \in Seq(Plain) /\ tick \in Seq(Plain) /\ <<>> \in Seq(Plain)
    BY TaskFacts
  <2>2. \E a \in {checks, <<>>}, b \in {tick, <<>>} : todo' = a \o b \/ todo' = a
    BY DEF OwnIndicator, OtherIndicator
  <2> HIDE DEF checks, tick
  <2> QED
    BY <2>1, <2>2, PlainConcat
<1>3. SameTrades /\ Stage'
  BY <1>1, <1>2, StillSame, PlainStage
<1> QED
  BY <1>1, <1>3, QuietStep

LEMMA PnfBoxKeeps == ASSUME NInv, NEW p \in Pairs, PnfBox(p) PROVE NInv'
<1>1. /\ todo = <<>> /\ UNCHANGED <<brokerVars, st, mode, bound, history, failed, restarts, writerVars>>
      /\ bound' \in BOOLEAN
  BY DEF PnfBox, NInv, Types
<1>2. \/ Held(p) /\ todo' = <<Close(p)>>
      \/ ~Held(p) /\ todo' = <<Order(p, 1)>>
  BY DEF PnfBox
<1>3. SameTrades
  BY <1>1, StillSame
<1>4. Stage'
  <2>1. CASE todo' = <<Close(p)>>
    <3>1. <<Close(p)>> \in Seq(Plain)
      BY TaskFacts
    <3> QED
      BY <2>1, <3>1, PlainStage
  <2>2. CASE ~Held(p) /\ todo' = <<Order(p, 1)>>
    <3>1. <<>> \in Seq(Plain) /\ 1 \in {-1, 1} /\ ~Held(p)'
      BY <1>3, <2>2 DEF SameTrades, Held
    <3>2. <<Order(p, 1)>> \in Seq(Tasks)
      BY TaskFacts
    <3>3. todo' = <<Order(p, 1)>> \o <<>>
      BY <2>2, <3>2, ConcatEmptySeq
    <3> QED
      BY <3>1, <3>3, OrderStage
  <2> QED
    BY <1>2, <2>1, <2>2
<1> QED
  BY <1>1, <1>3, <1>4, QuietStep

LEMMA CandleKeeps == ASSUME NInv, NEW p \in Pairs, Candle(p) PROVE NInv'
<1>1. /\ todo = <<>> /\ UNCHANGED <<brokerVars, st, mode, bound, history, failed, restarts, writerVars>>
      /\ bound' \in BOOLEAN
  BY DEF Candle, NInv, Types
<1>2. SameTrades
  BY <1>1, StillSame
<1>3. todo' \in Seq(Plain)
  <2>1. <<>> \in Seq(Plain) /\ <<Close(p)>> \in Seq(Plain)
    BY TaskFacts
  <2>2. todo' = <<Close(p)>>
    BY DEF Candle
  <2> QED
    BY <2>1, <2>2
<1> QED
  BY <1>1, <1>2, <1>3, PlainStage, QuietStep

\* The number of a failure.
LEMMA FailureNumber ==
    ASSUME NInv, failed' = failed \/ Fail
    PROVE  failed \in Nat /\ failed' \in Nat
BY NeatAssumption DEF Fail, NInv, Types

LEMMA IdleKeeps == NInv /\ Idle => NInv'
<1> SUFFICES ASSUME NInv, Idle PROVE NInv'
  OBVIOUS
<1>1. /\ todo = <<>> /\ UNCHANGED <<brokerVars, st, mode, bound, held, adopted, restarts, writerVars>>
      /\ (failed' = failed \/ Fail) /\ bound' \in BOOLEAN
  BY DEF Idle, NInv, Types
<1>2. excused' \subseteq Noted
  BY <1>1, FailureNumber DEF Idle, OpenTrades, NInv, Types, Noted
<1>3. UNCHANGED <<trades, inflight>> /\ Grows /\ NotByDesk /\ SameTrades
  BY <1>1, StillGrows, StillSame DEF brokerVars
<1>4. inflight' \subseteq [pair : Pairs, dir : {-1, 1}, n : Nat] /\ excused' \subseteq Noted'
  BY <1>2, <1>3 DEF NInv, Types, Noted
<1>5. Stage'
  <2>1. PICK seen : todo' = ForEach("details", Gone(seen))
    BY DEF Idle
  <2>2. Gone(seen) \subseteq Pairs /\ "details" \in Ops \ {"adopt"}
        /\ \A p \in Gone(seen) : Held(p)
    BY DEF Gone, Ops
  <2>3. /\ todo' \in Seq(Tasks) /\ Len(todo') \in Nat
        /\ \A i \in 1..Len(todo') : todo'[i].op = "details" /\ todo'[i].pair \in Gone(seen)
        /\ \A i, j \in 1..Len(todo') : i # j => todo'[i].pair # todo'[j].pair
    BY <2>1, <2>2, ForEachFacts
  <2>4. \A p \in Pairs : Held(p)' <=> Held(p)
    BY <1>3 DEF SameTrades, Held
  <2>5. Agenda'
    <3>1. ASSUME NEW i \in 1..Len(todo')
          PROVE  /\ todo'[i].op = "details" /\ st'[todo'[i].pair].tid # None
                 /\ \A j \in 1..(i - 1) : /\ todo'[j].op = "details"
                                          /\ todo'[j].pair # todo'[i].pair
      <4>1. \A j \in 1..(i - 1) : j \in 1..Len(todo') /\ j # i
        BY <2>3
      <4>2. todo'[i].pair \in Gone(seen) /\ todo'[i].pair \in Pairs
        BY <2>2, <2>3
      <4> QED
        BY <1>1, <2>2, <2>3, <4>1, <4>2 DEF Held
    <3> QED
      BY <3>1 DEF Agenda, Held
  <2> QED
    BY <2>3, <2>5 DEF Stage
<1> QED
  BY <1>1, <1>3, <1>4, <1>5, DeskStep

LEMMA CloseAllKeeps == NInv /\ CloseAllWeekend => NInv'
<1> SUFFICES ASSUME NInv, CloseAllWeekend PROVE NInv'
  OBVIOUS
<1>1. /\ todo = <<>> /\ UNCHANGED <<brokerVars, st, mode, bound, history, failed, restarts, writerVars>>
      /\ bound' \in BOOLEAN
  BY DEF CloseAllWeekend, NInv, Types
<1> DEFINE ps == {p \in Pairs : Held(p)}
<1>2. ps \subseteq Pairs /\ "close" \in Ops \ {"adopt"} /\ todo' = ForEach("close", ps)
  BY DEF CloseAllWeekend, Ops
<1> HIDE DEF ps
<1>3. /\ todo' \in Seq(Tasks) /\ \A i \in 1..Len(todo') : todo'[i].op = "close"
  BY <1>2, ForEachFacts
<1>4. Stage'
  BY <1>3 DEF Stage, Agenda
<1> QED
  BY <1>1, <1>4, StillSame, QuietStep

\* The broker's own steps: whatever the handler was about to do is still right.
LEMMA BrokerKeeps ==
    ASSUME NInv, (\E t \in 1..Len(trades) : BrokerClose(t)) \/ (\E r \in inflight : ResolveLate(r))
    PROVE  NInv'
<1>1. /\ UNCHANGED <<st, todo, mode, bound, held, adopted, failed, restarts, writerVars>>
      /\ inflight' \subseteq inflight
  BY DEF BrokerClose, ResolveLate, deskVars
<1>2. Grows /\ NotByDesk /\ excused' \subseteq Noted'
  <2>1. ASSUME NEW t \in 1..Len(trades), BrokerClose(t)
        PROVE  Grows /\ NotByDesk /\ excused' \subseteq Noted'
    <3>1. trades[t].closer = "-" /\ trades' = CloseAs(t, "broker") /\ excused' = excused
      BY <2>1 DEF BrokerClose, IsOpen, deskVars
    <3>2. Grows /\ NotByDesk /\ Len(trades') = Len(trades)
      BY <3>1, CloseAsGrows DEF NotByDesk
    <3> QED
      BY <3>1, <3>2 DEF NInv, Types, Noted
  <2>2. ASSUME NEW r \in inflight, ResolveLate(r)
        PROVE  Grows /\ NotByDesk /\ excused' \subseteq Noted'
    <3>1. r.pair \in Pairs /\ r.dir \in {-1, 1} /\ r.n \in Nat
          /\ excused \subseteq Noted /\ Len(trades) \in Nat
      BY NFacts DEF NInv, Types
    <3>2. CASE UNCHANGED <<trades, excused>>
      BY <3>1, <3>2, StillGrows DEF Noted
    <3>3. ASSUME NEW id \in 0..MaxTrades, Executed(r.pair, r.dir, id),
                 excused' = excused \cup (({id} \ {None}) \X {r.n})
          PROVE  Grows /\ NotByDesk /\ excused' \subseteq Noted'
      <4>1. Grows /\ NotByDesk /\ (id # None => id \in 1..Len(trades'))
        BY <3>1, <3>3, ExecutedGrows
      <4>2. excused \subseteq Noted'
        BY <3>1, <4>1 DEF Grows, Noted
      <4> QED
        BY <3>1, <3>3, <4>1, <4>2 DEF Noted
    <3> QED
      BY <2>2, <3>2, <3>3 DEF ResolveLate
  <2> QED
    BY <2>1, <2>2
<1>3. inflight' \subseteq [pair : Pairs, dir : {-1, 1}, n : Nat] /\ bound' \in BOOLEAN
  BY <1>1 DEF NInv, Types
<1>4. SameTrades
  BY <1>1, StillSame
<1>5. Stage'
  BY <1>1, <1>2, <1>4, AgendaKept DEF NInv, Stage
<1> QED
  BY <1>1, <1>2, <1>3, <1>4, <1>5, DeskStep

-----------------------------------------------------------------------------
(* The tasks of the handlers.                                               *)

LEMMA PlainThen ==
    ASSUME NInv, NEW op \in {"mfe", "hold", "tick", "order"}, Doing(op),
           NEW more \in Seq(Plain), Then(more)
    PROVE  Stage'
<1>1. todo \in Seq(Tasks) /\ Agenda /\ todo # <<>> /\ todo[1].op = op
  BY DoingFacts DEF Ops
<1>2. Tail(todo) \in Seq(Plain)
  BY <1>1, PlainTail
<1>3. todo' \in Seq(Plain)
  BY <1>2, PlainConcat DEF Then
<1> QED
  BY <1>3, PlainStage

LEMMA UpdateMfeKeeps == NInv /\ UpdateMfe => NInv'
<1> SUFFICES ASSUME NInv, UpdateMfe PROVE NInv'
  OBVIOUS
<1> DEFINE p == todo[1].pair
           t == st[p].tid
<1>1. /\ Doing("mfe") /\ Then(<<>>)
      /\ UNCHANGED <<inflight, mode, bound, history, restarts, writerVars>>
  BY DEF UpdateMfe
<1>2. p \in Pairs /\ Head(todo) = todo[1] /\ todo[1].op # "send"
  BY <1>1, DoingFacts DEF Ops
<1>3. \/ UNCHANGED <<trades, st, failed>>
      \/ /\ Held(p) /\ IsOpen(t) /\ trades' = [trades EXCEPT ![t].trail = TRUE]
         /\ st' = [st EXCEPT ![p].trail = TRUE]
         /\ UNCHANGED failed
      \/ /\ IsOpen(t) /\ Fail /\ UNCHANGED st
         /\ trades' \in {trades, [trades EXCEPT ![t].trail = TRUE]}
  BY <1>2 DEF UpdateMfe
<1> HIDE DEF p, t
<1>4. Grows /\ NotByDesk /\ (failed' = failed \/ Fail)
  BY <1>3, StillGrows, TrailGrows DEF IsOpen
<1>5. SameTrades
  <2>1. CASE UNCHANGED st
    BY <2>1, StillSame
  <2>2. CASE /\ Held(p) /\ IsOpen(t) /\ trades' = [trades EXCEPT ![t].trail = TRUE]
             /\ st' = [st EXCEPT ![p].trail = TRUE]
    <3> DEFINE s == [st[p] EXCEPT !.trail = TRUE]
    <3>1. st[p] \in PairState
      BY <1>2, NFacts
    <3>2. /\ s \in PairState /\ s.tid = st[p].tid /\ s.dir = st[p].dir /\ s.entry = st[p].entry
          /\ s.time = st[p].time
      BY <3>1 DEF PairState
    <3>3. st' = [st EXCEPT ![p] = s]
      BY <1>2, <2>2, NFacts
    <3>4. Held(p) /\ trades'[st[p].tid].trail
      BY <2>2, TrailGrows DEF IsOpen, t
    <3> HIDE DEF s
    <3> QED
      BY <1>2, <3>2, <3>3, <3>4, OnePair
  <2> QED
    BY <1>3, <2>1, <2>2
<1>6. <<>> \in Seq(Plain)
  OBVIOUS
<1>7. Stage'
  BY <1>1, <1>6, PlainThen
<1>8. /\ UNCHANGED <<held, adopted, excused>> /\ bound' \in BOOLEAN
      /\ inflight' \subseteq [pair : Pairs, dir : {-1, 1}, n : Nat] /\ excused \subseteq Noted
      /\ Len(trades) \in Nat
  BY <1>1, NFacts DEF history, NInv, Types
<1>9. excused' \subseteq Noted'
  BY <1>4, <1>8 DEF Grows, Noted
<1> QED
  BY <1>1, <1>2, <1>4, <1>5, <1>7, <1>8, <1>9, DeskStep

LEMMA MaxHoldKeeps == NInv /\ MaxHold => NInv'
<1> SUFFICES ASSUME NInv, MaxHold PROVE NInv'
  OBVIOUS
<1>1. /\ Doing("hold") /\ todo[1].op = "hold" /\ todo[1].pair \in Pairs /\ Head(todo) = todo[1]
      /\ UNCHANGED <<brokerVars, st, mode, bound, history, failed, restarts, writerVars>>
      /\ bound' \in BOOLEAN
  BY DoingFacts DEF MaxHold, Ops, NInv, Types
<1>2. PICK more : more \in {<<Close(todo[1].pair)>>, <<>>} /\ Then(more)
  BY <1>1 DEF MaxHold
<1>3. more \in Seq(Plain)
  <2>1. <<Close(todo[1].pair)>> \in Seq(Plain) /\ <<>> \in Seq(Plain)
    BY <1>1, TaskFacts
  <2> QED
    BY <1>2, <2>1
<1>4. Stage'
  BY <1>1, <1>2, <1>3, PlainThen
<1> QED
  BY <1>1, <1>4, StillSame, QuietStep

LEMMA TickKeeps == NInv /\ Tick => NInv'
<1> SUFFICES ASSUME NInv, Tick PROVE NInv'
  OBVIOUS
<1>0. PICK p \in Pairs : p = todo[1].pair
  BY DoingFacts DEF Tick, Ops
<1>1. /\ Doing("tick") /\ todo[1].op = "tick" /\ Head(todo) = todo[1]
      /\ UNCHANGED <<brokerVars, st, mode, bound, history, failed, restarts, writerVars>>
      /\ bound' \in BOOLEAN /\ todo \in Seq(Tasks) /\ todo # <<>> /\ Agenda
  BY DoingFacts DEF Tick, Ops, NInv, Types
<1>2. Tail(todo) \in Seq(Plain)
  BY <1>1, PlainTail
<1>3. \/ Then(<<Close(p)>>) \/ Then(<<>>)
      \/ \E out3 \in {-1, 0, 1}, erOk \in BOOLEAN :
            Then(Decision(p, out3, erOk) \o <<Task("mfe", p)>>)
  BY <1>0, <1>1 DEF Tick
<1>4. Held(p)' <=> Held(p)
  BY <1>1 DEF Held
<1>5. <<Close(p)>> \in Seq(Plain) /\ <<>> \in Seq(Plain) /\ <<Task("mfe", p)>> \in Seq(Plain)
  BY <1>1, TaskFacts
<1>6. Stage'
  <2>1. CASE Then(<<Close(p)>>) \/ Then(<<>>)
    BY <1>1, <1>5, <2>1, PlainThen
  <2>2. ASSUME NEW out3 \in {-1, 0, 1}, NEW erOk \in BOOLEAN,
               Then(Decision(p, out3, erOk) \o <<Task("mfe", p)>>)
        PROVE  Stage'
    <3> DEFINE dec  == Decision(p, out3, erOk)
               m    == Task("mfe", p)
               rest == <<m>> \o Tail(todo)
    <3>1. rest \in Seq(Plain) /\ rest \in Seq(Tasks)
      <4>1. rest \in Seq(Plain)
        BY <1>2, <1>5, PlainConcat
      <4>2. Plain \subseteq Tasks
        BY DEF Plain
      <4> QED
        BY <4>1, <4>2
    <3>2. \/ dec = <<>> \/ dec = <<Close(p)>>
          \/ \E d \in {-1, 1} : \/ ~Held(p) /\ dec = <<Order(p, d)>>
                                \/ dec = <<Close(p)>> \o <<Order(p, d)>>
                                \/ dec = <<Close(p)>> \o <<>>
      <4>1. Held(p) => st[p].dir \in {-1, 1}
        <5> SUFFICES ASSUME Held(p) PROVE st[p].dir \in {-1, 1}
          OBVIOUS
        <5>1. st[p].tid \in 1..Len(trades) /\ trades[st[p].tid].dir = st[p].dir
          BY DEF NInv, DeskTracks
        <5>2. trades[st[p].tid] \in NTrade
          BY <5>1, NFacts, ElementOfSeq
        <5> QED
          BY <5>1, <5>2 DEF NTrade
      <4>2. CASE ~Held(p) /\ out3 \in {-1, 1}
        BY <4>1, <4>2 DEF Decision
      <4>3. CASE Held(p) /\ out3 = 0
        BY <4>1, <4>3 DEF Decision
      <4>4. CASE Held(p) /\ out3 # 0 /\ out3 = -st[p].dir
        BY <4>1, <4>4 DEF Decision
      <4>5. CASE ~(~Held(p) /\ out3 \in {-1, 1}) /\ ~(Held(p) /\ out3 = 0) /\ ~(Held(p) /\ out3 = -st[p].dir)
        BY <4>1, <4>5 DEF Decision
      <4> QED
        BY <4>2, <4>3, <4>4, <4>5
    <3>4. <<Close(p)>> \o <<>> = <<Close(p)>>
      BY <1>5, ConcatEmptySeq
    <3>5. /\ <<Close(p)>> \in Seq(Tasks) /\ <<m>> \in Seq(Tasks) /\ Tail(todo) \in Seq(Tasks)
          /\ <<>> \in Seq(Tasks)
          /\ \A d \in {-1, 1} : <<Order(p, d)>> \in Seq(Tasks)
      BY <1>1, TaskFacts, HeadTailProperties DEF Plain
    <3>6. dec \in Seq(Tasks)
      <4>1. \A d \in {-1, 1} : <<Close(p)>> \o <<Order(p, d)>> \in Seq(Tasks)
        BY <3>5, ConcatProperties
      <4> HIDE DEF dec
      <4> QED
        BY <3>2, <3>4, <3>5, <4>1
    <3>7. todo' = dec \o rest
      <4>1. todo' = (dec \o <<m>>) \o Tail(todo)
        BY <2>2 DEF Then
      <4> HIDE DEF dec, m, rest
      <4>2. (dec \o <<m>>) \o Tail(todo) = dec \o (<<m>> \o Tail(todo))
        BY <3>5, <3>6, ConcatAssociative
      <4> QED
        BY <4>1, <4>2 DEF rest
    <3> HIDE DEF rest, dec
    <3>8. CASE dec = <<>> \/ dec = <<Close(p)>>
      BY <1>5, <3>1, <3>7, <3>8, PlainConcat, PlainStage
    <3>9. ASSUME NEW d \in {-1, 1}, ~Held(p), dec = <<Order(p, d)>> PROVE Stage'
      BY <1>1, <1>4, <3>1, <3>7, <3>9, OrderStage
    <3>10. ASSUME NEW d \in {-1, 1}, dec = <<Close(p)>> \o <<Order(p, d)>> PROVE Stage'
      BY <1>1, <3>1, <3>7, <3>10, CloseOrderStage
    <3> QED
      BY <3>2, <3>4, <3>8, <3>9, <3>10
  <2> QED
    BY <1>3, <2>1, <2>2
<1> QED
  BY <1>1, <1>6, StillSame, QuietStep

LEMMA OrderFailedKeeps == NInv /\ OrderFailed => NInv'
<1> SUFFICES ASSUME NInv, OrderFailed PROVE NInv'
  OBVIOUS
<1>1. /\ Doing("order") /\ todo[1].op = "order" /\ todo[1].pair \in Pairs /\ Head(todo) = todo[1]
      /\ UNCHANGED <<trades, st, mode, bound, history, restarts, writerVars>>
      /\ bound' \in BOOLEAN /\ todo \in Seq(Tasks) /\ todo # <<>> /\ Agenda /\ todo[1] \in Tasks
      /\ Len(todo) \in Nat \ {0}
  BY DoingFacts DEF OrderFailed, Ops, NInv, Types
<1>2. Grows /\ NotByDesk /\ SameTrades /\ UNCHANGED <<held, adopted, excused>>
      /\ excused' \subseteq Noted'
  BY <1>1, StillGrows, StillSame DEF history, NInv, Types, Noted
<1>3. todo[1].dir \in {-1, 1}
  <2>1. todo[1].dir # 0 /\ todo[1].dir \in {-1, 0, 1}
    BY <1>1 DEF Agenda, Tasks
  <2> QED
    BY <2>1
<1>4. inflight' \subseteq [pair : Pairs, dir : {-1, 1}, n : Nat] /\ (failed' = failed \/ Fail)
  <2> DEFINE req == [pair |-> todo[1].pair, dir |-> todo[1].dir, n |-> failed]
  <2>1. req \in [pair : Pairs, dir : {-1, 1}, n : Nat]
    BY <1>1, <1>3, NeatAssumption DEF NInv, Types
  <2>2. UNCHANGED <<inflight, failed>> \/ (Fail /\ inflight' = inflight \cup {req})
    BY <1>1 DEF OrderFailed
  <2> HIDE DEF req
  <2> QED
    BY <2>1, <2>2 DEF NInv, Types
<1>5. Stage'
  <2>1. CASE UNCHANGED todo
    BY <1>1, <1>2, <2>1, AgendaKept
  <2>2. CASE todo' = Tail(todo)
    BY <1>1, <2>2, PlainTail, PlainStage
  <2>3. CASE Then(<<>>)
    <3>1. <<>> \in Seq(Plain)
      OBVIOUS
    <3> QED
      BY <1>1, <2>3, <3>1, PlainThen
  <2> QED
    BY <2>1, <2>2, <2>3 DEF OrderFailed
<1> QED
  BY <1>1, <1>2, <1>4, <1>5, DeskStep

\* A held pair's trade after a broker's step.
LEMMA PairFacts ==
    ASSUME NInv, NEW p \in Pairs, Held(p), Grows
    PROVE  /\ st[p].tid \in 1..Len(trades) /\ st[p].tid \in 1..Len(trades')
           /\ trades'[st[p].tid].pair = p /\ trades'[st[p].tid].dir = st[p].dir
           /\ st[p].entry = st[p].tid /\ trades[st[p].tid].pair = p
           /\ st[p].trail => trades'[st[p].tid].trail
<1>1. /\ st[p].tid \in 1..Len(trades) /\ trades[st[p].tid].pair = p
      /\ trades[st[p].tid].dir = st[p].dir /\ st[p].entry = st[p].tid
      /\ st[p].trail => trades[st[p].tid].trail
  BY DEF NInv, DeskTracks
<1>2. st[p].tid \in 1..Len(trades')
  BY <1>1, NFacts DEF Grows
<1> QED
  BY <1>1, <1>2 DEF Grows

\* Two pairs are about two trades.
LEMMA Apart ==
    ASSUME NInv, NEW p \in Pairs, NEW q \in Pairs, Held(p), Held(q), p # q
    PROVE  st[p].tid # st[q].tid
BY DEF NInv, DeskTracks

\* A close or the details of a held pair lead to the sending of its record.
LEMMA SendStage ==
    ASSUME NInv, Grows, SameTrades, todo \in Seq(Tasks), Agenda, todo # <<>>,
           todo[1].op \in {"close", "details"},
           NEW p \in Pairs, todo[1].pair = p, Held(p),
           NEW by \in {"desk", "broker"}, NEW px \in {"broker", "mid"}, Then(<<Send(p, by, px)>>),
           px = "broker" => IF by = "broker" THEN trades'[st[p].tid].closer \in {"broker", "net"}
                                             ELSE trades'[st[p].tid].closer = "desk"
    PROVE  Stage'
<1> DEFINE x == Send(p, by, px)
<1>1. x \in Tasks /\ x.op = "send" /\ x.pair = p /\ x.by = by /\ x.px = px
  BY TaskFacts
<1> HIDE DEF x
<1>2. <<x>> \in Seq(Tasks) /\ Len(<<x>>) = 1 /\ todo' = <<x>> \o Tail(todo)
  BY <1>1 DEF Then, x
<1>3. /\ todo' \in Seq(Tasks) /\ Len(todo') = Len(todo) /\ todo'[1] = x /\ Len(todo) \in Nat \ {0}
      /\ \A i \in 1..(Len(todo) - 1) : todo'[1 + i] = todo[i + 1]
  BY <1>2, ThenFacts
<1>4. \A i \in 1..Len(todo) : i # 1 => todo'[i] = todo[i]
  <2>1. \A i \in 1..Len(todo) : i # 1 => i - 1 \in 1..(Len(todo) - 1)
    BY <1>3
  <2> QED
    BY <1>3, <2>1
<1>5. \A q \in Pairs : st'[q].tid = st[q].tid
  BY DEF SameTrades
<1>6. \A i \in 1..Len(todo) : todo[i].pair \in Pairs
  <2>1. \A i \in 1..Len(todo) : todo[i] \in Tasks
    BY ElementOfSeq
  <2> QED
    BY <2>1 DEF Tasks
<1>7. ASSUME NEW i \in 1..Len(todo), i # 1, todo[i].op = "order"
      PROVE  i = 2 /\ todo'[2].pair = p /\ todo[i].dir # 0
  BY <1>3, <1>4, <1>7 DEF Agenda
<1>8. ASSUME NEW i \in 1..Len(todo), i # 1, todo[i].op = "details"
      PROVE  /\ Held(todo[i].pair)
             /\ \A j \in 1..(i - 1) : todo'[j].op \in {"details", "send"} /\ todo'[j].pair # todo[i].pair
  <2>1. /\ Held(todo[i].pair)
        /\ \A j \in 1..(i - 1) : todo[j].op \in {"details", "send"} /\ todo[j].pair # todo[i].pair
    BY <1>8 DEF Agenda
  <2>2. 1 \in 1..(i - 1) /\ \A j \in 1..(i - 1) : j \in 1..Len(todo)
    BY <1>3, <1>8
  <2> QED
    BY <1>1, <1>3, <1>4, <2>1, <2>2
<1>9. \A i \in 1..Len(todo) : todo[i].op = "send" => i = 1
  BY DEF Agenda
<1>10. Agenda'
  BY <1>1, <1>3, <1>4, <1>5, <1>6, <1>7, <1>8, <1>9 DEF Agenda, Justified, Held
<1> QED
  BY <1>3, <1>10 DEF Stage

LEMMA DetailsKeeps == NInv /\ Details => NInv'
<1> SUFFICES ASSUME NInv, Details PROVE NInv'
  OBVIOUS
<1>0. PICK p \in Pairs : p = todo[1].pair
  BY DoingFacts DEF Details, Ops
<1>1. /\ Doing("details") /\ todo[1].op = "details" /\ Head(todo) = todo[1]
      /\ UNCHANGED <<brokerVars, st, mode, bound, history, restarts, writerVars>>
      /\ bound' \in BOOLEAN /\ todo \in Seq(Tasks) /\ todo # <<>> /\ Agenda /\ Len(todo) \in Nat \ {0}
  BY DoingFacts DEF Details, Ops, NInv, Types
<1>2. Held(p)
  BY <1>0, <1>1 DEF Agenda
<1>3. Grows /\ SameTrades /\ UNCHANGED trades
  BY <1>1, StillGrows, StillSame DEF brokerVars
<1>4. PICK px \in {"broker", "mid"} :
        /\ Then(<<Send(p, "broker", px)>>)
        /\ px = "broker" => ~IsOpen(st[p].tid)
  BY <1>0, <1>1 DEF Details
<1>5. failed' = failed \/ Fail
  BY DEF Details
<1>6. px = "broker" => trades'[st[p].tid].closer \in {"broker", "net"}
  <2> SUFFICES ASSUME px = "broker" PROVE trades'[st[p].tid].closer \in {"broker", "net"}
    OBVIOUS
  <2>1. st[p].tid \in 1..Len(trades) /\ trades[st[p].tid] \in NTrade
    BY <1>2, <1>3, PairFacts, NFacts, ElementOfSeq
  <2>2. trades[st[p].tid].closer # "-"
    BY <1>4, <2>1 DEF IsOpen
  <2>3. trades[st[p].tid].closer # "desk"
    BY <1>1, <1>2 DEF NInv, Settled
  <2> QED
    BY <1>3, <2>1, <2>2, <2>3 DEF NTrade
<1>7. Stage'
  BY <1>0, <1>1, <1>2, <1>3, <1>4, <1>6, SendStage
<1> QED
  BY <1>1, <1>3, <1>5, <1>7, QuietStep

LEMMA CloseTradeKeeps == NInv /\ CloseTrade => NInv'
<1> SUFFICES ASSUME NInv, CloseTrade PROVE NInv'
  OBVIOUS
<1>0. PICK p \in Pairs : p = todo[1].pair
  BY DoingFacts DEF CloseTrade, Ops
<1>1. /\ Doing("close") /\ todo[1].op = "close" /\ Head(todo) = todo[1]
      /\ UNCHANGED <<inflight, st, mode, bound, held, adopted, restarts, writerVars>>
      /\ bound' \in BOOLEAN /\ todo \in Seq(Tasks) /\ todo # <<>> /\ Agenda /\ Len(todo) \in Nat \ {0}
      /\ inflight' \subseteq [pair : Pairs, dir : {-1, 1}, n : Nat]
  BY DoingFacts DEF CloseTrade, Ops, NInv, Types
<1>2. SameTrades /\ excused \subseteq Noted
  BY <1>1, StillSame DEF NInv, Types
<1>3. CASE /\ Held(p) /\ IsOpen(st[p].tid) /\ trades' = CloseAs(st[p].tid, "desk")
           /\ Then(<<Send(p, "desk", "broker")>>) /\ UNCHANGED <<excused, failed>>
  <2>1. /\ Grows /\ trades'[st[p].tid].closer = "desk" /\ Len(trades') = Len(trades)
        /\ \A u \in 1..Len(trades) : u # st[p].tid => trades'[u].closer = trades[u].closer
    BY <1>3, CloseAsGrows DEF IsOpen
  <2>2. Stage'
    BY <1>0, <1>1, <1>2, <1>3, <2>1, SendStage
  <2>3. todo'[1].op = "send" /\ todo'[1].pair = p /\ todo' # <<>>
    <3> DEFINE x == Send(p, "desk", "broker")
    <3>1. x \in Tasks /\ x.op = "send" /\ x.pair = p
      BY TaskFacts
    <3> HIDE DEF x
    <3>2. <<x>> \in Seq(Tasks) /\ Len(<<x>>) = 1 /\ todo' = <<x>> \o Tail(todo)
      BY <1>3, <3>1 DEF Then, x
    <3>3. todo'[1] = x /\ Len(todo') = Len(todo)
      BY <1>1, <3>2, ThenFacts
    <3> QED
      BY <1>1, <3>1, <3>3
  <2>4. Settled'
    <3> SUFFICES ASSUME NEW q \in Pairs, st[q].tid # None, trades'[st[q].tid].closer = "desk"
                 PROVE  q = p
      BY <1>1, <2>3 DEF Settled, Held
    <3>1. ASSUME q # p PROVE FALSE
      <4>1. st[q].tid \in 1..Len(trades) /\ st[q].tid # st[p].tid
        BY <1>3, <2>1, <3>1, PairFacts, Apart DEF Held
      <4>2. trades[st[q].tid].closer = "desk"
        BY <2>1, <4>1
      <4> QED
        BY <1>1, <4>2 DEF NInv, Settled, Held
    <3> QED
      BY <3>1
  <2>5. failed' \in 0..MaxFailed /\ excused' \subseteq Noted'
    BY <1>2, <1>3, <2>1 DEF NInv, Types, Noted
  <2>6. Types'
    BY <1>1, <1>2, <2>1, <2>5, TypesKept
  <2>7. DeskTracks' /\ Naive' /\ RecordsTruthful' /\ NothingUnrecorded'
    BY <1>1, <1>2, <2>1, DeskKept
  <2> QED
    BY <2>2, <2>4, <2>6, <2>7 DEF NInv
<1>4. CASE /\ Held(p) /\ Then(<<Send(p, "desk", "mid")>>) /\ UNCHANGED trades
           /\ failed' = failed \/ Fail
           /\ excused' \in {excused, excused \cup {<<st[p].tid, failed'>>}}
  <2>1. Grows /\ NotByDesk
    BY <1>4, StillGrows
  <2>2. Stage'
    BY <1>0, <1>1, <1>2, <1>4, <2>1, SendStage
  <2>3. excused' \subseteq Noted'
    BY <1>2, <1>4, <2>1, PairFacts, FailureNumber DEF Noted
  <2> QED
    BY <1>1, <1>2, <1>4, <2>1, <2>2, <2>3, DeskStep
<1>5. CASE ~Held(p) /\ Then(<<>>) /\ UNCHANGED <<trades, excused, failed>>
  <2>1. Grows /\ NotByDesk
    BY <1>5, StillGrows
  <2>2. Stage'
    <3> DEFINE rest == Tail(todo)
    <3>1. /\ rest \in Seq(Tasks) /\ Len(rest) = Len(todo) - 1 /\ \A i \in 1..Len(rest) : rest[i] = todo[i + 1]
      BY <1>1, HeadTailProperties
    <3>2. todo' = rest
      BY <1>5, <3>1, ConcatEmptySeq DEF Then
    <3> HIDE DEF rest
    <3>3. ASSUME NEW i \in 1..Len(rest)
          PROVE  /\ rest[i].op \notin {"send", "details"}
                 /\ rest[i].op = "order" => rest[i].dir # 0 /\ i = 1 /\ rest[i].pair = p
      <4>1. i + 1 \in 1..Len(todo) /\ i + 1 # 1 /\ 1 \in 1..((i + 1) - 1) /\ (i + 1 = 2 => i = 1)
        BY <1>1, <3>1
      <4>2. rest[i] = todo[i + 1]
        BY <3>1
      <4> QED
        BY <1>0, <1>1, <4>1, <4>2 DEF Agenda
    <3>4. Agenda'
      BY <1>1, <1>5, <3>2, <3>3 DEF Agenda, Held
    <3> QED
      BY <3>1, <3>2, <3>4 DEF Stage
  <2>3. excused' \subseteq Noted'
    BY <1>2, <1>5 DEF Noted
  <2> QED
    BY <1>1, <1>2, <1>5, <2>1, <2>2, <2>3, DeskStep
<1> QED
  BY <1>0, <1>1, <1>3, <1>4, <1>5 DEF CloseTrade

\* The record leaves, or cannot be made for an adopted trade, and the pair is flat.
LEMMA SendTradeKeeps == NInv /\ SendTrade => NInv'
<1> SUFFICES ASSUME NInv, SendTrade PROVE NInv'
  OBVIOUS
<1>0. PICK p \in Pairs : p = todo[1].pair
  BY DoingFacts DEF SendTrade, Ops
<1>1. /\ Doing("send") /\ todo[1].op = "send" /\ Head(todo) = todo[1] /\ Then(<<>>)
      /\ UNCHANGED <<trades, inflight, mode, bound, held, adopted, excused, failed, restarts>>
      /\ todo \in Seq(Tasks) /\ todo # <<>> /\ Agenda /\ Len(todo) \in Nat \ {0}
      /\ st' = [st EXCEPT ![p] = Reset(st[p])]
  BY <1>0, DoingFacts DEF SendTrade, Ops, brokerVars, history
<1>2. Held(p) /\ Justified(todo[1])
  BY <1>0, <1>1 DEF Agenda
<1>3. st[p] \in PairState /\ st \in [Pairs -> PairState] /\ Grows
  BY <1>1, NFacts, StillGrows
<1> DEFINE s == Reset(st[p])
<1>4. s \in PairState /\ s.tid = None /\ s.dir = 0 /\ ~s.trail /\ s.time = "-"
  BY <1>3 DEF Reset, Flat, PairState, None
<1> HIDE DEF s
<1>5. st' \in [Pairs -> PairState] /\ st'[p] = s /\ \A q \in Pairs : q # p => st'[q] = st[q]
  BY <1>1, <1>3, <1>4 DEF s
<1>6. \A q \in Pairs : st'[q].tid # None => q # p /\ Held(q)
  BY <1>4, <1>5 DEF Held
<1> DEFINE r == Record(todo[1], st[p])
           t == st[p].tid
<1>7. /\ t \in 1..Len(trades) /\ trades[t].pair = p /\ trades[t].dir = st[p].dir /\ st[p].entry = t
      /\ t \in Nat /\ st[p].dir \in {-1, 0, 1}
  BY <1>2, NFacts DEF NInv, DeskTracks
<1>8. /\ r \in Recs /\ r.trade_id = t /\ r.pair = p /\ r.dir = st[p].dir /\ r.entry = t
      /\ r.px = todo[1].px /\ r.by = todo[1].by
  BY <1>0, <1>2, <1>7 DEF Record, Recs, Justified
<1>9. /\ WriterOK' /\ lost' = lost /\ foreign' = foreign
      /\ \/ Records' = Records \cup {r}
         \/ Records' = Records /\ st[p].time = "naive"
  <2>1. CASE ~Sendable(st[p]) /\ UNCHANGED writerVars
    BY <2>1, WriterStill DEF Sendable
  <2>2. CASE CanSend /\ Sent(r)
    <3> HIDE DEF r
    <3>1. out' = Append(out, r) /\ UNCHANGED <<inbox, rows, foreign, lost>> /\ Len(out) < Hwm
      BY <2>2 DEF CanSend, Sent
    <3>2. out \in Seq(Recs) /\ inbox \in Seq(Recs) /\ rows \subseteq Recs /\ Len(inbox) <= Hwm
      BY DEF NInv, Types, WriterOK
    <3>3. out' \in Seq(Recs) /\ Len(out') = Len(out) + 1 /\ Len(out) \in Nat
      BY <1>8, <3>1, <3>2, AppendProperties, LenProperties
    <3>4. WriterOK'
      BY <3>1, <3>2, <3>3, WriterAssumption DEF WriterOK
    <3>5. ToSet(out') = ToSet(out) \cup {r}
      BY <1>8, <3>1, <3>2, ToSetAppend
    <3>6. Records' = Records \cup {r}
      BY <3>1, <3>5 DEF Records
    <3> QED
      BY <3>1, <3>4, <3>6
  <2> QED
    BY <1>0, <1>1, <2>1, <2>2 DEF SendTrade
<1>10. Types'
  BY <1>1, <1>5, <1>9 DEF NInv, Types, Noted
<1>11. DeskTracks'
  BY <1>1, <1>4, <1>5 DEF NInv, DeskTracks, Held
<1>12. Naive'
  BY <1>1, <1>4, <1>5 DEF NInv, Naive, Held
<1>13. Settled'
  BY <1>0, <1>1, <1>5, <1>6 DEF NInv, Settled, Held
<1>14. RecordsTruthful'
  <2>1. r.px = "broker" => IF r.by = "broker" THEN trades[t].closer \in {"broker", "net"}
                                              ELSE trades[t].closer = "desk"
    BY <1>0, <1>2, <1>8 DEF Justified
  <2> HIDE DEF r, t
  <2>2. ASSUME NEW x \in Records'
        PROVE  /\ x.trade_id \in 1..Len(trades) /\ x.pair = trades[x.trade_id].pair
               /\ x.dir = trades[x.trade_id].dir /\ x.entry = x.trade_id
               /\ x.px = "broker" =>
                    IF x.by = "broker" THEN trades[x.trade_id].closer \in {"broker", "net"}
                                       ELSE trades[x.trade_id].closer = "desk"
    <3>1. CASE x \in Records
      BY <3>1 DEF NInv, RecordsTruthful
    <3>2. CASE x = r
      BY <1>7, <1>8, <2>1, <3>2
    <3> QED
      BY <1>9, <3>1, <3>2
  <2> QED
    BY <1>1, <2>2 DEF RecordsTruthful
<1>15. NothingUnrecorded'
  <2>1. Tracked \subseteq Tracked' \cup {t}
    BY <1>5 DEF Tracked
  <2>2. t \in Ids(Records') \cup adopted
    <3>1. CASE Records' = Records \cup {r}
      BY <1>8, <3>1 DEF Ids
    <3>2. CASE st[p].time = "naive"
      BY <1>2, <3>2 DEF NInv, Naive
    <3> QED
      BY <1>9, <3>1, <3>2
  <2>3. Ids(Records) \subseteq Ids(Records')
    BY <1>9 DEF Ids
  <2>4. held \subseteq Tracked \cup Ids(Records) \cup lost \cup adopted \cup foreign
    BY DEF NInv, NothingUnrecorded
  <2>5. Ids(Records') = Ids(Records)'
    BY DEF Ids
  <2> HIDE DEF r, t
  <2>6. held' \subseteq Tracked' \cup Ids(Records)' \cup lost' \cup adopted' \cup foreign'
    BY <1>1, <1>9, <2>1, <2>2, <2>3, <2>4, <2>5
  <2> QED
    BY <2>6 DEF NothingUnrecorded
<1>16. Stage'
  <2> DEFINE rest == Tail(todo)
  <2>1. /\ rest \in Seq(Tasks) /\ Len(rest) = Len(todo) - 1 /\ \A i \in 1..Len(rest) : rest[i] = todo[i + 1]
    BY <1>1, HeadTailProperties
  <2>2. todo' = rest
    BY <1>1, <2>1, ConcatEmptySeq DEF Then
  <2> HIDE DEF rest
  <2>3. ASSUME NEW i \in 1..Len(rest)
        PROVE  /\ rest[i].op # "send"
               /\ rest[i].op = "order" => rest[i].dir # 0 /\ i = 1 /\ rest[i].pair = p
               /\ rest[i].op = "details" =>
                    /\ rest[i].pair # p /\ Held(rest[i].pair)
                    /\ \A j \in 1..(i - 1) : rest[j].op \in {"details", "send"} /\ rest[j].pair # rest[i].pair
    <3>1. i + 1 \in 1..Len(todo) /\ i + 1 # 1 /\ 1 \in 1..((i + 1) - 1) /\ (i + 1 = 2 => i = 1)
          /\ \A j \in 1..(i - 1) : j \in 1..Len(rest) /\ j + 1 \in 1..((i + 1) - 1)
      BY <1>1, <2>1
    <3>2. rest[i] = todo[i + 1] /\ \A j \in 1..(i - 1) : rest[j] = todo[j + 1]
      BY <2>1, <3>1
    <3>3. /\ todo[i + 1].op # "send"
          /\ todo[i + 1].op = "order" => todo[i + 1].dir # 0 /\ i = 1 /\ todo[i + 1].pair = p
      BY <1>0, <1>1, <3>1 DEF Agenda
    <3>4. todo[i + 1].op = "details" =>
            /\ Held(todo[i + 1].pair)
            /\ \A j \in 1..((i + 1) - 1) :
                 todo[j].op \in {"details", "send"} /\ todo[j].pair # todo[i + 1].pair
      BY <1>1, <3>1 DEF Agenda
    <3> QED
      BY <1>0, <3>1, <3>2, <3>3, <3>4
  <2>4. \A i \in 1..Len(rest) : rest[i].pair \in Pairs
    <3>1. \A i \in 1..Len(rest) : rest[i] \in Tasks
      BY <2>1, ElementOfSeq
    <3> QED
      BY <3>1 DEF Tasks
  <2>5. Agenda'
    BY <1>4, <1>5, <2>2, <2>3, <2>4 DEF Agenda, Held
  <2> QED
    BY <2>1, <2>2, <2>5 DEF Stage
<1> QED
  BY <1>10, <1>11, <1>12, <1>13, <1>14, <1>15, <1>16 DEF NInv

\* The order is executed: it opened a trade, now the flat pair's, or only netted one.
LEMMA OrderFilledKeeps == NInv /\ OrderFilled => NInv'
<1> SUFFICES ASSUME NInv, OrderFilled PROVE NInv'
  OBVIOUS
<1>0. PICK p \in Pairs : p = todo[1].pair
  BY DoingFacts DEF OrderFilled, Ops
<1>1. /\ Doing("order") /\ todo[1].op = "order" /\ Head(todo) = todo[1] /\ Then(<<>>)
      /\ UNCHANGED <<inflight, mode, bound, adopted, excused, failed, restarts, writerVars>>
      /\ todo \in Seq(Tasks) /\ todo # <<>> /\ Agenda /\ Len(todo) \in Nat \ {0} /\ todo[1] \in Tasks
  BY DoingFacts DEF OrderFilled, Ops
<1>2. ~Held(p) /\ todo[1].dir \in {-1, 1}
  <2>1. 1 \in 1..Len(todo)
    BY <1>1
  <2>2. todo[1].dir # 0 /\ todo[1].dir \in {-1, 0, 1}
    BY <1>1, <2>1 DEF Agenda, Tasks
  <2> QED
    BY <1>0, <1>1, <2>1, <2>2 DEF Agenda
<1>3. PICK id \in 0..MaxTrades :
        /\ Executed(p, todo[1].dir, id)
        /\ st' = IF id = None THEN st ELSE [st EXCEPT ![p] = Opened(st[p], id, todo[1].dir)]
        /\ held' = held \cup ({id} \ {None})
  BY <1>0, <1>1 DEF OrderFilled
<1>4. PICK d \in {-1, 1} : d = todo[1].dir
  BY <1>2
<1>5. /\ Grows /\ NotByDesk
      /\ id # None => /\ id \in 1..Len(trades') /\ id \notin 1..Len(trades)
                      /\ trades'[id] = [pair |-> p, dir |-> d, closer |-> "-", trail |-> FALSE]
  BY <1>3, <1>4, ExecutedGrows
<1>6. Stage'
  <2>1. <<>> \in Seq(Plain)
    OBVIOUS
  <2> QED
    BY <1>1, <2>1, PlainThen
<1>7. inflight' \subseteq [pair : Pairs, dir : {-1, 1}, n : Nat] /\ bound' \in BOOLEAN
      /\ excused' \subseteq Noted'
  <2>1. excused \subseteq Noted /\ Len(trades) \in Nat
    BY NFacts DEF NInv, Types
  <2>2. excused \subseteq Noted'
    BY <1>5, <2>1 DEF Grows, Noted
  <2> QED
    BY <1>1, <2>2 DEF NInv, Types
<1>8. CASE id = None
  <2>1. UNCHANGED <<st, held>>
    BY <1>3, <1>8
  <2> QED
    BY <1>1, <1>5, <1>6, <1>7, <2>1, StillSame, DeskStep
<1>9. CASE id # None
  <2> DEFINE s == Opened(st[p], id, d)
  <2>1. st[p] \in PairState /\ st \in [Pairs -> PairState] /\ id \in Nat /\ ~st[p].trail
    BY <1>2, NFacts, NeatAssumption DEF NInv, DeskTracks
  <2>2. s \in PairState /\ s.tid = id /\ s.dir = d /\ s.entry = id /\ s.time = "aware" /\ s.trail = st[p].trail
    BY <2>1 DEF Opened, PairState
  <2>3. st' = [st EXCEPT ![p] = s] /\ held' = held \cup {id}
    BY <1>3, <1>4, <1>9
  <2> HIDE DEF s
  <2>4. st' \in [Pairs -> PairState] /\ st'[p] = s /\ \A q \in Pairs : q # p => st'[q] = st[q]
    BY <2>1, <2>2, <2>3
  <2>5. Records' = Records /\ WriterOK' /\ lost' = lost /\ foreign' = foreign
    BY <1>1, WriterStill
  <2>6. Types'
    <3>1. Len(trades) \in Nat /\ held \subseteq 1..Len(trades) /\ lost \subseteq 1..Len(trades)
          /\ adopted \subseteq held /\ mode \in Modes /\ restarts \in 0..MaxRestarts
          /\ failed \in 0..MaxFailed /\ foreign \subseteq OtherIds
      BY NFacts DEF NInv, Types
    <3>2. held' \subseteq 1..Len(trades') /\ lost \subseteq 1..Len(trades')
      BY <1>5, <1>9, <2>3, <3>1 DEF Grows
    <3> QED
      BY <1>1, <1>5, <1>7, <2>3, <2>4, <2>5, <3>1, <3>2 DEF Types, Grows
  <2>7. trades'[id].pair = p /\ trades'[id].dir = d /\ trades'[id].closer = "-"
    BY <1>5, <1>9
  <2>8. DeskTracks'
    <3>1. ASSUME NEW q \in Pairs, st'[q].tid # None
          PROVE  /\ st'[q].tid \in 1..Len(trades') /\ trades'[st'[q].tid].pair = q
                 /\ trades'[st'[q].tid].dir = st'[q].dir /\ st'[q].entry = st'[q].tid
                 /\ st'[q].trail => trades'[st'[q].tid].trail
      <4>1. CASE q = p
        BY <1>5, <1>9, <2>1, <2>2, <2>4, <2>7, <4>1
      <4>2. CASE q # p
        BY <1>5, <2>4, <3>1, <4>2, PairFacts DEF Held
      <4> QED
        BY <4>1, <4>2
    <3>2. ASSUME NEW q \in Pairs, st'[q].tid = None PROVE st'[q].dir = 0 /\ ~st'[q].trail
      BY <1>9, <2>2, <2>4, <3>2 DEF NInv, DeskTracks, Held
    <3> QED
      BY <3>1, <3>2 DEF DeskTracks, Held
  <2>9. Naive'
    BY <1>1, <2>2, <2>4 DEF NInv, Naive, Held
  <2>10. Settled'
    <3> SUFFICES ASSUME NEW q \in Pairs, st'[q].tid # None, trades'[st'[q].tid].closer = "desk"
                 PROVE  FALSE
      BY DEF Settled, Held
    <3>1. q # p
      BY <2>2, <2>4, <2>7
    <3>2. Held(q) /\ st'[q].tid = st[q].tid
      BY <2>4, <3>1 DEF Held
    <3>3. trades[st[q].tid].closer = "desk"
      BY <1>5, <3>2, PairFacts DEF NotByDesk
    <3> QED
      BY <1>1, <3>2, <3>3 DEF NInv, Settled
  <2>11. RecordsTruthful'
    BY <1>5, <2>5, RecordsKept
  <2>12. NothingUnrecorded'
    <3>1. Tracked \subseteq Tracked' /\ id \in Tracked'
      BY <1>2, <1>9, <2>2, <2>4 DEF Tracked, Held
    <3>2. Ids(Records)' = Ids(Records)
      BY <2>5 DEF Ids
    <3> QED
      BY <1>1, <2>3, <2>5, <3>1, <3>2 DEF NInv, NothingUnrecorded
  <2> QED
    BY <1>6, <2>6, <2>8, <2>9, <2>10, <2>11, <2>12 DEF NInv
<1> QED
  BY <1>8, <1>9

-----------------------------------------------------------------------------
(* The start, the restarts, and the records on their way.                   *)

LEMMA FlatFacts ==
    /\ AllFlat \in [Pairs -> PairState]
    /\ \A p \in Pairs : /\ AllFlat[p].tid = None /\ AllFlat[p].dir = 0 /\ ~AllFlat[p].trail
                        /\ AllFlat[p].time = "-"
<1>1. Flat \in PairState /\ Flat.tid = None /\ Flat.dir = 0 /\ ~Flat.trail /\ Flat.time = "-"
  BY DEF Flat, PairState, None
<1> QED
  BY <1>1 DEF AllFlat

\* The adoption is all a desk that starts has to do.
LEMMA AdoptFacts == ASSUME NInv, Adopt PROVE todo = Booting /\ st = AllFlat /\ todo' = <<>>
<1>1. Doing("adopt") /\ Then(<<>>)
  BY DEF Adopt
<1>2. todo = Booting /\ st = AllFlat
  <2>1. CASE todo \in Seq(Tasks)
    <3>1. Head(todo) \in Tasks /\ Head(todo).op = "adopt"
      BY <1>1, <2>1, ToSetTail DEF Doing
    <3> QED
      BY <3>1 DEF Tasks
  <2> QED
    BY <2>1 DEF NInv, Stage
<1>3. todo' = <<>>
  <2> DEFINE b == [op |-> "adopt"]
  <2>1. todo = <<b>>
    BY <1>2 DEF Booting
  <2> HIDE DEF b
  <2>2. Tail(todo) = <<>>
    BY <2>1
  <2>3. <<>> \in Seq(Tasks)
    OBVIOUS
  <2> QED
    BY <1>1, <2>2, <2>3, ConcatEmptySeq DEF Then
<1> QED
  BY <1>2, <1>3

LEMMA AdoptKeeps == NInv /\ Adopt => NInv'
<1> SUFFICES ASSUME NInv, Adopt PROVE NInv'
  OBVIOUS
<1>1. /\ Doing("adopt") /\ Then(<<>>)
      /\ UNCHANGED <<trades, inflight, mode, bound, restarts, writerVars>>
  BY DEF Adopt, brokerVars
<1>2. todo = Booting /\ st = AllFlat
  BY AdoptFacts
<1>3. todo' = <<>>
  BY AdoptFacts
<1>4. Stage'
  BY <1>3, PlainStage
<1>5. Grows /\ NotByDesk /\ Len(trades) \in Nat /\ trades \in Seq(NTrade)
  BY <1>1, StillGrows, NFacts
<1>6. inflight' \subseteq [pair : Pairs, dir : {-1, 1}, n : Nat] /\ bound' \in BOOLEAN
  BY <1>1 DEF NInv, Types
<1>7. CASE /\ "read" \in Faults /\ OpenTrades # {} /\ Fail
           /\ excused' = excused \cup (OpenTrades \X {failed'}) /\ UNCHANGED <<st, held, adopted>>
  <2>1. excused' \subseteq Noted'
    BY <1>1, <1>7, FailureNumber DEF OpenTrades, NInv, Types, Noted
  <2>2. todo[1].op # "send"
    BY <1>2 DEF Booting
  <2> QED
    BY <1>1, <1>4, <1>5, <1>6, <1>7, <2>1, <2>2, StillSame, DeskStep
<1>8. ASSUME NEW last \in [Pairs -> OpenTrades \cup {None}],
             \A p \in Pairs :
               LET own == {t \in OpenTrades : trades[t].pair = p}
               IN  IF own = {} THEN last[p] = None ELSE last[p] \in own,
             st' = [p \in Pairs |->
                      IF last[p] = None THEN st[p]
                      ELSE [st[p] EXCEPT !.tid = last[p], !.dir = trades[last[p]].dir,
                                         !.entry = last[p], !.time = "naive"]],
             held' = held \cup ({last[p] : p \in Pairs} \ {None}),
             adopted' = adopted \cup ({last[p] : p \in Pairs} \ {None}),
             UNCHANGED <<excused, failed>>
      PROVE  NInv'
  <2>1. \A p \in Pairs : last[p] # None => /\ last[p] \in 1..Len(trades) /\ trades[last[p]].pair = p
                                           /\ trades[last[p]].closer = "-"
    BY <1>8 DEF OpenTrades
  <2>2. {last[p] : p \in Pairs} \ {None} \subseteq 1..Len(trades)
    BY <2>1
  <2>3. ASSUME NEW p \in Pairs
        PROVE  /\ st'[p] \in PairState /\ st'[p].tid = last[p] /\ ~st'[p].trail
               /\ last[p] = None => st'[p].dir = 0
               /\ last[p] # None => /\ st'[p].dir = trades[last[p]].dir /\ st'[p].entry = last[p]
                                    /\ st'[p].time = "naive"
    <3>1. st[p] \in PairState /\ st[p].tid = None /\ st[p].dir = 0 /\ ~st[p].trail
      BY <1>2, FlatFacts
    <3>2. CASE last[p] = None
      BY <1>8, <3>1, <3>2
    <3>3. CASE last[p] # None
      <4> DEFINE t == last[p]
                 d == trades[last[p]].dir
                 s == [st[p] EXCEPT !.tid = t, !.dir = d, !.entry = t, !.time = "naive"]
      <4>1. trades[last[p]] \in NTrade /\ t \in Nat
        BY <1>5, <2>1, <3>3, ElementOfSeq
      <4>2. d \in {-1, 0, 1}
        BY <4>1 DEF NTrade
      <4>3. st'[p] = s
        BY <1>8, <3>3
      <4> HIDE DEF t, d
      <4>4. s \in PairState /\ s.tid = t /\ s.dir = d /\ s.entry = t /\ s.time = "naive" /\ s.trail = st[p].trail
        BY <3>1, <4>1, <4>2 DEF PairState
      <4> QED
        BY <3>1, <3>3, <4>3, <4>4 DEF t, d
    <3> QED
      BY <3>2, <3>3
  <2>4. Records' = Records /\ WriterOK' /\ lost' = lost /\ foreign' = foreign
    BY <1>1, WriterStill
  <2>5. Types'
    <3>1. /\ held \subseteq 1..Len(trades) /\ lost \subseteq 1..Len(trades) /\ excused \subseteq Noted
          /\ adopted \subseteq held /\ mode \in Modes /\ restarts \in 0..MaxRestarts
          /\ failed \in 0..MaxFailed /\ foreign \subseteq OtherIds
      BY DEF NInv, Types
    <3>2. held' \subseteq 1..Len(trades) /\ adopted' \subseteq held'
      BY <1>8, <2>2, <3>1
    <3>3. st' \in [Pairs -> PairState]
      BY <1>8, <2>3
    <3> QED
      BY <1>1, <1>5, <1>6, <1>8, <2>4, <3>1, <3>2, <3>3 DEF Types, Noted
  <2>6. DeskTracks'
    BY <1>1, <2>1, <2>3 DEF DeskTracks, Held
  <2>7. Naive'
    <3>1. \A p \in Pairs : last[p] # None => last[p] \in adopted'
      BY <1>8
    <3> QED
      BY <2>3, <3>1 DEF Naive, Held
  <2>8. Settled'
    BY <1>1, <2>1, <2>3 DEF Settled, Held
  <2>9. RecordsTruthful'
    BY <1>5, <2>4, RecordsKept
  <2>10. NothingUnrecorded'
    <3>1. Tracked \subseteq {} /\ Ids(Records)' = Ids(Records)
      BY <1>2, <2>4, FlatFacts DEF Tracked, Ids
    <3> QED
      BY <1>8, <2>4, <3>1 DEF NInv, NothingUnrecorded
  <2> QED
    BY <1>4, <2>5, <2>6, <2>7, <2>8, <2>9, <2>10 DEF NInv
<1> QED
  BY <1>7, <1>8 DEF Adopt

\* What the desk tracks and what is on its way has the id of a real trade.
LEMMA RealIds ==
    ASSUME NInv PROVE Tracked \subseteq 1..Len(trades) /\ Ids(Records) \subseteq 1..Len(trades)
<1>1. Tracked \subseteq 1..Len(trades)
  BY DEF NInv, DeskTracks, Tracked, Held
<1>2. Ids(Records) \subseteq 1..Len(trades)
  BY DEF NInv, RecordsTruthful, Ids
<1> QED
  BY <1>1, <1>2

LEMMA RestartKeeps == NInv /\ Restart => NInv'
<1> SUFFICES ASSUME NInv, Restart PROVE NInv'
  OBVIOUS
<1>1. /\ st' = AllFlat /\ todo' = Booting /\ bound' = FALSE /\ restarts < MaxRestarts
      /\ restarts' = restarts + 1
      /\ UNCHANGED <<trades, inflight, mode, held, adopted, excused, failed, inbox, rows, foreign>>
      /\ \/ UNCHANGED out /\ lost' = lost \cup Tracked
         \/ out' = <<>> /\ lost' = lost \cup Tracked \cup Ids(ToSet(out))
  BY DEF Restart, SenderGone, brokerVars, history
<1>2. /\ Records' \subseteq Records
      /\ Records \subseteq Records' \cup ToSet(out)
      /\ UNCHANGED out => Records' = Records
  BY <1>1, ToSetEmpty DEF Records
<1>3. Grows /\ Len(trades) \in Nat
  BY <1>1, StillGrows, NFacts
<1>4. Ids(ToSet(out)) \subseteq Ids(Records)
  BY DEF Ids, Records
<1>5. Types'
  <2>1. lost' \subseteq 1..Len(trades)
    BY <1>1, <1>4, RealIds DEF NInv, Types
  <2>2. out' \in Seq(Recs) /\ Len(out') <= Hwm
    <3>1. <<>> \in Seq(Recs) /\ Len(<<>>) = 0 /\ 0 <= Hwm
      BY EmptySeq, WriterAssumption
    <3>2. out \in Seq(Recs) /\ Len(out) <= Hwm
      BY DEF NInv, Types, WriterOK
    <3>3. out' = out \/ out' = <<>>
      BY <1>1
    <3> QED
      BY <3>1, <3>2, <3>3
  <2>3. WriterOK'
    BY <1>1, <2>2 DEF NInv, Types, WriterOK
  <2>4. restarts' \in 0..MaxRestarts
    <3>1. restarts \in 0..MaxRestarts
      BY DEF NInv, Types
    <3> QED
      BY <1>1, <3>1, NeatAssumption
  <2>5. bound' \in BOOLEAN
    BY <1>1
  <2> QED
    BY <1>1, <2>1, <2>3, <2>4, <2>5, FlatFacts DEF NInv, Types, Noted
<1>6. DeskTracks' /\ Naive' /\ Settled'
  BY <1>1, FlatFacts DEF DeskTracks, Naive, Settled, Held
<1>7. RecordsTruthful'
  BY <1>2, <1>3, RecordsKept
<1>8. NothingUnrecorded'
  <2>1. Ids(Records) \subseteq Ids(Records)' \cup lost'
    BY <1>1, <1>2 DEF Ids
  <2> QED
    BY <1>1, <2>1 DEF NInv, NothingUnrecorded
<1>9. Stage'
  BY <1>1 DEF Stage
<1> QED
  BY <1>5, <1>6, <1>7, <1>8, <1>9 DEF NInv

\* A record moves on, becomes a row, is lost or meets a row of another account with its id.
LEMMA WriterFacts ==
    ASSUME NInv, Deliver \/ WriteTrade \/ OthersWrite \/ WriterRestart
    PROVE  /\ WriterOK' /\ Records' \subseteq Records
           /\ Ids(Records) \subseteq Ids(Records)' \cup lost' \cup foreign'
           /\ foreign \subseteq foreign' /\ foreign' \subseteq OtherIds
           /\ lost \subseteq lost' /\ lost' \subseteq lost \cup Ids(Records)
<1>0. /\ out \in Seq(Recs) /\ inbox \in Seq(Recs) /\ rows \subseteq Recs
      /\ Len(out) <= Hwm /\ Len(inbox) <= Hwm /\ Hwm \in Nat /\ foreign \subseteq OtherIds
  BY WriterAssumption DEF NInv, Types, WriterOK
<1>1. CASE Deliver
  <2>1. /\ out # <<>> /\ Len(inbox) < Hwm /\ inbox' = Append(inbox, Head(out)) /\ out' = Tail(out)
        /\ UNCHANGED <<rows, foreign, lost>>
    BY <1>1 DEF Deliver
  <2>2. /\ ToSet(out) = {out[1]} \cup ToSet(out') /\ Head(out) = out[1] /\ out[1] \in Recs
        /\ out' \in Seq(Recs) /\ Len(out') = Len(out) - 1 /\ Len(out) \in Nat \ {0}
    BY <1>0, <2>1, ToSetTail
  <2>3. ToSet(inbox') = ToSet(inbox) \cup {out[1]}
    BY <1>0, <2>1, <2>2, ToSetAppend
  <2>4. inbox' \in Seq(Recs) /\ Len(inbox') = Len(inbox) + 1 /\ Len(inbox) \in Nat
    BY <1>0, <2>1, <2>2, AppendProperties, LenProperties
  <2>5. Records' = Records
    BY <2>1, <2>2, <2>3 DEF Records
  <2>6. WriterOK'
    BY <1>0, <2>1, <2>2, <2>4 DEF WriterOK
  <2> QED
    BY <1>0, <2>1, <2>5, <2>6 DEF Ids
<1>2. CASE WriteTrade
  <2> DEFINE r == inbox[1]
  <2>1. /\ inbox # <<>> /\ inbox' = Tail(inbox) /\ UNCHANGED <<out, foreign>>
        /\ \/ rows' = Insert(Head(inbox)) /\ UNCHANGED lost
           \/ lost' = lost \cup {Head(inbox).trade_id} /\ UNCHANGED rows
    BY <1>2 DEF WriteTrade
  <2>2. /\ ToSet(inbox) = {r} \cup ToSet(inbox') /\ Head(inbox) = r /\ r \in Recs
        /\ inbox' \in Seq(Recs) /\ Len(inbox') = Len(inbox) - 1 /\ Len(inbox) \in Nat \ {0}
    BY <1>0, <2>1, ToSetTail
  <2> HIDE DEF r
  <2>3. /\ rows \subseteq rows' /\ rows' \subseteq rows \cup {r}
        /\ r.trade_id \in Ids(rows') \cup lost' \cup foreign'
        /\ lost \subseteq lost' /\ lost' \subseteq lost \cup {r.trade_id}
    BY <2>1, <2>2 DEF Insert, Ids
  <2>4. Records' \subseteq Records /\ Records \subseteq Records' \cup {r} /\ r \in Records
    BY <2>1, <2>2, <2>3 DEF Records
  <2>5. Ids(rows') \subseteq Ids(Records') /\ Ids(Records') = Ids(Records)'
    BY DEF Ids, Records
  <2>6. WriterOK'
    BY <1>0, <2>1, <2>2, <2>3 DEF WriterOK
  <2> QED
    BY <1>0, <2>1, <2>3, <2>4, <2>5, <2>6 DEF Ids
<1>3. CASE WriterRestart
  <2>1. inbox' = <<>> /\ lost' = lost \cup Ids(ToSet(inbox)) /\ UNCHANGED <<out, rows, foreign>>
    BY <1>3 DEF WriterRestart
  <2>2. inbox' \in Seq(Recs) /\ Len(inbox') = 0 /\ ToSet(inbox') = {}
    BY <2>1, EmptySeq, ToSetEmpty
  <2>3. Records' \subseteq Records /\ Records = Records' \cup ToSet(inbox)
    BY <2>1, <2>2 DEF Records
  <2>4. WriterOK'
    BY <1>0, <2>1, <2>2 DEF WriterOK
  <2> QED
    BY <1>0, <2>1, <2>3, <2>4 DEF Ids
<1>4. CASE OthersWrite
  <2>1. UNCHANGED <<out, inbox, rows, lost>> /\ foreign \subseteq foreign' /\ foreign' \subseteq OtherIds
    BY <1>0, <1>4 DEF OthersWrite
  <2>2. Records' = Records /\ WriterOK'
    BY <1>0, <2>1 DEF Records, WriterOK
  <2> QED
    BY <2>1, <2>2 DEF Ids
<1> QED
  BY <1>1, <1>2, <1>3, <1>4

\* The writer's steps and its restarts.
LEMMA WriterKeeps == NInv /\ (Writer \/ RestartWriter) => NInv'
<1> SUFFICES ASSUME NInv, Writer \/ RestartWriter PROVE NInv'
  OBVIOUS
<1>1. /\ UNCHANGED <<trades, inflight, st, todo, mode, bound, held, adopted, excused, failed>>
      /\ restarts' \in 0..MaxRestarts
      /\ Deliver \/ WriteTrade \/ OthersWrite \/ WriterRestart
  BY NeatAssumption DEF Writer, RestartWriter, brokerVars, deskVars, history, NInv, Types
<1>2. /\ WriterOK' /\ Records' \subseteq Records
      /\ Ids(Records) \subseteq Ids(Records)' \cup lost' \cup foreign'
      /\ foreign \subseteq foreign' /\ foreign' \subseteq OtherIds
      /\ lost \subseteq lost' /\ lost' \subseteq lost \cup Ids(Records)
  BY <1>1, WriterFacts
<1>3. Grows
  BY <1>1, StillGrows
<1>4. lost' \subseteq 1..Len(trades)
  BY <1>2, RealIds DEF NInv, Types
<1>5. Types'
  BY <1>1, <1>2, <1>4 DEF NInv, Types, Noted
<1>6. DeskTracks' /\ Naive' /\ Settled'
  BY <1>1 DEF NInv, DeskTracks, Naive, Settled, Held
<1>7. RecordsTruthful'
  BY <1>2, <1>3, RecordsKept
<1>8. NothingUnrecorded'
  <2>1. Tracked' = Tracked
    BY <1>1 DEF Tracked
  <2> QED
    BY <1>1, <1>2, <2>1 DEF NInv, NothingUnrecorded
<1>9. Stage'
  BY <1>1 DEF NInv, Stage, Agenda, Justified, Held
<1> QED
  BY <1>5, <1>6, <1>7, <1>8, <1>9 DEF NInv

LEMMA StepNInv == NInv /\ [Next]_vars => NInv'
<1> SUFFICES ASSUME NInv, [Next]_vars PROVE NInv'
  OBVIOUS
<1>1. CASE UNCHANGED vars
  <2>1. /\ UNCHANGED <<trades, inflight, st, todo, mode, bound, held, adopted, excused, failed, restarts>>
        /\ UNCHANGED writerVars /\ UNCHANGED <<out, inbox, rows, foreign, lost>>
    BY <1>1 DEF vars, brokerVars, deskVars, writerVars
  <2>2. Grows /\ NotByDesk /\ SameTrades
    BY <2>1, StillGrows, StillSame
  <2>3. Stage'
    BY <2>1 DEF NInv, Stage, Agenda, Justified, Held
  <2>4. /\ inflight' \subseteq [pair : Pairs, dir : {-1, 1}, n : Nat] /\ bound' \in BOOLEAN
        /\ excused' \subseteq Noted'
    BY <2>1 DEF NInv, Types, Noted
  <2> QED
    BY <2>1, <2>2, <2>3, <2>4, DeskStep
<1>2. CASE \E p \in Pairs : Message(p)
  BY <1>2, IndicatorKeeps, PnfBoxKeeps, CandleKeeps DEF Message
<1>3. CASE Handler
  BY <1>3, AdoptKeeps, UpdateMfeKeeps, MaxHoldKeeps, TickKeeps, CloseTradeKeeps, SendTradeKeeps,
     OrderFilledKeeps, OrderFailedKeeps, DetailsKeeps DEF Handler
<1> QED
  BY <1>1, <1>2, <1>3, IdleKeeps, CloseAllKeeps, WriterKeeps, RestartKeeps, BrokerKeeps DEF Next

LEMMA NeatInvariant == Spec => []NInv
BY InitNInv, StepNInv, PTL DEF Spec

-----------------------------------------------------------------------------
(* What failed calls account for.                                           *)

\* The pair's record is due, or its details are: its trade is about to be given up.
Leaving(p) == \E i \in 1..Len(todo) : todo[i].op \in {"send", "details"} /\ todo[i].pair = p

\* The trades the desk is to go on with, and the pairs with an open trade.
Kept      == {st[p].tid : p \in {q \in Pairs : Held(q) /\ ~Leaving(q)}}
OpenPairs == {trades[t].pair : t \in OpenTrades}

\* Failures are numbered as they come: the next one is about nothing noted so far.
Numbered ==
    /\ excused \subseteq (1..Len(trades)) \X (0..failed)
    /\ \A r \in inflight : r.n \in 0..failed

\* OrphansAccounted, of the trades the desk has not begun to give up.  Before it adopts,
\* it may still adopt one trade of each pair.
OrphanCount ==
    /\ todo = Booting => Cardinality(OpenTrades) <= Cardinality(excused) + Cardinality(OpenPairs)
    /\ todo # Booting => Cardinality(OpenTrades \ Kept) <= Cardinality(excused)

Accounts == Numbered /\ OrphanCount

LEMMA Fewer ==
    ASSUME NEW S, IsFiniteSet(S), NEW T, T \subseteq S
    PROVE  IsFiniteSet(T) /\ Cardinality(T) \in Nat /\ Cardinality(S) \in Nat
           /\ Cardinality(T) <= Cardinality(S)
BY FS_Subset, FS_CardinalityType

LEMMA OneMore ==
    ASSUME NEW S, IsFiniteSet(S), NEW x, NEW T, T \subseteq S \cup {x}
    PROVE  IsFiniteSet(T) /\ Cardinality(T) \in Nat /\ Cardinality(S) \in Nat
           /\ Cardinality(T) <= Cardinality(S) + 1
<1>1. IsFiniteSet(S \cup {x}) /\ Cardinality(S \cup {x}) <= Cardinality(S) + 1
      /\ Cardinality(S) \in Nat
  <2>1. Cardinality(S) \in Nat
    BY FS_CardinalityType
  <2>2. /\ IsFiniteSet(S \cup {x})
        /\ Cardinality(S \cup {x}) = IF x \in S THEN Cardinality(S) ELSE Cardinality(S) + 1
    BY FS_AddElement
  <2> QED
    BY <2>1, <2>2
<1>2. IsFiniteSet(T) /\ Cardinality(T) \in Nat /\ Cardinality(T) <= Cardinality(S \cup {x})
      /\ Cardinality(S \cup {x}) \in Nat
  BY <1>1, Fewer
<1> QED
  BY <1>1, <1>2

\* Everything counted is finite.
LEMMA CountFacts ==
    ASSUME NInv, Numbered
    PROVE  /\ IsFiniteSet(OpenTrades) /\ IsFiniteSet(OpenTrades \ Kept) /\ IsFiniteSet(OpenPairs)
           /\ IsFiniteSet(excused) /\ Cardinality(excused) \in Nat
           /\ Cardinality(OpenTrades) \in Nat /\ Cardinality(OpenTrades \ Kept) \in Nat
           /\ Cardinality(OpenPairs) \in Nat /\ OpenTrades \subseteq 1..Len(trades)
           /\ OpenPairs \subseteq Pairs /\ failed \in Nat
<1>1. Len(trades) \in Nat /\ failed \in Nat /\ \A t \in 1..Len(trades) : trades[t] \in NTrade
  BY NFacts, ElementOfSeq, NeatAssumption DEF NInv, Types
<1>2. OpenTrades \subseteq 1..Len(trades) /\ OpenPairs \subseteq Pairs
  BY <1>1 DEF OpenTrades, OpenPairs, NTrade
<1>3. IsFiniteSet(1..Len(trades)) /\ IsFiniteSet(0..failed)
  BY <1>1, FS_Interval
<1>4. IsFiniteSet((1..Len(trades)) \X (0..failed))
  BY <1>3, FS_Product
<1>5. IsFiniteSet(OpenTrades) /\ Cardinality(OpenTrades) \in Nat
  BY <1>2, <1>3, Fewer
<1>6. IsFiniteSet(OpenTrades \ Kept) /\ Cardinality(OpenTrades \ Kept) \in Nat
  BY <1>5, Fewer
<1>7. IsFiniteSet(OpenPairs) /\ Cardinality(OpenPairs) \in Nat
  BY <1>2, NeatAssumption, Fewer
<1>8. IsFiniteSet(excused) /\ Cardinality(excused) \in Nat
  BY <1>4, Fewer DEF Numbered
<1> QED
  BY <1>1, <1>2, <1>5, <1>6, <1>7, <1>8

\* A set counted in two parts.
LEMMA SplitCount ==
    ASSUME NEW S, IsFiniteSet(S), NEW K
    PROVE  /\ Cardinality(S) = Cardinality(S \ K) + Cardinality(S \cap K)
           /\ IsFiniteSet(S \cap K) /\ Cardinality(S \cap K) \in Nat /\ Cardinality(S \ K) \in Nat
<1> DEFINE A == S \ K
           B == S \cap K
<1>1. A \cup B = S /\ A \cap B = {} /\ A \subseteq S /\ B \subseteq S
  OBVIOUS
<1>2. IsFiniteSet(A) /\ IsFiniteSet(B) /\ Cardinality(A) \in Nat /\ Cardinality(B) \in Nat
  BY <1>1, Fewer
<1> HIDE DEF A, B
<1>3. Cardinality(A \cup B) = Cardinality(A) + Cardinality(B) - Cardinality(A \cap B)
  BY <1>2, FS_Union
<1>4. Cardinality(A \cap B) = 0
  BY <1>1, FS_EmptySet
<1>5. Cardinality(A \cup B) = Cardinality(A) + Cardinality(B)
  BY <1>2, <1>3, <1>4
<1> QED
  BY <1>1, <1>2, <1>5 DEF A, B

\* A failure that is noted of several trades accounts for each of them.
LEMMA Noting ==
    ASSUME NInv, Numbered, Fail, UNCHANGED <<trades, inflight>>,
           NEW S, S \subseteq 1..Len(trades), excused' = excused \cup (S \X {failed'})
    PROVE  Numbered' /\ Cardinality(excused') = Cardinality(excused) + Cardinality(S)
<1>1. failed \in Nat /\ failed' = failed + 1 /\ Len(trades) \in Nat
  BY FailureNumber, NFacts DEF Fail
<1>2. 0..failed \subseteq 0..failed' /\ failed' \in 0..failed' /\ failed' \notin 0..failed
  BY <1>1
<1>3. IsFiniteSet(S) /\ Cardinality(S) \in Nat
  <2>1. IsFiniteSet(1..Len(trades))
    BY <1>1, FS_Interval
  <2> QED
    BY <2>1, Fewer
<1> DEFINE n == failed'
           N == S \X {n}
<1>4. N \cap excused = {} /\ N \subseteq (1..Len(trades)) \X (0..failed')
  BY <1>2 DEF Numbered
<1>5. IsFiniteSet({n}) /\ Cardinality({n}) = 1
  BY FS_Singleton
<1>6. IsFiniteSet(N) /\ Cardinality(N) = Cardinality(S) * 1
  BY <1>3, <1>5, FS_Product
<1>7. excused' = excused \cup N
  OBVIOUS
<1> HIDE DEF N
<1>8. IsFiniteSet(excused) /\ Cardinality(excused) \in Nat
  BY CountFacts
<1>9. Cardinality(excused') = Cardinality(excused) + Cardinality(N) - Cardinality(excused \cap N)
  BY <1>6, <1>7, <1>8, FS_Union
<1>10. Cardinality(excused \cap N) = 0
  BY <1>4, FS_EmptySet
<1>11. Cardinality(excused') = Cardinality(excused) + Cardinality(S)
  BY <1>3, <1>6, <1>8, <1>9, <1>10
<1>12. Numbered'
  BY <1>2, <1>4, <1>7 DEF Numbered
<1> QED
  BY <1>11, <1>12

\* The broker's steps, as far as the open trades go.
LEMMA CloseAsOpen ==
    ASSUME NInv, NEW t \in 1..Len(trades), trades[t].closer = "-",
           NEW who \in {"desk", "broker", "net"}, trades' = CloseAs(t, who)
    PROVE  OpenTrades' = OpenTrades \ {t}
BY CloseAsGrows DEF OpenTrades

LEMMA ExecutedOpen ==
    ASSUME NInv, NEW p \in Pairs, NEW d \in {-1, 1}, NEW id \in 0..MaxTrades, Executed(p, d, id)
    PROVE  \/ id = None /\ \E t \in OpenTrades : OpenTrades' = OpenTrades \ {t}
           \/ id # None /\ id \notin 1..Len(trades) /\ OpenTrades' = OpenTrades \cup {id}
<1>1. CASE \E t \in OpenTrades : trades' = CloseAs(t, "net") /\ id = None
  <2>1. PICK t \in OpenTrades : trades' = CloseAs(t, "net") /\ id = None
    BY <1>1
  <2>2. t \in 1..Len(trades) /\ trades[t].closer = "-"
    BY DEF OpenTrades
  <2> QED
    BY <2>1, <2>2, CloseAsOpen
<1>2. CASE /\ trades' = Append(trades, [pair |-> p, dir |-> d, closer |-> "-", trail |-> FALSE])
           /\ id = Len(trades) + 1
  <2> DEFINE new == [pair |-> p, dir |-> d, closer |-> "-", trail |-> FALSE]
  <2>1. new \in NTrade /\ new.closer = "-"
    BY DEF NTrade
  <2> HIDE DEF new
  <2>2. trades \in Seq(NTrade) /\ Len(trades) \in Nat
    BY NFacts
  <2>3. /\ Len(trades') = Len(trades) + 1 /\ trades'[Len(trades) + 1] = new
        /\ \A u \in 1..Len(trades) : trades'[u] = trades[u]
    BY <1>2, <2>1, <2>2, AppendProperties DEF new
  <2>4. id # None /\ id \notin 1..Len(trades)
        /\ \A u : u \in 1..Len(trades') <=> u \in 1..Len(trades) \/ u = id
    BY <1>2, <2>2, <2>3 DEF None
  <2>5. OpenTrades' = OpenTrades \cup {id}
    BY <1>2, <2>1, <2>3, <2>4 DEF OpenTrades
  <2> QED
    BY <2>4, <2>5
<1> QED
  BY <1>1, <1>2 DEF Executed

LEMMA NotBooting == ASSUME NEW s \in Seq(Tasks) PROVE s # Booting
<1>1. ASSUME s = Booting PROVE FALSE
  <2>1. s # <<>> /\ Head(s).op = "adopt"
    BY <1>1 DEF Booting
  <2>2. Head(s) \in Tasks
    BY <2>1, ToSetTail
  <2> QED
    BY <2>1, <2>2 DEF Tasks
<1> QED
  BY <1>1

\* The numbers keep up with the failures.
LEMMA StillNumbered ==
    ASSUME NInv, Grows, Numbered, excused' = excused, inflight' \subseteq inflight,
           failed' = failed \/ Fail
    PROVE  Numbered'
<1>1. Len(trades) \in Nat /\ failed \in Nat /\ failed' \in Nat /\ failed <= failed'
      /\ Len(trades') \in Nat /\ Len(trades) <= Len(trades')
  BY NFacts, FailureNumber DEF Fail, Grows
<1>2. 0..failed \subseteq 0..failed' /\ 1..Len(trades) \subseteq 1..Len(trades')
  BY <1>1
<1> QED
  BY <1>2 DEF Numbered

\* A step of the handler that accounts for what it leaves.
LEMMA Accounted ==
    ASSUME NInv, NInv', Accounts, Numbered', todo # Booting, todo' # Booting,
           \/ excused' = excused /\ (OpenTrades \ Kept)' \subseteq OpenTrades \ Kept
           \/ \E t, e : /\ (OpenTrades \ Kept)' \subseteq (OpenTrades \ Kept) \cup {t}
                        /\ excused' = excused \cup {e} /\ e \notin excused
    PROVE  Accounts'
<1>1. /\ IsFiniteSet(OpenTrades \ Kept) /\ IsFiniteSet(excused) /\ Cardinality(excused) \in Nat
      /\ Cardinality(OpenTrades \ Kept) <= Cardinality(excused)
  BY CountFacts DEF Accounts, OrphanCount
<1>2. CASE excused' = excused /\ (OpenTrades \ Kept)' \subseteq OpenTrades \ Kept
  <2>1. /\ Cardinality((OpenTrades \ Kept)') \in Nat /\ Cardinality(OpenTrades \ Kept) \in Nat
        /\ Cardinality((OpenTrades \ Kept)') <= Cardinality(OpenTrades \ Kept)
    BY <1>1, <1>2, Fewer
  <2>2. Cardinality((OpenTrades \ Kept)') <= Cardinality(excused)
    BY <1>1, <2>1
  <2> QED
    BY <1>2, <2>2 DEF Accounts, OrphanCount
<1>3. ASSUME NEW t, NEW e, (OpenTrades \ Kept)' \subseteq (OpenTrades \ Kept) \cup {t},
             excused' = excused \cup {e}, e \notin excused
      PROVE  Accounts'
  <2>1. /\ Cardinality((OpenTrades \ Kept)') \in Nat /\ Cardinality(OpenTrades \ Kept) \in Nat
        /\ Cardinality((OpenTrades \ Kept)') <= Cardinality(OpenTrades \ Kept) + 1
    BY <1>1, <1>3, OneMore
  <2>2. Cardinality(excused') = Cardinality(excused) + 1
    BY <1>1, <1>3, FS_AddElement
  <2>3. Cardinality((OpenTrades \ Kept)') <= Cardinality(excused')
    BY <1>1, <2>1, <2>2
  <2> QED
    BY <2>3 DEF Accounts, OrphanCount
<1> QED
  BY <1>2, <1>3

\* A rest of the handler in which nothing is given up.
Staying == {task \in Tasks : task.op \notin {"send", "details"}}

LEMMA StayingFacts ==
    /\ Plain \subseteq Staying /\ Staying \subseteq Tasks
    /\ \A a, b \in Seq(Staying) : a \o b \in Seq(Staying)
    /\ \A p \in Pairs : /\ Task("mfe", p) \in Staying /\ Task("hold", p) \in Staying
                        /\ Task("tick", p) \in Staying /\ Close(p) \in Staying
                        /\ \A d \in {-1, 1} : Order(p, d) \in Staying
<1>1. Plain \subseteq Staying /\ Staying \subseteq Tasks
  BY DEF Plain, Staying
<1>2. \A a, b \in Seq(Staying) : a \o b \in Seq(Staying)
  BY ConcatProperties
<1>3. ASSUME NEW p \in Pairs
      PROVE  /\ Task("mfe", p) \in Staying /\ Task("hold", p) \in Staying
             /\ Task("tick", p) \in Staying /\ Close(p) \in Staying
             /\ \A d \in {-1, 1} : Order(p, d) \in Staying
  BY <1>1, TaskFacts DEF Staying
<1> QED
  BY <1>1, <1>2, <1>3

\* The desk goes on with the trades it went on with.
LEMMA KeptStep ==
    ASSUME \A p \in Pairs : Held(p) /\ ~Leaving(p) => st'[p].tid = st[p].tid /\ ~Leaving(p)'
    PROVE  Kept \subseteq Kept'
BY DEF Kept, Held

LEMMA StayingStep ==
    ASSUME NInv, NInv', Accounts, Numbered', todo # Booting, todo' \in Seq(Staying),
           excused' = excused, OpenTrades' \subseteq OpenTrades,
           \A p \in Pairs : st'[p].tid = st[p].tid
    PROVE  Accounts'
<1>1. \A i \in 1..Len(todo') : todo'[i] \in Staying
  BY ElementOfSeq
<1>2. \A p \in Pairs : ~Leaving(p)'
  BY <1>1 DEF Leaving, Staying
<1>3. todo' \in Seq(Tasks)
  BY StayingFacts
<1>4. todo' # Booting
  BY <1>3, NotBooting
<1>5. (OpenTrades \ Kept)' \subseteq OpenTrades \ Kept
  BY <1>2, KeptStep
<1> QED
  BY <1>4, <1>5, Accounted

\* Messages, from an idle desk.
LEMMA MessageFacts ==
    ASSUME NInv, (\E p \in Pairs : Message(p)) \/ CloseAllWeekend
    PROVE  /\ todo = <<>> /\ UNCHANGED <<trades, inflight, excused, failed>>
           /\ todo' \in Seq(Staying) /\ \A q \in Pairs : st'[q].tid = st[q].tid
<1>1. todo = <<>> /\ UNCHANGED <<trades, inflight, excused, failed>> /\ <<>> \in Seq(Staying)
  <2>1. ASSUME NEW p \in Pairs, Message(p)
        PROVE  todo = <<>> /\ UNCHANGED <<brokerVars, history, failed>>
    BY <2>1 DEF Message, OwnIndicator, OtherIndicator, PnfBox, Candle
  <2>2. CloseAllWeekend => todo = <<>> /\ UNCHANGED <<brokerVars, history, failed>>
    BY DEF CloseAllWeekend
  <2> QED
    BY <2>1, <2>2 DEF brokerVars, history
<1>2. ASSUME NEW p \in Pairs, Message(p)
      PROVE  todo' \in Seq(Staying) /\ \A q \in Pairs : st'[q].tid = st[q].tid
  <2>1. /\ <<Task("mfe", p), Task("hold", p)>> \in Seq(Staying) /\ <<Task("tick", p)>> \in Seq(Staying)
        /\ <<Close(p)>> \in Seq(Staying) /\ <<Order(p, 1)>> \in Seq(Staying)
    BY StayingFacts
  <2>2. CASE OwnIndicator(p)
    <3> DEFINE own == IF Held(p) THEN <<Task("mfe", p), Task("hold", p)>> ELSE <<>>
    <3>1. own \in Seq(Staying)
      BY <1>1, <2>1
    <3>2. PICK ticks \in {<<Task("tick", p)>>, <<>>} : todo' = own \o ticks
      BY <2>2 DEF OwnIndicator
    <3>3. ticks \in Seq(Staying)
      BY <1>1, <2>1
    <3> HIDE DEF own
    <3> QED
      BY <2>2, <3>1, <3>2, <3>3, StayingFacts DEF OwnIndicator
  <2>3. CASE OtherIndicator(p)
    BY <2>1, <2>3 DEF OtherIndicator
  <2>4. CASE PnfBox(p)
    <3>1. todo' \in Seq(Staying)
      BY <1>1, <2>1, <2>4 DEF PnfBox
    <3> QED
      BY <2>4, <3>1 DEF PnfBox
  <2>5. CASE Candle(p)
    BY <2>1, <2>5 DEF Candle
  <2> QED
    BY <1>2, <2>2, <2>3, <2>4, <2>5 DEF Message
<1>3. ASSUME CloseAllWeekend
      PROVE  todo' \in Seq(Staying) /\ \A q \in Pairs : st'[q].tid = st[q].tid
  <2> DEFINE ps == {p \in Pairs : Held(p)}
  <2>1. ps \subseteq Pairs /\ "close" \in Ops \ {"adopt"} /\ todo' = ForEach("close", ps)
    BY <1>3 DEF CloseAllWeekend, Ops
  <2> HIDE DEF ps
  <2>2. todo' \in Seq(Tasks) /\ Len(todo') \in Nat /\ \A i \in 1..Len(todo') : todo'[i].op = "close"
    BY <2>1, ForEachFacts
  <2>3. \A i \in 1..Len(todo') : todo'[i] \in Staying
    BY <2>2, ElementOfSeq DEF Staying
  <2>4. todo' \in [1..Len(todo') -> Staying]
    BY <2>2, <2>3
  <2>5. todo' \in Seq(Staying)
    BY <2>2, <2>4
  <2> QED
    BY <1>3, <2>5 DEF CloseAllWeekend
<1> QED
  BY <1>1, <1>2, <1>3

LEMMA MessageAccounts ==
    ASSUME NInv, NInv', Accounts,
           (\E p \in Pairs : Message(p)) \/ CloseAllWeekend
    PROVE  Accounts'
<1>1. /\ todo = <<>> /\ UNCHANGED <<trades, inflight, excused, failed>> /\ <<>> \in Seq(Tasks)
      /\ todo' \in Seq(Staying) /\ \A q \in Pairs : st'[q].tid = st[q].tid
  BY MessageFacts
<1>2. Grows /\ Numbered' /\ OpenTrades' = OpenTrades /\ todo # Booting
  BY <1>1, StillGrows, StillNumbered, NotBooting DEF Accounts, OpenTrades
<1> QED
  BY <1>1, <1>2, StayingStep

\* The handler's tasks that give nothing up.
LEMMA StayingTasks ==
    ASSUME NInv, NEW op \in {"mfe", "hold", "tick", "order"}, Doing(op),
           NEW more \in Seq(Staying), Then(more)
    PROVE  todo' \in Seq(Staying) /\ todo # Booting
<1>1. todo \in Seq(Tasks) /\ Agenda /\ todo # <<>> /\ todo[1].op = op
  BY DoingFacts DEF Ops
<1>2. Tail(todo) \in Seq(Plain)
  BY <1>1, PlainTail
<1>3. Tail(todo) \in Seq(Staying)
  BY <1>2, StayingFacts
<1> QED
  BY <1>1, <1>3, StayingFacts, NotBooting DEF Then

LEMMA UpdateMfeFacts ==
    ASSUME NInv, UpdateMfe
    PROVE  /\ UNCHANGED <<inflight, excused>> /\ todo' \in Seq(Staying) /\ todo # Booting
           /\ Grows /\ Len(trades') = Len(trades) /\ OpenTrades' = OpenTrades
           /\ \A q \in Pairs : st'[q].tid = st[q].tid
<1> DEFINE p == Head(todo).pair
           t == st[p].tid
<1>0. Doing("mfe") /\ Then(<<>>) /\ UNCHANGED <<inflight, excused>>
  BY DEF UpdateMfe, history
<1>1. /\ Doing("mfe") /\ Then(<<>>) /\ <<>> \in Seq(Staying) /\ p \in Pairs
      /\ UNCHANGED <<inflight, excused>>
  <2>1. <<>> \in Seq(Staying)
    OBVIOUS
  <2>2. p \in Pairs
    BY <1>0, DoingFacts DEF Ops
  <2> QED
    BY <1>0, <2>1, <2>2
<1>2. todo' \in Seq(Staying) /\ todo # Booting
  BY <1>1, StayingTasks
<1>3. Grows /\ Len(trades') = Len(trades) /\ OpenTrades' = OpenTrades
  <2>1. CASE UNCHANGED trades
    BY <2>1, StillGrows DEF OpenTrades
  <2>2. CASE IsOpen(t) /\ trades' = [trades EXCEPT ![t].trail = TRUE]
    <3>1. t \in 1..Len(trades) /\ trades \in Seq(NTrade) /\ trades[t] \in NTrade
      BY <2>2, NFacts, ElementOfSeq DEF IsOpen
    <3>2. Grows
      BY <2>2, <3>1, TrailGrows
    <3> DEFINE u == [trades[t] EXCEPT !.trail = TRUE]
    <3>3. u \in NTrade /\ u.closer = trades[t].closer /\ trades' = [trades EXCEPT ![t] = u]
      BY <2>2, <3>1 DEF NTrade
    <3> HIDE DEF u, t
    <3>4. Len(trades') = Len(trades) /\ \A v \in 1..Len(trades) : trades'[v] = IF v = t THEN u ELSE trades[v]
      BY <3>1, <3>3, ExceptSeq
    <3> QED
      BY <3>2, <3>3, <3>4 DEF OpenTrades
  <2> QED
    BY <2>1, <2>2 DEF UpdateMfe
<1>4. \A q \in Pairs : st'[q].tid = st[q].tid
  <2>1. st' = st \/ st' = [st EXCEPT ![p].trail = TRUE]
    BY DEF UpdateMfe
  <2>2. st \in [Pairs -> PairState] /\ st[p] \in PairState
    BY <1>1, NFacts
  <2> HIDE DEF p
  <2>3. CASE st' = [st EXCEPT ![p].trail = TRUE]
    <3> DEFINE s == [st[p] EXCEPT !.trail = TRUE]
    <3>1. s.tid = st[p].tid /\ st' = [st EXCEPT ![p] = s]
      BY <1>1, <2>2, <2>3 DEF PairState
    <3> HIDE DEF s
    <3> QED
      BY <2>2, <3>1
  <2> QED
    BY <2>1, <2>3
<1> QED
  BY <1>1, <1>2, <1>3, <1>4

LEMMA UpdateMfeAccounts == NInv /\ NInv' /\ Accounts /\ UpdateMfe => Accounts'
<1> SUFFICES ASSUME NInv, NInv', Accounts, UpdateMfe PROVE Accounts'
  OBVIOUS
<1>1. failed' = failed \/ Fail
  BY DEF UpdateMfe
<1>2. Numbered'
  BY <1>1, UpdateMfeFacts, StillNumbered DEF Accounts
<1> QED
  BY <1>2, UpdateMfeFacts, StayingStep

LEMMA QuietTaskFacts ==
    ASSUME NInv, MaxHold \/ Tick \/ OrderFailed
    PROVE  UNCHANGED <<trades, st>> /\ todo' \in Seq(Staying) /\ todo # Booting
<1>1. UNCHANGED <<trades, st>> /\ <<>> \in Seq(Staying)
  BY DEF MaxHold, Tick, OrderFailed, brokerVars
<1>2. todo' \in Seq(Staying) /\ todo # Booting
  <2>1. CASE MaxHold
    <3>1. Doing("hold") /\ Head(todo).pair \in Pairs
      BY <2>1, DoingFacts DEF MaxHold, Ops
    <3>2. \E more \in Seq(Staying) : Then(more)
      <4>1. <<Close(Head(todo).pair)>> \in Seq(Staying)
        BY <3>1, StayingFacts
      <4> QED
        BY <1>1, <2>1, <4>1 DEF MaxHold
    <3> QED
      BY <3>1, <3>2, StayingTasks
  <2>2. CASE Tick
    <3> DEFINE p == Head(todo).pair
    <3>1. Doing("tick") /\ p \in Pairs
      BY <2>2, DoingFacts DEF Tick, Ops
    <3>2. <<Close(p)>> \in Seq(Staying) /\ <<Task("mfe", p)>> \in Seq(Staying)
          /\ \A d \in {-1, 1} : <<Order(p, d)>> \in Seq(Staying)
      BY <3>1, StayingFacts
    <3>3. Held(p) => st[p].dir \in {-1, 1}
      <4>1. Held(p) => st[p].tid \in 1..Len(trades) /\ trades[st[p].tid].dir = st[p].dir
        BY <3>1 DEF NInv, DeskTracks
      <4>2. Held(p) => trades[st[p].tid] \in NTrade
        BY <4>1, NFacts, ElementOfSeq
      <4> QED
        BY <4>1, <4>2 DEF NTrade
    <3>4. ASSUME NEW out3 \in {-1, 0, 1}, NEW erOk \in BOOLEAN
          PROVE  Decision(p, out3, erOk) \in Seq(Staying)
      <4> DEFINE enter(d) == IF erOk THEN <<Order(p, d)>> ELSE <<>>
      <4>1. \A d \in {-1, 1} : enter(d) \in Seq(Staying)
        BY <1>1, <3>2
      <4>2. out3 \in {-1, 1} => enter(out3) \in Seq(Staying) /\ <<Close(p)>> \o enter(out3) \in Seq(Staying)
        BY <3>2, <4>1, StayingFacts
      <4>3. Decision(p, out3, erOk) =
              CASE ~Held(p) /\ out3 \in {-1, 1} -> enter(out3)
                [] Held(p) /\ out3 = 0          -> <<Close(p)>>
                [] Held(p) /\ out3 = -st[p].dir -> <<Close(p)>> \o enter(out3)
                [] OTHER                        -> <<>>
        BY DEF Decision
      <4> HIDE DEF enter, p
      <4>4. Held(p) /\ out3 = -st[p].dir => out3 \in {-1, 1}
        BY <3>3
      <4> QED
        BY <1>1, <3>2, <3>3, <4>2, <4>3, <4>4
    <3>5. \E more \in Seq(Staying) : Then(more)
      <4>1. \A out3 \in {-1, 0, 1}, erOk \in BOOLEAN :
               Decision(p, out3, erOk) \o <<Task("mfe", p)>> \in Seq(Staying)
        BY <3>2, <3>4, StayingFacts
      <4> QED
        BY <1>1, <2>2, <3>2, <4>1 DEF Tick
    <3> QED
      BY <3>1, <3>5, StayingTasks
  <2>3. CASE OrderFailed
    <3>1. Doing("order")
      BY <2>3 DEF OrderFailed
    <3>2. todo \in Seq(Tasks) /\ todo # <<>> /\ Agenda /\ todo[1].op = "order" /\ todo[1] \in Tasks
      BY <3>1, DoingFacts DEF Ops
    <3>3. Tail(todo) \in Seq(Staying)
      BY <3>2, PlainTail, StayingFacts
    <3>4. todo \in Seq(Staying)
      <4>1. Len(todo) \in Nat /\ Tail(todo) \in Seq(Plain) /\ Len(Tail(todo)) = Len(todo) - 1
            /\ \A i \in 1..Len(Tail(todo)) : Tail(todo)[i] = todo[i + 1]
        BY <3>2, PlainTail, HeadTailProperties, LenProperties
      <4>2. ASSUME NEW i \in 1..Len(todo) PROVE todo[i] \in Staying
        <5>1. CASE i = 1
          BY <3>2, <5>1 DEF Staying
        <5>2. CASE i # 1
          <6>1. i - 1 \in 1..Len(Tail(todo)) /\ todo[i] = Tail(todo)[i - 1]
            BY <4>1, <5>2
          <6>2. Tail(todo)[i - 1] \in Staying
            BY <3>3, <6>1, ElementOfSeq
          <6> QED
            BY <6>1, <6>2
        <5> QED
          BY <5>1, <5>2
      <4>3. todo \in [1..Len(todo) -> Staying]
        BY <3>2, <4>1, <4>2
      <4> QED
        BY <4>1, <4>3
    <3>5. todo' \in Seq(Staying)
      <4>1. CASE Then(<<>>)
        BY <1>1, <3>1, <4>1, StayingTasks
      <4> QED
        BY <2>3, <3>3, <3>4, <4>1 DEF OrderFailed
    <3> QED
      BY <3>2, <3>5, NotBooting
  <2> QED
    BY <2>1, <2>2, <2>3
<1> QED
  BY <1>1, <1>2

LEMMA QuietTaskAccounts ==
    ASSUME NInv, NInv', Accounts, MaxHold \/ Tick \/ OrderFailed
    PROVE  Accounts'
<1>1. /\ UNCHANGED <<trades, st, excused>> /\ (failed' = failed \/ Fail)
  BY DEF MaxHold, Tick, OrderFailed, brokerVars, history
<1>2. Grows /\ OpenTrades' = OpenTrades
  BY <1>1, StillGrows DEF OpenTrades
<1>3. Numbered'
  <2>1. CASE inflight' = inflight
    BY <1>1, <1>2, <2>1, StillNumbered DEF Accounts
  <2>2. CASE OrderFailed /\ inflight' # inflight
    <3> DEFINE req == [pair |-> Head(todo).pair, dir |-> Head(todo).dir, n |-> failed]
    <3>1. inflight' = inflight \cup {req} /\ Fail /\ req.n = failed
      BY <2>2 DEF OrderFailed
    <3> HIDE DEF req
    <3>2. failed \in Nat /\ failed' = failed + 1 /\ Len(trades) \in Nat
      BY <1>1, <3>1, FailureNumber, NFacts DEF Fail
    <3>3. 0..failed \subseteq 0..failed' /\ failed \in 0..failed'
      BY <3>2
    <3> QED
      BY <1>1, <3>1, <3>3 DEF Accounts, Numbered
  <2> QED
    BY <2>1, <2>2 DEF MaxHold, Tick, OrderFailed, brokerVars
<1> QED
  BY <1>1, <1>2, <1>3, QuietTaskFacts, StayingStep

\* The clock, the writer and its restarts.
LEMMA StillAccounts ==
    ASSUME NInv, NInv', Accounts,
           UNCHANGED <<trades, inflight, todo, excused, failed>>,
           \A p \in Pairs : st'[p].tid = st[p].tid
    PROVE  Accounts'
<1>1. OpenTrades' = OpenTrades /\ OpenPairs' = OpenPairs
  BY DEF OpenTrades, OpenPairs
<1>2. Kept' = Kept
  BY DEF Kept, Held, Leaving
<1> QED
  BY <1>1, <1>2 DEF Accounts, Numbered, OrphanCount

LEMMA PairsAfter == ASSUME NInv, Grows PROVE IsFiniteSet(OpenPairs')
<1>1. \A t \in 1..Len(trades') : trades'[t] \in NTrade
  BY ElementOfSeq DEF Grows
<1>2. OpenPairs' \subseteq Pairs
  BY <1>1 DEF OpenPairs, OpenTrades, NTrade
<1> QED
  BY <1>2, NeatAssumption, Fewer

\* The broker ends a trade of a pair: of the open trades and of the pairs that have one,
\* at most one fewer.
LEMMA EndedCounts ==
    ASSUME NInv, NInv', Numbered, Numbered', Grows, NEW t \in OpenTrades, OpenTrades' = OpenTrades \ {t},
           Cardinality(OpenTrades) <= Cardinality(excused) + Cardinality(OpenPairs)
    PROVE  Cardinality(OpenTrades') <= Cardinality(excused) + Cardinality(OpenPairs')
<1>1. Cardinality(OpenTrades') = Cardinality(OpenTrades) - 1 /\ Cardinality(OpenTrades) \in Nat
      /\ Cardinality(excused) \in Nat /\ Cardinality(OpenPairs) \in Nat
      /\ OpenTrades \subseteq 1..Len(trades) /\ IsFiniteSet(OpenPairs')
  BY CountFacts, PairsAfter, FS_RemoveElement
<1>2. OpenPairs \subseteq OpenPairs' \cup {trades[t].pair}
  BY <1>1 DEF OpenPairs, Grows
<1>3. Cardinality(OpenPairs) <= Cardinality(OpenPairs') + 1 /\ Cardinality(OpenPairs') \in Nat
  BY <1>1, <1>2, OneMore
<1> QED
  BY <1>1, <1>3

LEMMA BrokerAccounts ==
    ASSUME NInv, NInv', Accounts,
           (\E t \in 1..Len(trades) : BrokerClose(t)) \/ (\E r \in inflight : ResolveLate(r))
    PROVE  Accounts'
<1>1. UNCHANGED <<st, todo, failed>> /\ inflight' \subseteq inflight
  BY DEF BrokerClose, ResolveLate, deskVars
<1>2. Kept' = Kept
  BY <1>1 DEF Kept, Held, Leaving
<1>3. /\ Grows /\ Numbered'
      /\ \/ excused' = excused /\ OpenTrades' = OpenTrades
         \/ excused' = excused /\ \E t \in OpenTrades : OpenTrades' = OpenTrades \ {t}
         \/ \E id, e : /\ id \notin OpenTrades /\ OpenTrades' = OpenTrades \cup {id}
                       /\ e \notin excused /\ excused' = excused \cup {e}
  <2>1. ASSUME NEW t \in 1..Len(trades), BrokerClose(t)
        PROVE  /\ Grows /\ Numbered' /\ excused' = excused
               /\ t \in OpenTrades /\ OpenTrades' = OpenTrades \ {t}
    <3>1. trades[t].closer = "-" /\ trades' = CloseAs(t, "broker") /\ excused' = excused
      BY <2>1 DEF BrokerClose, IsOpen, deskVars
    <3>2. Grows /\ OpenTrades' = OpenTrades \ {t} /\ t \in OpenTrades
      BY <3>1, CloseAsGrows, CloseAsOpen DEF OpenTrades
    <3> QED
      BY <1>1, <3>1, <3>2, StillNumbered DEF Accounts
  <2>2. ASSUME NEW r \in inflight, ResolveLate(r), UNCHANGED <<trades, excused>>
        PROVE  Grows /\ Numbered' /\ excused' = excused /\ OpenTrades' = OpenTrades
    BY <1>1, <2>2, StillGrows, StillNumbered DEF Accounts, OpenTrades
  <2>3. ASSUME NEW r \in inflight, NEW id \in 0..MaxTrades, Executed(r.pair, r.dir, id),
               excused' = excused \cup (({id} \ {None}) \X {r.n})
        PROVE  /\ Grows /\ Numbered'
               /\ \/ excused' = excused /\ \E t \in OpenTrades : OpenTrades' = OpenTrades \ {t}
                  \/ \E x, e : /\ x \notin OpenTrades /\ OpenTrades' = OpenTrades \cup {x}
                               /\ e \notin excused /\ excused' = excused \cup {e}
    <3>1. r.pair \in Pairs /\ r.dir \in {-1, 1} /\ r.n \in 0..failed
      BY DEF NInv, Types, Accounts, Numbered
    <3>2. Grows /\ (id # None => id \in 1..Len(trades'))
      BY <2>3, <3>1, ExecutedGrows
    <3>3. \/ id = None /\ \E t \in OpenTrades : OpenTrades' = OpenTrades \ {t}
          \/ id # None /\ id \notin 1..Len(trades) /\ OpenTrades' = OpenTrades \cup {id}
      BY <2>3, <3>1, ExecutedOpen
    <3>4. CASE id = None /\ \E t \in OpenTrades : OpenTrades' = OpenTrades \ {t}
      <4>1. excused' = excused
        BY <2>3, <3>4
      <4> QED
        BY <1>1, <3>2, <3>4, <4>1, StillNumbered DEF Accounts
    <3>5. CASE id # None /\ id \notin 1..Len(trades) /\ OpenTrades' = OpenTrades \cup {id}
      <4> DEFINE e == <<id, r.n>>
      <4>1. excused' = excused \cup {e} /\ e \notin excused /\ id \notin OpenTrades
        BY <2>3, <3>5 DEF Accounts, Numbered, OpenTrades
      <4>2. 1..Len(trades) \subseteq 1..Len(trades')
        BY <3>2, NFacts DEF Grows
      <4>3. e \in (1..Len(trades')) \X (0..failed)
        BY <3>1, <3>2, <3>5
      <4> HIDE DEF e
      <4>4. Numbered'
        BY <1>1, <4>1, <4>2, <4>3 DEF Accounts, Numbered
      <4> QED
        BY <3>2, <3>5, <4>1, <4>4
    <3> QED
      BY <3>3, <3>4, <3>5
  <2> QED
    BY <2>1, <2>2, <2>3 DEF ResolveLate
<1>4. CASE todo # Booting
  <2>1. todo' # Booting /\ Numbered'
    BY <1>1, <1>3, <1>4
  <2>2. \/ excused' = excused /\ OpenTrades' \subseteq OpenTrades
        \/ \E id, e : /\ OpenTrades' \subseteq OpenTrades \cup {id}
                      /\ e \notin excused /\ excused' = excused \cup {e}
    BY <1>3
  <2>3. \/ excused' = excused /\ (OpenTrades \ Kept)' \subseteq OpenTrades \ Kept
        \/ \E id, e : /\ (OpenTrades \ Kept)' \subseteq (OpenTrades \ Kept) \cup {id}
                      /\ e \notin excused /\ excused' = excused \cup {e}
    BY <1>2, <2>2
  <2> QED
    BY <1>4, <2>1, <2>3, Accounted
<1>5. CASE todo = Booting
  <2>1. /\ Numbered /\ IsFiniteSet(OpenTrades) /\ IsFiniteSet(excused) /\ Cardinality(excused) \in Nat
        /\ Cardinality(OpenTrades) \in Nat /\ Cardinality(OpenPairs) \in Nat
        /\ IsFiniteSet(OpenPairs') /\ OpenTrades \subseteq 1..Len(trades)
        /\ Cardinality(OpenTrades) <= Cardinality(excused) + Cardinality(OpenPairs)
    BY <1>3, <1>5, CountFacts, PairsAfter DEF Accounts, OrphanCount
  <2>2. Cardinality(OpenTrades') <= Cardinality(excused') + Cardinality(OpenPairs')
    <3>1. CASE excused' = excused /\ OpenTrades' = OpenTrades
      <4>1. OpenPairs' = OpenPairs
        BY <1>3, <2>1, <3>1 DEF OpenPairs, Grows
      <4> QED
        BY <2>1, <3>1, <4>1
    <3>2. CASE excused' = excused /\ \E t \in OpenTrades : OpenTrades' = OpenTrades \ {t}
      BY <1>3, <2>1, <3>2, EndedCounts
    <3>3. ASSUME NEW id, NEW e, id \notin OpenTrades, OpenTrades' = OpenTrades \cup {id},
                 e \notin excused, excused' = excused \cup {e}
          PROVE  Cardinality(OpenTrades') <= Cardinality(excused') + Cardinality(OpenPairs')
      <4>1. OpenPairs \subseteq OpenPairs'
        BY <1>3, <2>1, <3>3 DEF OpenPairs, Grows
      <4>2. Cardinality(OpenPairs) <= Cardinality(OpenPairs') /\ Cardinality(OpenPairs') \in Nat
        BY <2>1, <4>1, Fewer
      <4>3. /\ Cardinality(OpenTrades') = Cardinality(OpenTrades) + 1
            /\ Cardinality(excused') = Cardinality(excused) + 1
        BY <2>1, <3>3, FS_AddElement
      <4> QED
        BY <2>1, <4>2, <4>3
    <3> QED
      BY <1>3, <3>1, <3>2, <3>3
  <2> QED
    BY <1>1, <1>3, <1>5, <2>2 DEF Accounts, OrphanCount
<1> QED
  BY <1>4, <1>5

\* A restart forgets at most one open trade of each pair.
LEMMA RestartAccounts == NInv /\ NInv' /\ Accounts /\ Restart => Accounts'
<1> SUFFICES ASSUME NInv, NInv', Accounts, Restart PROVE Accounts'
  OBVIOUS
<1>1. todo' = Booting /\ UNCHANGED <<trades, inflight, excused, failed>>
  BY DEF Restart, brokerVars, history
<1>2. OpenTrades' = OpenTrades /\ OpenPairs' = OpenPairs /\ Numbered'
  BY <1>1 DEF OpenTrades, OpenPairs, Accounts, Numbered
<1>3. /\ IsFiniteSet(OpenTrades) /\ IsFiniteSet(OpenPairs) /\ Cardinality(excused) \in Nat
      /\ Cardinality(OpenTrades) \in Nat /\ Cardinality(OpenTrades \ Kept) \in Nat
      /\ Cardinality(OpenPairs) \in Nat /\ IsFiniteSet(OpenTrades \ Kept)
  BY CountFacts DEF Accounts
<1>4. Cardinality(OpenTrades) <= Cardinality(excused) + Cardinality(OpenPairs)
  <2>1. CASE todo = Booting
    BY <2>1 DEF Accounts, OrphanCount
  <2>2. CASE todo # Booting
    <3> DEFINE S == OpenTrades \cap Kept
               f == [t \in S |-> trades[t].pair]
    <3>1. \A t \in S : trades[t].pair \in OpenPairs
                       /\ trades[t].pair \in Pairs /\ st[trades[t].pair].tid = t
      <4>1. ASSUME NEW t \in S
            PROVE  trades[t].pair \in Pairs /\ st[trades[t].pair].tid = t
        <5>1. PICK p \in Pairs : Held(p) /\ t = st[p].tid
          BY DEF Kept
        <5> QED
          BY <5>1 DEF NInv, DeskTracks
      <4> QED
        BY <4>1 DEF OpenPairs
    <3>2. f \in Injection(S, OpenPairs)
      <4>1. f \in [S -> OpenPairs]
        BY <3>1
      <4>2. \A a, b \in S : a # b => f[a] # f[b]
        BY <3>1
      <4> QED
        BY <4>1, <4>2 DEF Injection, IsInjective
    <3> HIDE DEF f
    <3>3. Cardinality(OpenTrades) = Cardinality(OpenTrades \ Kept) + Cardinality(S)
          /\ Cardinality(S) \in Nat
      BY <1>3, SplitCount
    <3>4. Cardinality(S) <= Cardinality(OpenPairs)
      BY <1>3, <3>2, FS_Injection
    <3>5. Cardinality(OpenTrades \ Kept) <= Cardinality(excused)
      BY <2>2 DEF Accounts, OrphanCount
    <3> QED
      BY <1>3, <3>3, <3>4, <3>5
  <2> QED
    BY <2>1, <2>2
<1> QED
  BY <1>1, <1>2, <1>4 DEF Accounts, OrphanCount

\* The start: each pair with an open trade goes on with one of its own; if the read
\* fails, the failure accounts for all.
LEMMA AdoptAccounts == NInv /\ NInv' /\ Accounts /\ Adopt => Accounts'
<1> SUFFICES ASSUME NInv, NInv', Accounts, Adopt PROVE Accounts'
  OBVIOUS
<1>1. /\ todo = Booting /\ st = AllFlat /\ todo' = <<>> /\ UNCHANGED <<trades, inflight>>
      /\ todo' # Booting
  <2>1. todo = Booting /\ st = AllFlat /\ todo' = <<>>
    BY AdoptFacts
  <2>2. UNCHANGED <<trades, inflight>>
    BY DEF Adopt, brokerVars
  <2>3. <<>> \in Seq(Tasks)
    OBVIOUS
  <2>4. todo' # Booting
    BY <2>1, <2>3, NotBooting
  <2> QED
    BY <2>1, <2>2, <2>4
<1>2. OpenTrades' = OpenTrades /\ Grows
  BY <1>1, StillGrows DEF OpenTrades
<1>3. /\ IsFiniteSet(OpenTrades) /\ IsFiniteSet(excused) /\ Cardinality(excused) \in Nat
      /\ Cardinality(OpenTrades) \in Nat /\ Cardinality(OpenPairs) \in Nat
      /\ OpenTrades \subseteq 1..Len(trades) /\ OpenPairs \subseteq Pairs
      /\ Cardinality(OpenTrades) <= Cardinality(excused) + Cardinality(OpenPairs)
  BY <1>1, CountFacts DEF Accounts, OrphanCount
<1>4. CASE Fail /\ excused' = excused \cup (OpenTrades \X {failed'})
  <2>1. Numbered' /\ Cardinality(excused') = Cardinality(excused) + Cardinality(OpenTrades)
    BY <1>1, <1>3, <1>4, Noting DEF Accounts
  <2>2. Cardinality(OpenTrades \ Kept') \in Nat
        /\ Cardinality(OpenTrades \ Kept') <= Cardinality(OpenTrades)
    BY <1>3, Fewer
  <2>3. Cardinality((OpenTrades \ Kept)') <= Cardinality(excused')
    BY <1>2, <1>3, <2>1, <2>2
  <2> QED
    BY <1>1, <2>1, <2>3 DEF Accounts, OrphanCount
<1>5. ASSUME NEW last \in [Pairs -> OpenTrades \cup {None}],
             \A p \in Pairs :
               LET own == {t \in OpenTrades : trades[t].pair = p}
               IN  IF own = {} THEN last[p] = None ELSE last[p] \in own,
             st' = [p \in Pairs |->
                      IF last[p] = None THEN st[p]
                      ELSE [st[p] EXCEPT !.tid = last[p], !.dir = trades[last[p]].dir,
                                         !.entry = last[p], !.time = "naive"]],
             UNCHANGED <<excused, failed>>
      PROVE  Accounts'
  <2>1. Numbered'
    BY <1>1, <1>2, <1>5, StillNumbered DEF Accounts
  <2>2. \A q \in OpenPairs : last[q] \in OpenTrades /\ trades[last[q]].pair = q /\ last[q] # None
    <3>1. ASSUME NEW q \in OpenPairs PROVE last[q] \in OpenTrades /\ trades[last[q]].pair = q
      <4>1. PICK t \in OpenTrades : trades[t].pair = q
        BY DEF OpenPairs
      <4>2. q \in Pairs
        BY <1>3
      <4> QED
        BY <1>5, <4>1, <4>2
    <3>2. None \notin OpenTrades
      BY NFacts DEF OpenTrades
    <3> QED
      BY <3>1, <3>2
  <2>3. \A q \in OpenPairs : st'[q].tid = last[q]
    <3>1. ASSUME NEW q \in OpenPairs PROVE st'[q].tid = last[q]
      <4> DEFINE t == last[q]
                 d == trades[last[q]].dir
                 s == [st[q] EXCEPT !.tid = t, !.dir = d, !.entry = t, !.time = "naive"]
      <4>1. q \in Pairs /\ st[q] \in PairState /\ last[q] # None
        BY <1>3, <2>2, NFacts
      <4>2. st'[q] = s
        BY <1>5, <4>1
      <4> HIDE DEF t, d
      <4>3. s.tid = t
        BY <4>1 DEF PairState
      <4> QED
        BY <4>2, <4>3 DEF t
    <3> QED
      BY <3>1
  <2>4. \A p \in Pairs : ~Leaving(p)'
    BY <1>1 DEF Leaving
  <2>5. \A q \in OpenPairs : last[q] \in OpenTrades \cap Kept'
    BY <1>3, <2>2, <2>3, <2>4 DEF Kept, Held
  <2> DEFINE g == [q \in OpenPairs |-> last[q]]
             S == OpenTrades \cap Kept'
  <2>6. g \in Injection(OpenPairs, S)
    <3>1. g \in [OpenPairs -> S]
      BY <2>5
    <3>2. \A a, b \in OpenPairs : a # b => g[a] # g[b]
      BY <2>2
    <3> QED
      BY <3>1, <3>2 DEF Injection, IsInjective
  <2> HIDE DEF g
  <2>7. /\ Cardinality(OpenTrades) = Cardinality(OpenTrades \ Kept') + Cardinality(S)
        /\ IsFiniteSet(S) /\ Cardinality(S) \in Nat /\ Cardinality(OpenTrades \ Kept') \in Nat
    BY <1>3, SplitCount
  <2>8. Cardinality(OpenPairs) <= Cardinality(S)
    BY <2>6, <2>7, FS_Injection
  <2>9. Cardinality((OpenTrades \ Kept)') <= Cardinality(excused')
    <3>1. (OpenTrades \ Kept)' = OpenTrades \ Kept' /\ excused' = excused
      BY <1>2, <1>5
    <3> HIDE DEF S
    <3>2. Cardinality(OpenTrades \ Kept') <= Cardinality(excused)
      BY <1>3, <2>7, <2>8
    <3> QED
      BY <3>1, <3>2
  <2> QED
    BY <1>1, <2>1, <2>9 DEF Accounts, OrphanCount
<1> QED
  BY <1>4, <1>5 DEF Adopt

\* The idle second: what the broker still has open is not given up, unless the read
\* failed; then the failure accounts for it.
LEMMA IdleAccounts == NInv /\ NInv' /\ Accounts /\ Idle => Accounts'
<1> SUFFICES ASSUME NInv, NInv', Accounts, Idle PROVE Accounts'
  OBVIOUS
<1>1. todo = <<>> /\ UNCHANGED <<trades, inflight, st>> /\ (failed' = failed \/ Fail)
  BY DEF Idle, brokerVars
<1>2. OpenTrades' = OpenTrades /\ Grows /\ <<>> \in Seq(Tasks)
  BY <1>1, StillGrows DEF OpenTrades
<1>3. todo # Booting
  BY <1>1, <1>2, NotBooting
<1>4. PICK seen : todo' = ForEach("details", Gone(seen))
  BY DEF Idle
<1>5. Gone(seen) \subseteq Pairs /\ "details" \in Ops \ {"adopt"}
  BY DEF Gone, Ops
<1>6. /\ todo' \in Seq(Tasks)
      /\ \A i \in 1..Len(todo') : todo'[i].op = "details" /\ todo'[i].pair \in Gone(seen)
  BY <1>4, <1>5, ForEachFacts
<1>7. todo' # Booting
  BY <1>6, NotBooting
<1>8. /\ IsFiniteSet(OpenTrades) /\ Cardinality(excused) \in Nat /\ IsFiniteSet(OpenTrades \ Kept)
      /\ Cardinality(OpenTrades) \in Nat /\ Cardinality(OpenTrades \ Kept) \in Nat
      /\ OpenTrades \subseteq 1..Len(trades)
      /\ Cardinality(OpenTrades \ Kept) <= Cardinality(excused)
  BY <1>3, CountFacts DEF Accounts, OrphanCount
<1>9. CASE todo' = ForEach("details", Gone(OpenTrades)) /\ UNCHANGED <<excused, failed>>
  <2>1. Numbered'
    BY <1>1, <1>2, <1>9, StillNumbered DEF Accounts
  <2>2. \A i \in 1..Len(todo') : todo'[i].pair \in Gone(OpenTrades)
    <3>1. Gone(OpenTrades) \subseteq Pairs
      BY DEF Gone
    <3> QED
      BY <1>5, <1>9, <3>1, ForEachFacts
  <2>3. \A p \in Pairs : st[p].tid \in OpenTrades => ~Leaving(p)'
    BY <2>2 DEF Leaving, Gone
  <2>4. (OpenTrades \ Kept)' \subseteq OpenTrades \ Kept
    BY <1>1, <1>2, <2>3 DEF Kept, Held
  <2> QED
    BY <1>3, <1>7, <1>9, <2>1, <2>4, Accounted
<1>10. CASE /\ Tracked \cap OpenTrades # {} /\ Fail
            /\ excused' = excused \cup ((Tracked \cap OpenTrades) \X {failed'})
  <2> DEFINE S == Tracked \cap OpenTrades
  <2>1. S \subseteq 1..Len(trades) /\ excused' = excused \cup (S \X {failed'})
    BY <1>8, <1>10
  <2>2. IsFiniteSet(S) /\ Cardinality(S) \in Nat
    BY <1>8, Fewer
  <2>3. OpenTrades \cap Kept \subseteq S
    BY DEF Kept, Held, Tracked
  <2> HIDE DEF S
  <2>4. Numbered' /\ Cardinality(excused') = Cardinality(excused) + Cardinality(S)
    BY <1>1, <1>10, <2>1, Noting DEF Accounts
  <2>5. /\ Cardinality(OpenTrades) = Cardinality(OpenTrades \ Kept) + Cardinality(OpenTrades \cap Kept)
        /\ Cardinality(OpenTrades \cap Kept) \in Nat
    BY <1>8, SplitCount
  <2>6. Cardinality(OpenTrades \cap Kept) <= Cardinality(S)
    BY <2>2, <2>3, Fewer
  <2>7. Cardinality(OpenTrades \ Kept') \in Nat
        /\ Cardinality(OpenTrades \ Kept') <= Cardinality(OpenTrades)
    BY <1>8, Fewer
  <2>8. Cardinality((OpenTrades \ Kept)') <= Cardinality(excused')
    BY <1>2, <1>8, <2>2, <2>4, <2>5, <2>6, <2>7
  <2> QED
    BY <1>7, <2>4, <2>8 DEF Accounts, OrphanCount
<1> QED
  BY <1>9, <1>10 DEF Idle

\* Behind the task that is done, no pair begins to leave.
LEMMA LeavingThen ==
    ASSUME todo \in Seq(Tasks), todo # <<>>, NEW more \in Seq(Tasks), Then(more)
    PROVE  /\ todo' \in Seq(Tasks) /\ todo' # Booting
           /\ \A q : /\ ~Leaving(q)
                     /\ \A i \in 1..Len(more) : more[i].op \in {"send", "details"} => more[i].pair # q
                     => ~Leaving(q)'
<1> DEFINE t == more \o Tail(todo)
<1>1. /\ t \in Seq(Tasks) /\ Len(t) = Len(more) + Len(todo) - 1
      /\ Len(todo) \in Nat \ {0} /\ Len(more) \in Nat
      /\ \A i \in 1..Len(more) : t[i] = more[i]
      /\ \A i \in 1..(Len(todo) - 1) : t[Len(more) + i] = todo[i + 1]
  BY ThenFacts
<1>2. todo' = t
  BY DEF Then
<1> HIDE DEF t
<1>3. todo' # Booting
  BY <1>1, <1>2, NotBooting
<1>4. ASSUME NEW q, ~Leaving(q),
             \A i \in 1..Len(more) : more[i].op \in {"send", "details"} => more[i].pair # q,
             NEW i \in 1..Len(t), t[i].op \in {"send", "details"}
      PROVE  t[i].pair # q
  <2>1. CASE i <= Len(more)
    <3>1. i \in 1..Len(more)
      BY <1>1, <2>1
    <3> QED
      BY <1>1, <1>4, <3>1
  <2>2. CASE i > Len(more)
    <3>1. i - Len(more) \in 1..(Len(todo) - 1) /\ Len(more) + (i - Len(more)) = i
          /\ (i - Len(more)) + 1 \in 1..Len(todo)
      BY <1>1, <2>2
    <3>2. t[i] = todo[(i - Len(more)) + 1]
      BY <1>1, <3>1
    <3> QED
      BY <1>4, <3>1, <3>2 DEF Leaving
  <2> QED
    BY <1>1, <2>1, <2>2
<1> QED
  BY <1>1, <1>2, <1>3, <1>4 DEF Leaving

\* A task about one pair gives up the trade of that pair at most.
LEMMA OthersKept ==
    ASSUME NEW p \in Pairs,
           \A q \in Pairs \ {p} : st'[q].tid = st[q].tid /\ (~Leaving(q) => ~Leaving(q)')
    PROVE  Kept \ {st[p].tid} \subseteq Kept'
BY DEF Kept, Held

\* A close, a record or the details of a pair: no other pair begins to leave, and this
\* one does only if its record is due next.
LEMMA GivenUp ==
    ASSUME NInv, CloseTrade \/ SendTrade \/ Details
    PROVE  LET p == Head(todo).pair
           IN  /\ p \in Pairs /\ todo \in Seq(Tasks) /\ todo # <<>> /\ todo # Booting
               /\ todo' \in Seq(Tasks) /\ todo' # Booting
               /\ \A q \in Pairs : q # p \/ Then(<<>>) => (~Leaving(q) => ~Leaving(q)')
<1> DEFINE p == Head(todo).pair
<1>1. p \in Pairs /\ todo \in Seq(Tasks) /\ todo # <<>>
  <2>1. Doing("close") \/ Doing("send") \/ Doing("details")
    BY DEF CloseTrade, SendTrade, Details
  <2> QED
    BY <2>1, DoingFacts DEF Ops
<1>2. \A by \in {"desk", "broker"}, px \in {"broker", "mid"} :
        Send(p, by, px) \in Tasks /\ Send(p, by, px).pair = p
  BY <1>1, TaskFacts
<1>3. PICK more : /\ Then(more)
                  /\ \/ more = <<>>
                     \/ \E by \in {"desk", "broker"}, px \in {"broker", "mid"} :
                          more = <<Send(p, by, px)>>
  BY DEF CloseTrade, SendTrade, Details
<1> HIDE DEF p
<1>4. more \in Seq(Tasks) /\ \A i \in 1..Len(more) : more[i].pair = p
  <2>1. CASE more = <<>>
    BY <2>1
  <2>2. CASE \E x \in Tasks : x.pair = p /\ more = <<x>>
    BY <2>2
  <2> QED
    BY <1>2, <1>3, <2>1, <2>2
<1>5. /\ todo' \in Seq(Tasks) /\ todo' # Booting
      /\ \A q \in Pairs : q # p => (~Leaving(q) => ~Leaving(q)')
  BY <1>1, <1>3, <1>4, LeavingThen
<1>6. ASSUME Then(<<>>), NEW q \in Pairs, ~Leaving(q) PROVE ~Leaving(q)'
  <2> DEFINE none == <<>>
  <2>1. none \in Seq(Tasks) /\ 1..Len(none) = {} /\ Then(none)
    BY <1>6
  <2> HIDE DEF none
  <2> QED
    BY <1>1, <1>6, <2>1, LeavingThen
<1> QED
  BY <1>1, <1>5, <1>6, NotBooting DEF p

\* A close that fails leaves its trade open, and is noted of it.
LEMMA CloseTradeAccounts == NInv /\ NInv' /\ Accounts /\ CloseTrade => Accounts'
<1> SUFFICES ASSUME NInv, NInv', Accounts, CloseTrade PROVE Accounts'
  OBVIOUS
<1> DEFINE p == Head(todo).pair
           t == st[p].tid
<1>1. /\ Doing("close") /\ p \in Pairs /\ todo \in Seq(Tasks) /\ todo # <<>>
      /\ UNCHANGED <<inflight, st>>
  BY DoingFacts DEF CloseTrade, Ops
<1>2. \/ /\ t \in 1..Len(trades) /\ trades[t].closer = "-" /\ trades' = CloseAs(t, "desk")
         /\ Then(<<Send(p, "desk", "broker")>>) /\ UNCHANGED <<excused, failed>>
      \/ /\ t \notin OpenTrades /\ UNCHANGED <<trades, excused, failed>>
         /\ Then(<<Send(p, "desk", "mid")>>) \/ Then(<<>>)
      \/ /\ t \in 1..Len(trades) /\ UNCHANGED trades /\ Fail
         /\ Then(<<Send(p, "desk", "mid")>>) /\ excused' = excused \cup {<<t, failed'>>}
  <2>1. None \notin OpenTrades
    BY NFacts DEF OpenTrades
  <2> QED
    BY <2>1 DEF CloseTrade, IsOpen, OpenTrades, Held
<1>3. /\ todo' # Booting
      /\ \A q \in Pairs \ {p} : ~Leaving(q) => ~Leaving(q)'
  BY GivenUp
<1>4. Kept \ {t} \subseteq Kept' /\ todo # Booting
  <2> HIDE DEF p
  <2> QED
    BY <1>1, <1>3, OthersKept, NotBooting
<1> HIDE DEF p, t
<1>5. CASE /\ t \in 1..Len(trades) /\ trades[t].closer = "-" /\ trades' = CloseAs(t, "desk")
           /\ UNCHANGED <<excused, failed>>
  <2>1. Grows /\ OpenTrades' = OpenTrades \ {t}
    BY <1>5, CloseAsGrows, CloseAsOpen
  <2>2. Numbered' /\ (OpenTrades \ Kept)' \subseteq OpenTrades \ Kept
    BY <1>1, <1>4, <1>5, <2>1, StillNumbered DEF Accounts
  <2> QED
    BY <1>3, <1>4, <1>5, <2>2, Accounted
<1>6. CASE t \notin OpenTrades /\ UNCHANGED <<trades, excused, failed>>
  <2>1. Grows /\ OpenTrades' = OpenTrades
    BY <1>6, StillGrows DEF OpenTrades
  <2>2. Numbered' /\ (OpenTrades \ Kept)' \subseteq OpenTrades \ Kept
    BY <1>1, <1>4, <1>6, <2>1, StillNumbered DEF Accounts
  <2> QED
    BY <1>3, <1>4, <1>6, <2>2, Accounted
<1>7. CASE t \in 1..Len(trades) /\ UNCHANGED trades /\ Fail /\ excused' = excused \cup {<<t, failed'>>}
  <2>1. Grows /\ OpenTrades' = OpenTrades
    BY <1>7, StillGrows DEF OpenTrades
  <2> DEFINE e == <<t, failed'>>
  <2>2. failed \in Nat /\ failed' = failed + 1 /\ Len(trades) \in Nat
    BY <1>7, FailureNumber, NFacts DEF Fail
  <2>3. 0..failed \subseteq 0..failed' /\ failed' \in 0..failed' /\ failed' \notin 0..failed
    BY <2>2
  <2>4. e \notin excused /\ e \in (1..Len(trades')) \X (0..failed')
    BY <1>7, <2>3 DEF Accounts, Numbered
  <2>5. excused' = excused \cup {e}
    BY <1>7
  <2> HIDE DEF e
  <2>6. Numbered'
    BY <1>1, <1>7, <2>3, <2>4, <2>5 DEF Accounts, Numbered
  <2>7. (OpenTrades \ Kept)' \subseteq (OpenTrades \ Kept) \cup {t}
    BY <1>4, <2>1
  <2> QED
    BY <1>3, <1>4, <2>4, <2>5, <2>6, <2>7, Accounted
<1> QED
  BY <1>2, <1>5, <1>6, <1>7

\* The pair was leaving already: its record is sent, or due next.
LEMMA SendTradeAccounts ==
    ASSUME NInv, NInv', Accounts, SendTrade \/ Details PROVE Accounts'
<1> DEFINE p == Head(todo).pair
<1>1. /\ Doing("send") \/ Doing("details")
      /\ UNCHANGED <<trades, inflight, excused>> /\ (failed' = failed \/ Fail)
  BY DEF SendTrade, Details, brokerVars, history
<1>2. /\ p \in Pairs /\ todo \in Seq(Tasks) /\ todo # <<>> /\ Leaving(p)
  <2>1. /\ p \in Pairs /\ todo \in Seq(Tasks) /\ todo # <<>> /\ Len(todo) \in Nat \ {0}
        /\ Head(todo) = todo[1] /\ todo[1].op \in {"send", "details"}
    BY <1>1, DoingFacts DEF Ops
  <2> QED
    BY <2>1 DEF Leaving
<1>3. /\ todo' # Booting
      /\ \A q \in Pairs \ {p} : ~Leaving(q) => ~Leaving(q)'
  BY GivenUp
<1>4. \A q \in Pairs \ {p} : st'[q].tid = st[q].tid
  <2>1. st \in [Pairs -> PairState]
    BY NFacts
  <2> QED
    BY <1>2, <2>1 DEF SendTrade, Details
<1> HIDE DEF p
<1>5. Kept \subseteq Kept'
  BY <1>2, <1>3, <1>4 DEF Kept, Held
<1>6. Grows /\ OpenTrades' = OpenTrades /\ todo # Booting
  BY <1>1, <1>2, StillGrows, NotBooting DEF OpenTrades
<1>7. Numbered' /\ (OpenTrades \ Kept)' \subseteq OpenTrades \ Kept
  BY <1>1, <1>5, <1>6, StillNumbered DEF Accounts
<1> QED
  BY <1>1, <1>3, <1>6, <1>7, Accounted

\* What the broker opens, the pair goes on with.
LEMMA OrderFilledAccounts == NInv /\ NInv' /\ Accounts /\ OrderFilled => Accounts'
<1> SUFFICES ASSUME NInv, NInv', Accounts, OrderFilled PROVE Accounts'
  OBVIOUS
<1>0. PICK p \in Pairs : p = todo[1].pair
  BY DoingFacts DEF OrderFilled, Ops
<1>1. /\ Doing("order") /\ todo[1].op = "order" /\ Head(todo) = todo[1] /\ Then(<<>>)
      /\ UNCHANGED <<inflight, excused, failed>>
      /\ todo \in Seq(Tasks) /\ todo # <<>> /\ Agenda /\ Len(todo) \in Nat \ {0} /\ todo[1] \in Tasks
  BY DoingFacts DEF OrderFilled, Ops
<1>2. ~Held(p) /\ todo[1].dir \in {-1, 1}
  <2>1. 1 \in 1..Len(todo)
    BY <1>1
  <2>2. todo[1].dir # 0 /\ todo[1].dir \in {-1, 0, 1}
    BY <1>1, <2>1 DEF Agenda, Tasks
  <2> QED
    BY <1>0, <1>1, <2>1, <2>2 DEF Agenda
<1>3. PICK id \in 0..MaxTrades :
        /\ Executed(p, todo[1].dir, id)
        /\ st' = IF id = None THEN st ELSE [st EXCEPT ![p] = Opened(st[p], id, todo[1].dir)]
  BY <1>0, <1>1 DEF OrderFilled
<1>4. PICK d \in {-1, 1} : d = todo[1].dir
  BY <1>2
<1>5. /\ Grows
      /\ \/ id = None /\ OpenTrades' \subseteq OpenTrades
         \/ id # None /\ OpenTrades' = OpenTrades \cup {id}
  <2>1. Grows
    BY <1>3, <1>4, ExecutedGrows
  <2>2. \/ id = None /\ OpenTrades' \subseteq OpenTrades
        \/ id # None /\ OpenTrades' = OpenTrades \cup {id}
    BY <1>3, <1>4, ExecutedOpen
  <2> QED
    BY <2>1, <2>2
<1>6. todo # Booting /\ todo' \in Seq(Staying)
  <2>1. <<>> \in Seq(Staying)
    OBVIOUS
  <2> QED
    BY <1>1, <2>1, StayingTasks
<1>7. todo' # Booting /\ \A q \in Pairs : ~Leaving(q)'
  <2>1. \A i \in 1..Len(todo') : todo'[i] \in Staying
    BY <1>6, ElementOfSeq
  <2>2. todo' \in Seq(Tasks)
    BY <1>6, StayingFacts
  <2> QED
    BY <2>1, <2>2, NotBooting DEF Leaving, Staying
<1>8. /\ \A q \in Pairs \ {p} : st'[q].tid = st[q].tid
      /\ id = None => st' = st
      /\ id # None => st'[p].tid = id
  <2>1. st \in [Pairs -> PairState] /\ st[p] \in PairState
    BY NFacts
  <2>2. Opened(st[p], id, todo[1].dir).tid = id
    BY <2>1 DEF Opened, PairState
  <2> QED
    BY <1>3, <2>1, <2>2
<1>9. Kept \subseteq Kept' /\ (id # None => id \in Kept')
  BY <1>2, <1>7, <1>8 DEF Kept, Held
<1>10. Numbered' /\ (OpenTrades \ Kept)' \subseteq OpenTrades \ Kept
  BY <1>1, <1>5, <1>9, StillNumbered DEF Accounts
<1> QED
  BY <1>1, <1>6, <1>7, <1>10, Accounted

LEMMA InitAccounts == Init => Accounts
<1> SUFFICES ASSUME Init PROVE Accounts
  OBVIOUS
<1>1. trades = <<>> /\ inflight = {} /\ todo = Booting /\ excused = {}
  BY DEF Init
<1>2. OpenTrades = {}
  BY <1>1 DEF OpenTrades
<1>3. OpenPairs = {}
  BY <1>2 DEF OpenPairs
<1> QED
  BY <1>1, <1>2, <1>3, FS_EmptySet DEF Accounts, Numbered, OrphanCount

LEMMA StepAccounts == NInv /\ NInv' /\ Accounts /\ [Next]_vars => Accounts'
<1> SUFFICES ASSUME NInv, NInv', Accounts, [Next]_vars PROVE Accounts'
  OBVIOUS
<1>1. CASE (\E p \in Pairs : Message(p)) \/ CloseAllWeekend
  BY <1>1, MessageAccounts
<1>2. CASE Handler
  BY <1>2, AdoptAccounts, UpdateMfeAccounts, QuietTaskAccounts, CloseTradeAccounts,
     SendTradeAccounts, OrderFilledAccounts DEF Handler
<1>3. CASE Writer \/ RestartWriter \/ UNCHANGED vars
  <2>1. UNCHANGED <<trades, inflight, st, todo, excused, failed>>
    BY <1>3 DEF Writer, RestartWriter, vars, brokerVars, deskVars, history
  <2> QED
    BY <2>1, StillAccounts
<1>4. CASE (\E t \in 1..Len(trades) : BrokerClose(t)) \/ (\E r \in inflight : ResolveLate(r))
  BY <1>4, BrokerAccounts
<1> QED
  BY <1>1, <1>2, <1>3, <1>4, IdleAccounts, RestartAccounts DEF Next

LEMMA AccountsInvariant == Spec => []Accounts
<1>1. Init => Accounts
  BY InitAccounts
<1>2. NInv /\ NInv' /\ Accounts /\ [Next]_vars => Accounts'
  BY StepAccounts
<1> QED
  BY <1>1, <1>2, NeatInvariant, PTL DEF Spec

-----------------------------------------------------------------------------
(* The trade book.                                                          *)

ClosedTrades == {t \in 1..Len(trades) : trades[t].closer # "-"}
BookedTrades == Ids({r \in rows : r.px \in Certain})

Bounded == Len(trades) <= MaxTrades

\* Where neither a close nor a read of the open trades fails, the desk gives up only
\* trades that have closed, and a record is about none else.
Exact == {"close", "read"} \cap Faults = {}

OnlyClosed ==
    Exact => /\ \A p \in Pairs : Leaving(p) => st[p].tid \in ClosedTrades
             /\ Ids(Records) \subseteq ClosedTrades

BInv == Bounded /\ OnlyClosed

\* The trades as the book sees them: nothing happens, one closes, or one opens.
Moves ==
    \/ OpenTrades' = OpenTrades /\ ClosedTrades' = ClosedTrades
    \/ \E t \in OpenTrades :
          OpenTrades' = OpenTrades \ {t} /\ ClosedTrades' = ClosedTrades \cup {t}
    \/ \E t \in 1..MaxTrades \ (OpenTrades \cup ClosedTrades) :
          OpenTrades' = OpenTrades \cup {t} /\ ClosedTrades' = ClosedTrades

\* What the broker does to the trades is a step of the book, or a stutter.
LEMMA MovesBook ==
    ASSUME NInv, Bounded, Moves, BookedTrades' = BookedTrades
    PROVE  [Book!Next]_(Book!vars)
<1>1. CASE OpenTrades' = OpenTrades /\ ClosedTrades' = ClosedTrades
  BY <1>1 DEF Book!vars, ClosedTrades, BookedTrades
<1>2. ASSUME NEW t \in OpenTrades, OpenTrades' = OpenTrades \ {t},
             ClosedTrades' = ClosedTrades \cup {t}
      PROVE  Book!Next
  <2>1. t \in 1..MaxTrades
    BY NFacts, NeatAssumption DEF OpenTrades, Bounded
  <2>2. {t} \in SUBSET (1..MaxTrades) /\ {t} \subseteq OpenTrades /\ {t} # {}
    BY <2>1
  <2> QED
    BY <1>2, <2>2 DEF Book!Next, Book!Close, ClosedTrades, BookedTrades
<1>3. ASSUME NEW t \in 1..MaxTrades \ (OpenTrades \cup ClosedTrades),
             OpenTrades' = OpenTrades \cup {t}, ClosedTrades' = ClosedTrades
      PROVE  Book!Next
  <2>1. /\ {} \in SUBSET (1..MaxTrades) /\ {} \subseteq OpenTrades
        /\ OpenTrades \ {} = OpenTrades /\ ClosedTrades \cup {} = ClosedTrades
    OBVIOUS
  <2> QED
    BY <1>3, <2>1 DEF Book!Next, Book!Open, ClosedTrades, BookedTrades
<1> QED
  BY <1>1, <1>2, <1>3 DEF Moves

LEMMA StillMoves ==
    ASSUME NInv, Bounded, UNCHANGED trades PROVE Grows /\ Bounded' /\ Moves
BY StillGrows DEF Bounded, Moves, OpenTrades, ClosedTrades

\* One trade closing.
LEMMA CloseMoves ==
    ASSUME NInv, Bounded, NEW t \in 1..Len(trades), trades[t].closer = "-",
           NEW who \in {"desk", "broker", "net"}, trades' = CloseAs(t, who)
    PROVE  Grows /\ Bounded' /\ Moves /\ t \in ClosedTrades'
<1>1. /\ Grows /\ Len(trades') = Len(trades)
      /\ \A u \in 1..Len(trades) :
           trades'[u].closer = IF u = t THEN who ELSE trades[u].closer
  BY CloseAsGrows
<1>2. OpenTrades' = OpenTrades \ {t} /\ ClosedTrades' = ClosedTrades \cup {t}
  BY <1>1 DEF OpenTrades, ClosedTrades
<1>3. t \in OpenTrades
  BY DEF OpenTrades
<1> QED
  BY <1>1, <1>2, <1>3 DEF Bounded, Moves

\* A market order, executed.
LEMMA ExecutedMoves ==
    ASSUME NInv, Bounded, NEW p \in Pairs, NEW d \in {-1, 1}, NEW id \in 0..MaxTrades,
           Executed(p, d, id)
    PROVE  Grows /\ Bounded' /\ Moves
<1>1. trades \in Seq(NTrade) /\ Len(trades) \in Nat /\ MaxTrades \in Nat
  BY NFacts, NeatAssumption
<1>2. CASE \E t \in OpenTrades : trades' = CloseAs(t, "net") /\ id = None
  <2>1. PICK t \in OpenTrades : trades' = CloseAs(t, "net")
    BY <1>2
  <2>2. t \in 1..Len(trades) /\ trades[t].closer = "-"
    BY DEF OpenTrades
  <2> QED
    BY <2>1, <2>2, CloseMoves
<1>3. CASE /\ Len(trades) < MaxTrades /\ id = Len(trades) + 1
           /\ trades' = Append(trades, [pair |-> p, dir |-> d, closer |-> "-", trail |-> FALSE])
  <2> DEFINE new == [pair |-> p, dir |-> d, closer |-> "-", trail |-> FALSE]
  <2>1. new \in NTrade /\ new.closer = "-"
    BY DEF NTrade
  <2> HIDE DEF new
  <2>2. /\ Len(trades') = Len(trades) + 1 /\ trades'[id] = new
        /\ \A u \in 1..Len(trades) : trades'[u] = trades[u]
    BY <1>1, <1>3, <2>1, AppendProperties DEF new
  <2>3. 1..Len(trades') = (1..Len(trades)) \cup {id}
    BY <1>1, <1>3, <2>2
  <2>4. OpenTrades' = OpenTrades \cup {id} /\ ClosedTrades' = ClosedTrades
    BY <2>1, <2>2, <2>3 DEF OpenTrades, ClosedTrades
  <2>5. id \in 1..MaxTrades \ (OpenTrades \cup ClosedTrades) /\ Bounded'
    BY <1>1, <1>3, <2>2 DEF OpenTrades, ClosedTrades, Bounded
  <2>6. Grows
    BY ExecutedGrows
  <2> QED
    BY <2>4, <2>5, <2>6 DEF Moves
<1> QED
  BY <1>2, <1>3 DEF Executed

\* Every step of the process, its broker and its writer.
LEMMA StepMoves ==
    ASSUME NInv, Bounded, [Next]_vars PROVE Grows /\ Bounded' /\ Moves
<1>1. CASE \/ \E p \in Pairs : Message(p)
           \/ Idle \/ CloseAllWeekend \/ Adopt \/ MaxHold \/ Tick \/ SendTrade \/ OrderFailed
           \/ Details \/ Writer \/ Restart \/ RestartWriter \/ UNCHANGED vars
  <2>1. ASSUME NEW p \in Pairs, Message(p) PROVE UNCHANGED trades
    BY <2>1 DEF Message, OwnIndicator, OtherIndicator, PnfBox, Candle, brokerVars
  <2>2. UNCHANGED trades
    BY <1>1, <2>1 DEF Idle, CloseAllWeekend, Adopt, MaxHold, Tick, SendTrade, OrderFailed, Details,
                      Writer, Restart, RestartWriter, vars, brokerVars
  <2> QED
    BY <2>2, StillMoves
<1>2. CASE UpdateMfe
  <2>1. Grows /\ Len(trades') = Len(trades) /\ OpenTrades' = OpenTrades
    BY <1>2, UpdateMfeFacts
  <2>2. \A u : (u \in ClosedTrades <=> u \in 1..Len(trades) /\ u \notin OpenTrades)
    BY DEF ClosedTrades, OpenTrades
  <2>3. \A u : (u \in ClosedTrades' <=> u \in 1..Len(trades') /\ u \notin OpenTrades')
    BY DEF ClosedTrades, OpenTrades
  <2>4. ClosedTrades' = ClosedTrades
    BY <2>1, <2>2, <2>3
  <2> QED
    BY <2>1, <2>4 DEF Bounded, Moves
<1>3. CASE CloseTrade
  <2> DEFINE t == st[Head(todo).pair].tid
  <2>1. \/ IsOpen(t) /\ trades' = CloseAs(t, "desk")
        \/ UNCHANGED trades
    BY <1>3 DEF CloseTrade
  <2> HIDE DEF t
  <2> QED
    BY <2>1, StillMoves, CloseMoves DEF IsOpen
<1>4. CASE OrderFilled
  <2>1. /\ Head(todo).pair \in Pairs /\ Head(todo) = todo[1] /\ Agenda /\ Len(todo) \in Nat \ {0}
        /\ todo[1] \in Tasks /\ todo[1].op = "order"
    BY <1>4, DoingFacts DEF OrderFilled, Ops
  <2>2. Head(todo).dir \in {-1, 1}
    BY <2>1 DEF Agenda, Tasks
  <2>3. PICK id \in 0..MaxTrades : Executed(Head(todo).pair, Head(todo).dir, id)
    BY <1>4 DEF OrderFilled
  <2> QED
    BY <2>1, <2>2, <2>3, ExecutedMoves
<1>5. ASSUME NEW t \in 1..Len(trades), BrokerClose(t) PROVE Grows /\ Bounded' /\ Moves
  BY <1>5, CloseMoves DEF BrokerClose, IsOpen
<1>6. ASSUME NEW r \in inflight, ResolveLate(r) PROVE Grows /\ Bounded' /\ Moves
  <2>1. r.pair \in Pairs /\ r.dir \in {-1, 1}
    BY DEF NInv, Types
  <2>2. (\E id \in 0..MaxTrades : Executed(r.pair, r.dir, id)) \/ UNCHANGED trades
    BY <1>6 DEF ResolveLate
  <2> QED
    BY <2>1, <2>2, StillMoves, ExecutedMoves
<1> QED
  BY <1>1, <1>2, <1>3, <1>4, <1>5, <1>6 DEF Next, Handler

\* What has closed stays so.
LEMMA ClosedStays ==
    ASSUME NInv, Grows PROVE ClosedTrades \subseteq ClosedTrades'
<1>1. Len(trades) \in Nat /\ Len(trades') \in Nat
  BY NFacts DEF Grows
<1> QED
  BY <1>1 DEF ClosedTrades, Grows

\* A record of a certain price is about a closed trade.
LEMMA CertainClosed ==
    ASSUME NInv, OnlyClosed, NEW r \in Records, r.px \in Certain
    PROVE  r.trade_id \in ClosedTrades
<1>1. CASE Exact
  BY <1>1 DEF OnlyClosed, Ids
<1>2. CASE ~Exact
  <2>1. r.px = "broker"
    BY <1>2 DEF Exact, Certain
  <2>2. /\ r.trade_id \in 1..Len(trades)
        /\ trades[r.trade_id].closer \in {"broker", "net", "desk"}
    BY <2>1 DEF NInv, RecordsTruthful
  <2> QED
    BY <2>2 DEF ClosedTrades
<1> QED
  BY <1>1, <1>2

\* A step that sends nothing keeps the records; who leaves then has to have closed.
LEMMA OnlyClosedStep ==
    ASSUME NInv, Grows, OnlyClosed, Exact => Records' \subseteq Records,
           Exact => \A p \in Pairs : Leaving(p)' => st'[p].tid \in ClosedTrades'
    PROVE  OnlyClosed'
<1> SUFFICES ASSUME Exact PROVE Ids(Records') \subseteq ClosedTrades'
  BY DEF OnlyClosed, Ids, Exact
<1> QED
  BY ClosedStays DEF OnlyClosed, Ids

\* No pair leaves while nothing is given up.
LEMMA StayingClosed ==
    ASSUME NInv, Grows, OnlyClosed, Records' \subseteq Records, todo' \in Seq(Staying)
    PROVE  OnlyClosed'
<1>1. \A i \in 1..Len(todo') : todo'[i] \in Staying
  BY ElementOfSeq
<1>2. \A p \in Pairs : ~Leaving(p)'
  BY <1>1 DEF Leaving, Staying
<1> QED
  BY <1>2, OnlyClosedStep

\* The pairs that leave are those that left, with the trades they left.
LEMMA SameClosed ==
    ASSUME NInv, Grows, OnlyClosed, Records' \subseteq Records, UNCHANGED todo,
           \A p \in Pairs : st'[p].tid = st[p].tid
    PROVE  OnlyClosed'
<1>1. \A p \in Pairs : Leaving(p)' <=> Leaving(p)
  BY DEF Leaving
<1> QED
  BY <1>1, ClosedStays, OnlyClosedStep DEF OnlyClosed

\* A close that cannot fail, and what a record or the details are asked about.
LEMMA GivenUpClosed ==
    ASSUME NInv, NInv', Grows, OnlyClosed, CloseTrade \/ SendTrade \/ Details
    PROVE  OnlyClosed'
<1> DEFINE p == Head(todo).pair
           t == st[p].tid
<1>1. /\ p \in Pairs /\ todo \in Seq(Tasks) /\ todo # <<>>
      /\ \A q \in Pairs : q # p \/ Then(<<>>) => (~Leaving(q) => ~Leaving(q)')
  BY GivenUp
<1>2. ASSUME Exact, CloseTrade, NEW q \in Pairs, Leaving(q)'
      PROVE  st'[q].tid \in ClosedTrades'
  <2>1. st' = st
    BY <1>2 DEF CloseTrade
  <2>2. CASE Leaving(q)
    BY <1>2, <2>1, <2>2, ClosedStays DEF OnlyClosed
  <2>3. CASE ~Leaving(q)
    <3>1. q = p /\ ~Then(<<>>)
      BY <1>1, <1>2, <2>3
    <3>2. Held(p) /\ t \in 1..Len(trades)
      BY <1>1, <1>2, <3>1 DEF CloseTrade, NInv, DeskTracks
    <3>3. \/ trades[t].closer = "-" /\ trades' = CloseAs(t, "desk")
          \/ ~IsOpen(t) /\ UNCHANGED trades
      BY <1>2, <3>1 DEF CloseTrade, Exact, IsOpen
    <3> HIDE DEF p, t
    <3>4. CASE trades[t].closer = "-" /\ trades' = CloseAs(t, "desk")
      <4>1. trades'[t].closer = "desk" /\ t \in 1..Len(trades')
        BY <3>2, <3>4, CloseAsGrows
      <4> QED
        BY <2>1, <3>1, <4>1 DEF ClosedTrades, t
    <3>5. CASE ~IsOpen(t) /\ UNCHANGED trades
      BY <2>1, <3>1, <3>2, <3>5 DEF ClosedTrades, IsOpen, t
    <3> QED
      BY <3>3, <3>4, <3>5
  <2> QED
    BY <2>2, <2>3
<1>3. ASSUME SendTrade \/ Details
      PROVE  Leaving(p)
  <2>1. Head(todo) = todo[1] /\ Len(todo) \in Nat \ {0} /\ todo[1].op \in {"send", "details"}
    BY <1>3, DoingFacts DEF SendTrade, Details, Ops
  <2> QED
    BY <2>1 DEF Leaving
<1>4. ASSUME Exact, SendTrade \/ Details, NEW q \in Pairs, Leaving(q)'
      PROVE  st'[q].tid \in ClosedTrades'
  <2>1. Leaving(q)
    BY <1>1, <1>3, <1>4
  <2>2. st[q].tid \in ClosedTrades'
    BY <1>4, <2>1, ClosedStays DEF OnlyClosed
  <2>3. st'[q].tid = st[q].tid
    <3>1. Held(q)'
      <4>1. CASE todo' = Booting
        <5>1. \A i \in 1..Len(todo') : todo'[i].op = "adopt"
          BY <4>1 DEF Booting
        <5> QED
          BY <1>4, <5>1 DEF Leaving
      <4>2. CASE Agenda'
        BY <1>4, <4>2 DEF Leaving, Agenda
      <4> QED
        BY <4>1, <4>2 DEF NInv, Stage
    <3>2. st \in [Pairs -> PairState] /\ st[p] \in PairState
      BY <1>1, NFacts
    <3>3. CASE Details
      BY <3>3 DEF Details
    <3>4. CASE SendTrade
      <4>1. st' = [st EXCEPT ![p] = Reset(st[p])] /\ Reset(st[p]).tid = None
        BY <3>4 DEF SendTrade, Reset, Flat
      <4> HIDE DEF p
      <4>2. q # p
        BY <1>1, <3>1, <3>2, <4>1 DEF Held
      <4> QED
        BY <3>2, <4>1, <4>2
    <3> QED
      BY <1>4, <3>3, <3>4
  <2> QED
    BY <2>2, <2>3
<1>5. ASSUME Exact
      PROVE  Ids(Records') \subseteq ClosedTrades'
  <2>1. CASE CloseTrade \/ Details
    <3>1. UNCHANGED writerVars
      BY <2>1 DEF CloseTrade, Details
    <3>2. Records' = Records
      BY <3>1, WriterStill
    <3> QED
      BY <1>5, <3>2, ClosedStays DEF OnlyClosed, Ids
  <2>2. CASE SendTrade
    <3> DEFINE r == Record(Head(todo), st[p])
    <3>1. r.trade_id = t /\ t \in ClosedTrades'
      <4>1. t \in ClosedTrades
        BY <1>1, <1>3, <1>5, <2>2 DEF OnlyClosed
      <4> QED
        BY <4>1, ClosedStays DEF Record
    <3>2. Sent(r) \/ UNCHANGED writerVars
      BY <2>2 DEF SendTrade
    <3> HIDE DEF r, t, p
    <3>3. Records' \subseteq Records \cup {r}
      <4>1. CASE UNCHANGED writerVars
        BY <4>1, WriterStill
      <4>2. CASE Sent(r)
        <5>1. out \in Seq(Recs \cup {r}) /\ r \in Recs \cup {r}
          BY NFacts
        <5>2. ToSet(out') = ToSet(out) \cup {r} /\ inbox' = inbox /\ rows' = rows
          BY <4>2, <5>1, ToSetAppend DEF Sent
        <5> QED
          BY <5>2 DEF Records
      <4> QED
        BY <3>2, <4>1, <4>2
    <3> QED
      BY <1>5, <3>1, <3>3, ClosedStays DEF OnlyClosed, Ids
  <2> QED
    BY <2>1, <2>2
<1>6. ASSUME Exact, NEW q \in Pairs, Leaving(q)'
      PROVE  st'[q].tid \in ClosedTrades'
  BY <1>2, <1>4, <1>6
<1> QED
  BY <1>5, <1>6 DEF OnlyClosed, Ids, Exact

\* What the writer and the messages do.
LEMMA StepOnlyClosed ==
    ASSUME NInv, NInv', Grows, OnlyClosed, [Next]_vars PROVE OnlyClosed'
<1>0. ASSUME UNCHANGED writerVars PROVE Records' \subseteq Records
  BY <1>0, WriterStill
<1>1. CASE (\E p \in Pairs : Message(p)) \/ CloseAllWeekend
  <2>1. UNCHANGED writerVars
    BY <1>1 DEF Message, OwnIndicator, OtherIndicator, PnfBox, Candle, CloseAllWeekend
  <2> QED
    BY <1>0, <1>1, <2>1, MessageFacts, StayingClosed
<1>2. CASE UpdateMfe \/ MaxHold \/ Tick \/ OrderFailed
  <2>1. UNCHANGED writerVars
    BY <1>2 DEF UpdateMfe, MaxHold, Tick, OrderFailed
  <2> QED
    BY <1>0, <1>2, <2>1, UpdateMfeFacts, QuietTaskFacts, StayingClosed
<1>3. CASE OrderFilled \/ Adopt
  <2>1. UNCHANGED writerVars
    BY <1>3 DEF OrderFilled, Adopt
  <2>2. todo' \in Seq(Staying)
    <3> DEFINE none == <<>>
    <3>1. none \in Seq(Staying)
      OBVIOUS
    <3>2. OrderFilled => Doing("order") /\ Then(none)
      BY DEF OrderFilled
    <3>3. Adopt => todo' = none
      BY AdoptFacts
    <3> HIDE DEF none
    <3> QED
      BY <1>3, <3>1, <3>2, <3>3, StayingTasks
  <2> QED
    BY <1>0, <2>1, <2>2, StayingClosed
<1>4. CASE Idle
  <2>1. todo = <<>> /\ UNCHANGED <<trades, st, writerVars>>
    BY <1>4 DEF Idle, brokerVars
  <2>2. ASSUME Exact, NEW q \in Pairs, Leaving(q)'
        PROVE  st'[q].tid \in ClosedTrades'
    <3>1. todo' = ForEach("details", Gone(OpenTrades))
      BY <1>4, <2>2 DEF Idle, Exact
    <3>2. Gone(OpenTrades) \subseteq Pairs /\ "details" \in Ops \ {"adopt"}
      BY DEF Gone, Ops
    <3>3. \A i \in 1..Len(todo') : todo'[i].pair \in Gone(OpenTrades)
      BY <3>1, <3>2, ForEachFacts
    <3>4. Held(q) /\ st[q].tid \notin OpenTrades
      BY <2>2, <3>3 DEF Leaving, Gone
    <3>5. st[q].tid \in ClosedTrades
      BY <3>4 DEF NInv, DeskTracks, OpenTrades, ClosedTrades
    <3> QED
      BY <2>1, <3>5, ClosedStays
  <2> QED
    BY <1>0, <2>1, <2>2, OnlyClosedStep
<1>5. CASE CloseTrade \/ SendTrade \/ Details
  BY <1>5, GivenUpClosed
<1>6. CASE Writer \/ RestartWriter
  <2>1. UNCHANGED <<todo, st>> /\ (Deliver \/ WriteTrade \/ OthersWrite \/ WriterRestart)
    BY <1>6 DEF Writer, RestartWriter, deskVars
  <2>2. Records' \subseteq Records
    BY <2>1, WriterFacts
  <2> QED
    BY <2>1, <2>2, SameClosed
<1>7. CASE Restart
  <2>1. todo' = Booting /\ UNCHANGED <<inbox, rows>> /\ (out' = out \/ out' = <<>>)
    BY <1>7 DEF Restart, SenderGone
  <2>2. Records' \subseteq Records
    BY <2>1, ToSetEmpty DEF Records
  <2>3. \A q \in Pairs : ~Leaving(q)'
    <3>1. \A i \in 1..Len(todo') : todo'[i].op = "adopt"
      BY <2>1 DEF Booting
    <3> QED
      BY <3>1 DEF Leaving
  <2> QED
    BY <2>2, <2>3, OnlyClosedStep
<1>8. CASE \/ \E t \in 1..Len(trades) : BrokerClose(t)
           \/ \E r \in inflight : ResolveLate(r)
           \/ UNCHANGED vars
  <2>1. UNCHANGED <<todo, st, writerVars>>
    BY <1>8 DEF BrokerClose, ResolveLate, vars, deskVars
  <2> QED
    BY <1>0, <2>1, SameClosed
<1> QED
  BY <1>1, <1>2, <1>3, <1>4, <1>5, <1>6, <1>7, <1>8 DEF Next, Handler

\* The table: a row is added only for a record that was on its way, while the trades
\* stand still.
LEMMA RowsStep ==
    ASSUME NInv, [Next]_vars
    PROVE  \/ UNCHANGED rows
           \/ UNCHANGED trades /\ \E r \in Records : rows' = rows \cup {r}
<1>1. CASE Writer
  <2>1. CASE WriteTrade
    <3>1. /\ inbox # <<>> /\ UNCHANGED trades
          /\ rows' = rows \/ rows' = rows \cup {Head(inbox)}
      BY <1>1, <2>1 DEF Writer, WriteTrade, Insert, brokerVars
    <3>2. Head(inbox) \in ToSet(inbox)
      BY <3>1, NFacts, ToSetTail
    <3> QED
      BY <3>1, <3>2 DEF Records
  <2> QED
    BY <1>1, <2>1 DEF Writer, Deliver, OthersWrite
<1>2. ASSUME NEW p \in Pairs, Message(p) PROVE UNCHANGED rows
  BY <1>2 DEF Message, OwnIndicator, OtherIndicator, PnfBox, Candle, writerVars
<1>3. CASE Handler
  BY <1>3 DEF Handler, Adopt, UpdateMfe, MaxHold, Tick, CloseTrade, SendTrade, Sent, OrderFilled,
              OrderFailed, Details, writerVars
<1>4. CASE Idle \/ CloseAllWeekend \/ Restart \/ RestartWriter \/ UNCHANGED vars
  BY <1>4 DEF Idle, CloseAllWeekend, Restart, SenderGone, RestartWriter, WriterRestart, vars,
              writerVars
<1>5. ASSUME NEW t \in 1..Len(trades), BrokerClose(t) PROVE UNCHANGED rows
  BY <1>5 DEF BrokerClose, writerVars
<1>6. ASSUME NEW r \in inflight, ResolveLate(r) PROVE UNCHANGED rows
  BY <1>6 DEF ResolveLate, writerVars
<1> QED
  BY <1>1, <1>2, <1>3, <1>4, <1>5, <1>6 DEF Next

\* The initial state: an empty book.
LEMMA InitBook == Init => BInv /\ Book!Init
<1> SUFFICES ASSUME Init PROVE BInv /\ Book!Init
  OBVIOUS
<1>1. /\ Len(trades) = 0 /\ todo = Booting /\ rows = {} /\ out = <<>> /\ inbox = <<>>
  BY DEF Init, WriterInit
<1>2. OpenTrades = {} /\ ClosedTrades = {} /\ BookedTrades = {}
  BY <1>1 DEF OpenTrades, ClosedTrades, BookedTrades, Ids
<1>3. Records = {}
  BY <1>1, ToSetEmpty DEF Records
<1>4. \A p \in Pairs : ~Leaving(p)
  <2>1. \A i \in 1..Len(todo) : todo[i].op = "adopt"
    BY <1>1 DEF Booting
  <2> QED
    BY <2>1 DEF Leaving
<1>5. BInv
  BY <1>1, <1>3, <1>4, NeatAssumption DEF BInv, Bounded, OnlyClosed, Ids
<1>6. Book!Init
  BY <1>2 DEF Book!Init, ClosedTrades, BookedTrades
<1> QED
  BY <1>5, <1>6

\* Every step is a step of the book, or a stutter.
LEMMA StepBook ==
    NInv /\ NInv' /\ BInv /\ [Next]_vars => BInv' /\ [Book!Next]_(Book!vars)
<1> SUFFICES ASSUME NInv, NInv', BInv, [Next]_vars PROVE BInv' /\ [Book!Next]_(Book!vars)
  OBVIOUS
<1>1. Bounded /\ OnlyClosed
  BY DEF BInv
<1>2. Grows /\ Bounded' /\ Moves
  BY <1>1, StepMoves
<1>3. BInv'
  BY <1>1, <1>2, StepOnlyClosed DEF BInv
<1>4. CASE BookedTrades' = BookedTrades
  BY <1>1, <1>2, <1>3, <1>4, MovesBook
<1>5. CASE BookedTrades' # BookedTrades
  <2>1. PICK r \in Records : rows' = rows \cup {r} /\ UNCHANGED trades
    BY <1>5, RowsStep DEF BookedTrades
  <2>2. OpenTrades' = OpenTrades /\ ClosedTrades' = ClosedTrades
    BY <2>1 DEF OpenTrades, ClosedTrades
  <2>3. r.px \in Certain /\ BookedTrades' = BookedTrades \cup {r.trade_id}
    <3>1. BookedTrades' = IF r.px \in Certain THEN BookedTrades \cup {r.trade_id} ELSE BookedTrades
      BY <2>1 DEF BookedTrades, Ids, Certain
    <3> QED
      BY <1>5, <3>1
  <2>4. r.trade_id \in ClosedTrades \ BookedTrades
    BY <1>1, <1>5, <2>3, CertainClosed
  <2>5. r.trade_id \in 1..MaxTrades
    BY <1>1, <2>4, NFacts, NeatAssumption DEF ClosedTrades, Bounded
  <2>6. Book!Next
    BY <2>2, <2>3, <2>4, <2>5 DEF Book!Next, Book!Book, ClosedTrades, BookedTrades
  <2> QED
    BY <1>3, <2>6
<1> QED
  BY <1>3, <1>4, <1>5

-----------------------------------------------------------------------------
(* The theorems.                                                            *)

\* Whatever fails, the state keeps its types and the sockets hold no more than their
\* high-water mark.
THEOREM NeatTypeCorrect == Spec => []TypeOK
<1>1. NInv => TypeOK
  <2> SUFFICES ASSUME NInv PROVE TypeOK
    OBVIOUS
  <2>1. \A i \in 1..Len(todo) : todo[i].op \in Ops
    <3>1. CASE todo = Booting
      BY <3>1 DEF Booting, Ops
    <3>2. CASE todo \in Seq(Tasks)
      <4>1. \A i \in 1..Len(todo) : todo[i] \in Tasks
        BY <3>2, ElementOfSeq
      <4> QED
        BY <4>1 DEF Tasks
    <3> QED
      BY <3>1, <3>2 DEF NInv, Stage
  <2>2. Records \subseteq Recs
    BY NFacts
  <2> QED
    BY <2>1, <2>2 DEF NInv, Types, WriterOK, TypeOK, NTrade, Recs, Noted
<1> QED
  BY <1>1, NeatInvariant, PTL

\* A pair of the process is always about one real trade of its own, on the side it
\* believes, and a trailing stop it believes in is at the broker.
THEOREM NeatTracks == Spec => []DeskTracks
<1>1. NInv => DeskTracks
  BY DEF NInv
<1> QED
  BY <1>1, NeatInvariant, PTL

\* What _close_trade and _detect_broker_closes send, what the sockets hold and what the
\* table keeps is about the trade it names, and says truly who closed it.
THEOREM NeatRecordsTruthful == Spec => []RecordsTruthful
<1>1. NInv => RecordsTruthful
  BY DEF NInv
<1> QED
  BY <1>1, NeatInvariant, PTL

\* Every trade of its own that the desk gave up is on its way to the trades table, in
\* it, or lost with a process, a socket or a lock, or a row of another account has its
\* trade id.
THEOREM NeatNothingUnrecorded == Spec => []NothingUnrecorded
<1>1. NInv => NothingUnrecorded
  BY DEF NInv
<1> QED
  BY <1>1, NeatInvariant, PTL

\* Once the process has read its positions, the broker holds no more trades the desk does
\* not know of than closes, reads and orders that failed account for, each failure for the
\* trades it was about.
THEOREM NeatOrphansAccounted == Spec => []OrphansAccounted
<1>1. NInv /\ Accounts => OrphansAccounted
  <2> SUFFICES ASSUME NInv, Accounts, todo # <<>> => Head(todo).op # "adopt"
               PROVE  Cardinality(OpenTrades \ Tracked) <= Cardinality(excused)
    BY DEF OrphansAccounted
  <2>1. todo # Booting
    <3>1. Booting # <<>> /\ Head(Booting).op = "adopt"
      BY DEF Booting
    <3> QED
      BY <3>1
  <2>2. /\ IsFiniteSet(OpenTrades \ Kept) /\ Cardinality(OpenTrades \ Kept) \in Nat
        /\ Cardinality(excused) \in Nat /\ Cardinality(OpenTrades \ Kept) <= Cardinality(excused)
    BY <2>1, CountFacts DEF Accounts, OrphanCount
  <2>3. OpenTrades \ Tracked \subseteq OpenTrades \ Kept
    BY DEF Kept, Tracked, Held
  <2>4. /\ Cardinality(OpenTrades \ Tracked) \in Nat
        /\ Cardinality(OpenTrades \ Tracked) <= Cardinality(OpenTrades \ Kept)
    BY <2>2, <2>3, Fewer
  <2> QED
    BY <2>2, <2>4
<1> QED
  BY <1>1, NeatInvariant, AccountsInvariant, PTL

\* The process, its broker, the sockets and the table implement the trade book, whatever
\* fails: trades open once and close for good, and a row whose exit price is certain is
\* about a trade that has closed, and is never taken back.
THEOREM NeatImplementsBook == Spec => ImplementsBook
<1>1. Init => BInv /\ Book!Init
  BY InitBook
<1>2. NInv /\ NInv' /\ BInv /\ [Next]_vars => BInv' /\ [Book!Next]_(Book!vars)
  BY StepBook
<1> QED
  BY <1>1, <1>2, NeatInvariant, PTL DEF Spec, ImplementsBook, Book!Spec
=============================================================================
