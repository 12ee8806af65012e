-------------------------- MODULE SharedTableProofs --------------------------
(***************************************************************************)
(* That the other writers of the table cost a container no more than a     *)
(* failed write does: what is proved of StackDesk on its own holds of it   *)
(* among the others.                                                       *)
(***************************************************************************)
EXTENDS SharedTable, TLAPS

\* What has been proved of a container that is alone with its table.
Solo == INSTANCE StackDeskOutage WITH
            ledger <- OwnRows,
            Faults <- Faults \cup {"db"}

-----------------------------------------------------------------------------
\* The instance counts as the module does.
LEMMA SameCardinality == \A S : Alone!Cardinality(S) = Cardinality(S)
BY DEF Cardinality, Alone!Cardinality

\* A step that does not write is the same step of the container alone: it may only fail
\* in more ways there.
LEMMA SilentSteps ==
    /\ Warmup => Alone!Warmup
    /\ StartupAdoption => Alone!StartupAdoption
    /\ Reconcile => Alone!Reconcile
    /\ Reverify => Alone!Reverify
    /\ Poll => Alone!Poll
    /\ BarsDone => Alone!BarsDone
    /\ QuietBar => Alone!QuietBar
    /\ PsarExit => Alone!PsarExit
    /\ \A d \in Dirs : EntrySignal(d) => Alone!EntrySignal(d)
    /\ OrderFilled => Alone!OrderFilled
    /\ OrderRefused => Alone!OrderRefused
    /\ OrderRetry => Alone!OrderRetry
    /\ BrokerStep => Alone!BrokerStep
    /\ Crash => Alone!Crash
<1> USE DEF OwnRows, p, Alone!p, Pairs, Alone!Pairs, None, Alone!None, GoTo, Alone!GoTo,
            NextPair, Alone!NextPair, OpenOn, Alone!OpenOn, IsOpen, Alone!IsOpen,
            Reads, Alone!Reads, OpenTradesRead, Alone!OpenTradesRead,
            brokerVars, Alone!brokerVars, deskVars, Alone!deskVars
<1>1. Warmup => Alone!Warmup
  BY DEF Warmup, Alone!Warmup, WarmupAdopted, Alone!WarmupAdopted, Boot, Alone!Boot
<1>2. StartupAdoption => Alone!StartupAdoption
  BY DEF StartupAdoption, Alone!StartupAdoption, StartupAdopted, Alone!StartupAdopted
<1>3. Reconcile => Alone!Reconcile
  BY DEF Reconcile, Alone!Reconcile
<1>4. Reverify => Alone!Reverify
  BY DEF Reverify, Alone!Reverify, Reset, Alone!Reset
<1>5. (Poll => Alone!Poll) /\ (BarsDone => Alone!BarsDone)
  BY DEF Poll, Alone!Poll, BarsDone, Alone!BarsDone
<1>6. QuietBar => Alone!QuietBar
  BY DEF QuietBar, Alone!QuietBar, NewBar, Alone!NewBar, Armed, Alone!Armed
<1>7. PsarExit => Alone!PsarExit
  <2>1. \A t, reply : CloseTrade(t, reply) => Alone!CloseTrade(t, reply)
    BY SameCardinality DEF CloseTrade, Alone!CloseTrade, CloseAs, Alone!CloseAs
  <2> QED
    BY <2>1 DEF PsarExit, Alone!PsarExit, NewBar, Alone!NewBar, Armed, Alone!Armed
<1>8. \A d \in Dirs : EntrySignal(d) => Alone!EntrySignal(d)
  BY DEF EntrySignal, Alone!EntrySignal, NewBar, Alone!NewBar, GuardAdopted,
         Alone!GuardAdopted
<1>9. ASSUME NEW q, NEW d, NEW id, Executed(q, d, id)
      PROVE  Alone!Executed(q, d, id)
  <2>1. \A gone, part : Netting(gone, part) = Alone!Netting(gone, part)
    BY DEF Netting, Alone!Netting
  <2>2. OpenOn(q) = Alone!OpenOn(q) /\ None = Alone!None
    OBVIOUS
  <2>3. "shrink" \in Faults => "shrink" \in Faults \cup {"db"}
    OBVIOUS
  <2> HIDE DEF OpenOn, Alone!OpenOn, None, Alone!None
  <2> QED
    BY <1>9, <2>1, <2>2, <2>3, Zenon DEF Executed, Alone!Executed
<1>10. OrderFilled => Alone!OrderFilled
  BY <1>9 DEF OrderFilled, Alone!OrderFilled, Entered, Alone!Entered, Netted, Alone!Netted,
              OrderDone, Alone!OrderDone
<1>11. (OrderRefused => Alone!OrderRefused) /\ (OrderRetry => Alone!OrderRetry)
  <2>1. OrderDone <=> Alone!OrderDone
    BY DEF OrderDone, Alone!OrderDone
  <2>2. OrderRefused => Alone!OrderRefused
    BY <2>1 DEF OrderRefused, Alone!OrderRefused
  <2>3. OrderRetry => Alone!OrderRetry
    BY <2>1, SameCardinality DEF OrderRetry, Alone!OrderRetry
  <2> QED
    BY <2>2, <2>3
<1>12. BrokerStep => Alone!BrokerStep
  <2>1. \A t : BracketClose(t) => Alone!BracketClose(t)
    BY DEF BracketClose, Alone!BracketClose, CloseAs, Alone!CloseAs
  <2>2. \A r : DropRequest(r) => Alone!DropRequest(r)
    BY DEF DropRequest, Alone!DropRequest
  <2>3. \A r : DeliverLate(r) => Alone!DeliverLate(r)
    BY <1>9 DEF DeliverLate, Alone!DeliverLate, CloseAs, Alone!CloseAs
  <2> QED
    BY <2>1, <2>2, <2>3 DEF BrokerStep, Alone!BrokerStep
<1>13. Crash => Alone!Crash
  BY DEF Crash, Alone!Crash, Flat, Alone!Flat
<1> QED
  BY <1>1, <1>2, <1>3, <1>4, <1>5, <1>6, <1>7, <1>8, <1>10, <1>11, <1>12, <1>13

\* A row of the container that the table refuses was refused for its empty entry time or
\* for one of its own, as alone, or for another's: a write that failed.
LEMMA InsertAlone ==
    ASSUME NEW row, row.account = Account, ledger' = Insert(row)
    PROVE  OwnRows' = Alone!Insert(row) \/ OwnRows' = OwnRows
<1>1. CASE \E r \in OwnRows : r.trade_id = row.trade_id
  BY <1>1 DEF Insert, Alone!Insert, OwnRows
<1>2. CASE row.entry_time # None /\ ~(\E r \in ledger : r.trade_id = row.trade_id)
  <2>1. ledger' = ledger \cup {row}
    BY <1>2 DEF Insert
  <2>2. OwnRows' = OwnRows \cup {row}
    BY <2>1 DEF OwnRows
  <2> QED
    BY <1>2, <2>2 DEF Alone!Insert, OwnRows, None, Alone!None
<1>3. CASE \E r \in ledger \ OwnRows : r.trade_id = row.trade_id
  BY <1>3 DEF Insert, OwnRows
<1>4. CASE row.entry_time = None
  BY <1>4 DEF Insert, OwnRows
<1> QED
  BY <1>1, <1>2, <1>3, <1>4

\* Reconciling a closed trade.
LEMMA DetailsAlone == Details => Alone!Details
<1> SUFFICES ASSUME Details PROVE Alone!Details
  OBVIOUS
<1>1. p = Alone!p /\ \A t : Priced(t) <=> Alone!Priced(t)
  BY DEF p, Alone!p, Priced, Alone!Priced, IsOpen, Alone!IsOpen
<1>2. \A reason : Row(reason) = Alone!Row(reason) /\ Row(reason).account = Account
  BY <1>1 DEF Row, Alone!Row, TradeKey, Alone!TradeKey
<1>3. \A stage : GoTo(stage) <=> Alone!GoTo(stage)
  BY DEF GoTo, Alone!GoTo
<1>4. ASSUME NEW reason, Conclude(reason)
      PROVE  Alone!Conclude(reason)
  <2>1. /\ st' = [st EXCEPT ![p] = Reset(@)] /\ GoTo("poll")
        /\ ledger' = Insert(Row(reason)) \/ UNCHANGED ledger
    BY <1>4 DEF Conclude
  <2>2. OwnRows' = Alone!Insert(Row(reason)) \/ OwnRows' = OwnRows
    BY <1>2, <2>1, InsertAlone DEF OwnRows
  <2>3. st' = [st EXCEPT ![Alone!p] = Alone!Reset(@)]
    BY <1>1, <2>1 DEF Reset, Alone!Reset, None, Alone!None
  <2> QED
    BY <1>2, <1>3, <2>1, <2>2, <2>3 DEF Alone!Conclude
<1>5. /\ pc = "details" /\ st[p] = st[Alone!p] /\ None = Alone!None
      /\ UNCHANGED <<trades, inflight, bad, left, n, want, crashes>>
  BY <1>1 DEF Details, None, Alone!None
<1>6. CASE st[p].pending # "none" /\ Conclude(st[p].pending)
  <2>1. Alone!Conclude(st[Alone!p].pending)
    BY <1>4, <1>5, <1>6
  <2> QED
    BY <1>5, <1>6, <2>1 DEF Alone!Details
<1>7. CASE /\ st[p].pending = "none" /\ Conclude("closed_broker")
           /\ st[p].open_trade_id # None /\ Priced(st[p].open_trade_id)
  <2>1. Alone!Conclude("closed_broker")
    BY <1>4, <1>7
  <2> QED
    BY <1>1, <1>5, <1>7, <2>1 DEF Alone!Details
<1>8. CASE /\ st[p].pending = "none" /\ GoTo("reverify") /\ UNCHANGED <<ledger, st>>
           /\ \/ ~(st[p].open_trade_id # None /\ Priced(st[p].open_trade_id))
              \/ "details" \in Faults
  <2>1. Alone!GoTo("reverify") /\ UNCHANGED <<OwnRows, st>>
    BY <1>3, <1>8 DEF OwnRows
  <2> QED
    BY <1>1, <1>5, <1>8, <2>1 DEF Alone!Details
<1> QED
  BY <1>6, <1>7, <1>8 DEF Details

\* Another's row is none of the container's.
LEMMA OthersAlone == OthersWrite => UNCHANGED Alone!vars
<1> SUFFICES ASSUME OthersWrite PROVE UNCHANGED Alone!vars
  OBVIOUS
<1>1. PICK row \in OtherRows : ledger' = Insert(row)
  BY DEF OthersWrite
<1>2. row.account # Account
  BY OthersAssumption
<1>3. OwnRows' = OwnRows
  BY <1>1, <1>2 DEF Insert, OwnRows
<1> QED
  BY <1>3 DEF OthersWrite, Alone!vars, brokerVars, deskVars

\* Every step, its own or another's, is a step of the container alone or a stutter.
LEMMA StepAlone == [SharedNext]_vars => [Alone!Next]_(Alone!vars)
<1>1. Next => Alone!Next
  BY SilentSteps, DetailsAlone DEF Next, DeskStep, Alone!Next, Alone!DeskStep, Dirs, Alone!Dirs
<1>2. UNCHANGED vars => UNCHANGED Alone!vars
  BY DEF vars, Alone!vars, OwnRows
<1> QED
  BY <1>1, <1>2, OthersAlone DEF SharedNext

\* The container starts alone as it starts among the others.
LEMMA InitAlone == Init => Alone!Init
BY DEF Init, Alone!Init, OwnRows, Flat, Alone!Flat, None, Alone!None, Pairs, Alone!Pairs

-----------------------------------------------------------------------------
(* The container of the proofs, Solo, is the container Alone.                *)

\* Action by action, the two instances agree.
LEMMA SoloActions ==
    /\ Alone!Warmup => Solo!Warmup
    /\ Alone!StartupAdoption => Solo!StartupAdoption
    /\ Alone!Reconcile => Solo!Reconcile
    /\ Alone!Reverify => Solo!Reverify
    /\ Alone!Details => Solo!Details
    /\ Alone!Poll => Solo!Poll
    /\ Alone!BarsDone => Solo!BarsDone
    /\ Alone!QuietBar => Solo!QuietBar
    /\ Alone!PsarExit => Solo!PsarExit
    /\ Alone!OrderFilled => Solo!OrderFilled
    /\ Alone!OrderRefused => Solo!OrderRefused
    /\ Alone!OrderRetry => Solo!OrderRetry
    /\ Alone!BrokerStep => Solo!BrokerStep
    /\ Alone!Crash => Solo!Crash
    /\ \A d : Alone!EntrySignal(d) => Solo!EntrySignal(d)
<1> USE DEF Alone!p, Solo!p, Alone!Pairs, Solo!Pairs, Alone!None, Solo!None, Alone!GoTo,
            Solo!GoTo, Alone!NextPair, Solo!NextPair, Alone!OpenOn, Solo!OpenOn,
            Alone!IsOpen, Solo!IsOpen, Alone!Reads, Solo!Reads, Alone!OpenTradesRead,
            Solo!OpenTradesRead, Alone!brokerVars, Solo!brokerVars, Alone!deskVars,
            Solo!deskVars, Alone!CloseAs, Solo!CloseAs, Alone!Reset, Solo!Reset,
            Alone!Armed, Solo!Armed, Alone!NewBar, Solo!NewBar, Alone!OrderDone,
            Solo!OrderDone, Alone!Cardinality, Solo!Cardinality
<1>1. (Alone!Warmup => Solo!Warmup) /\ (Alone!StartupAdoption => Solo!StartupAdoption)
  BY DEF Alone!Warmup, Solo!Warmup, Alone!StartupAdoption, Solo!StartupAdoption,
         Alone!WarmupAdopted, Solo!WarmupAdopted, Alone!StartupAdopted,
         Solo!StartupAdopted, Alone!Boot, Solo!Boot
<1>2. (Alone!Reconcile => Solo!Reconcile) /\ (Alone!Reverify => Solo!Reverify)
  BY DEF Alone!Reconcile, Solo!Reconcile, Alone!Reverify, Solo!Reverify
<1>3. Alone!Details => Solo!Details
  BY DEF Alone!Details, Solo!Details, Alone!Priced, Solo!Priced, Alone!Conclude, Solo!Conclude, Alone!Insert,
         Solo!Insert, Alone!Row, Solo!Row, Alone!TradeKey, Solo!TradeKey
<1>4. (Alone!Poll => Solo!Poll) /\ (Alone!BarsDone => Solo!BarsDone)
  BY DEF Alone!Poll, Solo!Poll, Alone!BarsDone, Solo!BarsDone
<1>5. (Alone!QuietBar => Solo!QuietBar) /\ (Alone!PsarExit => Solo!PsarExit)
  BY DEF Alone!QuietBar, Solo!QuietBar, Alone!PsarExit, Solo!PsarExit, Alone!CloseTrade,
         Solo!CloseTrade
<1>6. \A d : Alone!EntrySignal(d) => Solo!EntrySignal(d)
  BY DEF Alone!EntrySignal, Solo!EntrySignal, Alone!GuardAdopted, Solo!GuardAdopted
<1>7. \A q, d, id : Alone!Executed(q, d, id) => Solo!Executed(q, d, id)
  BY DEF Alone!Executed, Solo!Executed, Alone!Netting, Solo!Netting
<1>8. Alone!OrderFilled => Solo!OrderFilled
  BY <1>7 DEF Alone!OrderFilled, Solo!OrderFilled, Alone!Entered, Solo!Entered,
              Alone!Netted, Solo!Netted
<1>9. (Alone!OrderRefused => Solo!OrderRefused) /\ (Alone!OrderRetry => Solo!OrderRetry)
  BY DEF Alone!OrderRefused, Solo!OrderRefused, Alone!OrderRetry, Solo!OrderRetry
<1>10. Alone!Crash => Solo!Crash
  BY DEF Alone!Crash, Solo!Crash, Alone!Flat, Solo!Flat
<1>11. Alone!BrokerStep => Solo!BrokerStep
  BY <1>7 DEF Alone!BrokerStep, Solo!BrokerStep, Alone!BracketClose, Solo!BracketClose,
              Alone!DropRequest, Solo!DropRequest, Alone!DeliverLate, Solo!DeliverLate
<1> QED
  BY <1>1, <1>2, <1>3, <1>4, <1>5, <1>6, <1>8, <1>9, <1>10, <1>11

\* Among the others the container behaves as the one the proofs are about.
LEMMA SoloSpec == SharedSpec => Solo!Spec
<1>1. Init => Solo!Init
  <2>1. Alone!Init => Solo!Init
    BY DEF Alone!Init, Solo!Init, Alone!Flat, Solo!Flat, Alone!None, Solo!None,
           Alone!Pairs, Solo!Pairs
  <2> QED
    BY <2>1, InitAlone
<1>2. [SharedNext]_vars => [Solo!Next]_(Solo!vars)
  <2>1. Alone!Next => Solo!Next
    BY SoloActions DEF Alone!Next, Solo!Next, Alone!DeskStep, Solo!DeskStep, Alone!Dirs,
                       Solo!Dirs
  <2>2. UNCHANGED Alone!vars => UNCHANGED Solo!vars
    BY DEF Alone!vars, Solo!vars
  <2> QED
    BY <2>1, <2>2, StepAlone
<1> QED
  BY <1>1, <1>2, PTL DEF SharedSpec, Solo!Spec

\* What StackDesk assumes of its constants, in the instance's words.
LEMMA SoloAssumptions ==
    /\ PairSeq \in Seq(Solo!Pairs) /\ Len(PairSeq) > 0
    /\ \A j, k \in DOMAIN PairSeq : PairSeq[j] = PairSeq[k] => j = k
    /\ PsarPairs \subseteq Solo!Pairs
BY PairSeqAssumption, PsarAssumption DEF Solo!Pairs, Pairs

\* The rows of the container are its own.
LEMMA SoloRows == Solo!OwnRows = OwnRows
BY DEF Solo!OwnRows, OwnRows

-----------------------------------------------------------------------------
(* The theorems.                                                            *)

\* Whatever the others write, and under whichever trade_id, a container with its own rows
\* behaves as one that is alone with its table and whose writes may fail.
THEOREM ContainerAlone == SharedSpec => AloneInTable
BY InitAlone, StepAlone, PTL DEF SharedSpec, AloneInTable, Alone!Spec

\* What the desk believes is one real trade of its pair, whatever the others write.
THEOREM TrackingAmongOthers == SharedSpec => []Tracking
<1>1. Solo!Tracking => Tracking
  BY DEF Solo!Tracking, Tracking, Solo!Tracks, Tracks, Solo!Pairs, Pairs, Solo!None, None
<1>2. Solo!Spec => []Solo!Tracking
  BY SoloAssumptions, BoundsAssumption, Solo!TrackingHolds
<1> QED
  BY <1>1, <1>2, SoloSpec, PTL

\* The rows of the container are true of its trades, whatever the others write.
THEOREM RowsTruthfulAmongOthers == SharedSpec => []RowsTruthful
<1>1. Solo!RowsTruthful => RowsTruthful
  BY SoloRows DEF Solo!RowsTruthful, RowsTruthful, Solo!Priced, Priced, Solo!IsOpen, IsOpen
<1>2. Solo!Spec => []Solo!RowsTruthful
  BY SoloAssumptions, BoundsAssumption, Solo!RowsAreTruthful
<1> QED
  BY <1>1, <1>2, SoloSpec, PTL

\* What makes an estimated exit harmless alone, exact reads or no PSAR pair, makes it
\* harmless among the others: none of the container's rows is about an open trade.
THEOREM NoPhantomsAmongOthers ==
    ASSUME Solo!ExactExit
    PROVE  SharedSpec => []NoPhantomRows
<1>1. Solo!NoPhantomRows => NoPhantomRows
  BY SoloRows DEF Solo!NoPhantomRows, NoPhantomRows, Solo!IsOpen, IsOpen
<1>2. Solo!Spec => []Solo!NoPhantomRows
  BY SoloAssumptions, BoundsAssumption, Solo!NoPhantoms
<1> QED
  BY <1>1, <1>2, SoloSpec, PTL

\* ... and the desk implements the trade book.
THEOREM BookAmongOthers ==
    ASSUME Solo!ExactExit
    PROVE  SharedSpec => ImplementsBook
<1>1. Solo!Book!Init => Book!Init
  BY SoloRows DEF Solo!Book!Init, Book!Init
<1>2. [Solo!Book!Next]_(Solo!Book!vars) => [Book!Next]_(Book!vars)
  <2>1. Solo!OwnRows' = OwnRows'
    BY DEF Solo!OwnRows, OwnRows
  <2> QED
    BY <2>1, SoloRows DEF Solo!Book!Next, Book!Next, Solo!Book!Open, Book!Open, Solo!Book!Close,
                          Book!Close, Solo!Book!Book, Book!Book, Solo!Book!vars, Book!vars
<1>3. Solo!Spec => Solo!ImplementsBook
  BY SoloAssumptions, BoundsAssumption, Solo!DeskImplementsBook
<1> QED
  BY <1>1, <1>2, <1>3, SoloSpec, PTL
     DEF Solo!ImplementsBook, ImplementsBook, Solo!Book!Spec, Book!Spec

\* Without PSAR pairs and cut trades, and with outages no longer than the re-verification,
\* the desk gives up only trades that have closed.
THEOREM NoFalseCloseAmongOthers ==
    ASSUME Solo!ShortOutage, "shrink" \notin Faults
    PROVE  SharedSpec => NoFalseClose
<1>1. Solo!Spec => Solo!NoFalseClose
  BY SoloAssumptions, BoundsAssumption, Solo!NoFalseCloses
<1> DEFINE Step == \A q \in Pairs :
                      /\ st[q].open_trade_id # None
                      /\ st'[q].open_trade_id = None
                      /\ crashes' = crashes
                      => ~IsOpen(st[q].open_trade_id)
           SoloIs == \A q \in Solo!Pairs :
                      /\ st[q].open_trade_id # Solo!None
                      /\ st'[q].open_trade_id = Solo!None
                      /\ crashes' = crashes
                      => ~Solo!IsOpen(st[q].open_trade_id)
<1>2. [SharedNext]_vars /\ [SoloIs]_(Solo!vars) => [Step]_vars
  BY DEF Solo!vars, vars, Solo!Pairs, Pairs, Solo!None, None, Solo!IsOpen, IsOpen
<1> QED
  BY <1>1, <1>2, SoloSpec, PTL DEF SharedSpec, Solo!NoFalseClose, NoFalseClose

\* With outages of at most two reads, no request in doubt and candles at the start, the
\* desk never holds two trades on a pair.
THEOREM OnePositionAmongOthers ==
    ASSUME Solo!BriefOutage
    PROVE  SharedSpec => []SinglePosition
<1>1. Solo!SinglePosition => SinglePosition
  <2>1. \A S : Solo!Cardinality(S) = Cardinality(S)
    BY DEF Solo!Cardinality, Cardinality
  <2> QED
    BY <2>1 DEF Solo!SinglePosition, SinglePosition, Solo!OpenOn, OpenOn, Solo!Pairs, Pairs
<1>2. Solo!Spec => []Solo!SinglePosition
  BY SoloAssumptions, BoundsAssumption, Solo!OnePosition
<1> QED
  BY <1>1, <1>2, SoloSpec, PTL
=============================================================================
