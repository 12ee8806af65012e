------------------------- MODULE RiskOverlayProofs -------------------------
(* The types, the day's mark, the exposure blocks and the concentration     *)
(* blocks of RiskOverlay, for every set of accounts and pairs, all limits   *)
(* and any number of faults.                                                *)
EXTENDS RiskOverlay, FiniteSetTheorems, TLAPS

-----------------------------------------------------------------------------
(* Sums over finite sets.  TotalNav and Exposure are folds, functions that  *)
(* are defined by recursion on the subsets of a set; a smallest subset of   *)
(* which a claim about them is wrong takes the place of an induction.       *)

\* A set of subsets of a finite set has a smallest member.
LEMMA SmallestSubset ==
    ASSUME NEW S, IsFiniteSet(S), NEW B, B \subseteq SUBSET S, B # {}
    PROVE  \E T \in B : \A U \in B : U \subseteq T => U = T
<1>1. IsWellFoundedOn(StrictSubsetOrdering(S), SUBSET S)
  BY FS_StrictSubsetOrderingWellFounded, FS_FiniteSubsetsOfFinite
<1>2. PICK T \in B : \A U \in B : ~ (<<U, T>> \in StrictSubsetOrdering(S))
  BY <1>1, WFMin
<1>3. \A U \in B : U \subseteq T => U = T
  BY <1>2 DEF StrictSubsetOrdering
<1> QED
  BY <1>3

Pick(s) == CHOOSE x \in s : TRUE

\* What the sum of the values v over the subsets of S obeys.
IsSum(v, g, S) ==
    g = [s \in SUBSET S |-> IF s = {} THEN 0 ELSE v[Pick(s)] + g[s \ {Pick(s)}]]

LEMMA SumRule ==
    ASSUME NEW v, NEW g, NEW S, IsSum(v, g, S), NEW s \in SUBSET S
    PROVE  /\ s = {} => g[s] = 0
           /\ s # {} => /\ Pick(s) \in s /\ s \ {Pick(s)} \in SUBSET S
                        /\ g[s] = v[Pick(s)] + g[s \ {Pick(s)}]
<1>1. s # {} => Pick(s) \in s
  BY DEF Pick
<1>2. g[s] = IF s = {} THEN 0 ELSE v[Pick(s)] + g[s \ {Pick(s)}]
  BY DEF IsSum
<1> QED
  BY <1>1, <1>2

LEMMA SumsAgree ==
    ASSUME NEW v, NEW S, IsFiniteSet(S), NEW T, NEW U, S \subseteq T, S \subseteq U,
           NEW g, IsSum(v, g, T), NEW h, IsSum(v, h, U)
    PROVE  g[S] = h[S]
<1> DEFINE B == {s \in SUBSET S : g[s] # h[s]}
<1>1. SUFFICES ASSUME B # {} PROVE FALSE
  OBVIOUS
<1>2. PICK s \in B : \A r \in B : r \subseteq s => r = s
  <2>1. B \subseteq SUBSET S
    OBVIOUS
  <2> HIDE DEF B
  <2> QED
    BY <1>1, <2>1, SmallestSubset
<1>3. s \in SUBSET T /\ s \in SUBSET U /\ g[s] # h[s] /\ s \subseteq S
  BY <1>2
<1>4. s # {}
  BY <1>3, SumRule
<1> DEFINE x == Pick(s)
           r == s \ {x}
<1>5. x \in s /\ g[s] = v[x] + g[r] /\ h[s] = v[x] + h[r]
  BY <1>3, <1>4, SumRule
<1>6. r \subseteq s /\ r # s /\ r \in SUBSET S
  BY <1>3, <1>5
<1>7. r \notin B
  BY <1>2, <1>6
<1>8. g[r] = h[r]
  BY <1>6, <1>7
<1> QED
  BY <1>3, <1>5, <1>8

LEMMA SumType ==
    ASSUME NEW S, IsFiniteSet(S), NEW D \in {Nat, Int}, NEW v, \A x \in S : v[x] \in D,
           NEW g, IsSum(v, g, S)
    PROVE  g[S] \in D
<1> DEFINE B == {s \in SUBSET S : g[s] \notin D}
<1>1. SUFFICES ASSUME B # {} PROVE FALSE
  OBVIOUS
<1>2. PICK s \in B : \A r \in B : r \subseteq s => r = s
  <2>1. B \subseteq SUBSET S
    OBVIOUS
  <2> HIDE DEF B
  <2> QED
    BY <1>1, <2>1, SmallestSubset
<1>3. s \in SUBSET S /\ g[s] \notin D
  BY <1>2
<1>4. s # {}
  <2>1. s = {} => g[s] = 0
    BY <1>3, SumRule
  <2>2. 0 \in D
    OBVIOUS
  <2> QED
    BY <1>3, <2>1, <2>2
<1> DEFINE x == Pick(s)
           r == s \ {x}
<1>5. x \in s /\ g[s] = v[x] + g[r]
  BY <1>3, <1>4, SumRule
<1>6. r \subseteq s /\ r # s /\ r \in SUBSET S
  BY <1>3, <1>5
<1>7. r \notin B
  BY <1>2, <1>6
<1>8. g[r] \in D /\ v[x] \in D
  BY <1>3, <1>5, <1>6, <1>7
<1> HIDE DEF r, x
<1> QED
  BY <1>3, <1>5, <1>8

LEMMA SumExists ==
    ASSUME NEW S, IsFiniteSet(S), NEW v
    PROVE  \E g : IsSum(v, g, S)
<1> DEFINE B == {s \in SUBSET S : ~ \E g : IsSum(v, g, s)}
<1>1. SUFFICES ASSUME B # {} PROVE FALSE
  OBVIOUS
<1>2. PICK T \in B : \A r \in B : r \subseteq T => r = T
  <2>1. B \subseteq SUBSET S
    OBVIOUS
  <2> HIDE DEF B
  <2> QED
    BY <1>1, <2>1, SmallestSubset
<1>3. T \in SUBSET S /\ (~ \E g : IsSum(v, g, T)) /\ \A r \in SUBSET T : r # T => \E g : IsSum(v, g, r)
  BY <1>2
<1> DEFINE h(r) == CHOOSE g : IsSum(v, g, r)
           F == [r \in SUBSET T |-> h(r)[r]]
           G == [s \in SUBSET T |-> IF s = {} THEN 0 ELSE v[Pick(s)] + F[s \ {Pick(s)}]]
<1>4. \A r \in SUBSET T : r # T => IsSum(v, h(r), r)
  BY <1>3
<1>5. \A r \in SUBSET T : F[r] = h(r)[r]
  OBVIOUS
<1>6. \A s \in SUBSET T : G[s] = IF s = {} THEN 0 ELSE v[Pick(s)] + F[s \ {Pick(s)}]
  OBVIOUS
<1> HIDE DEF h, F
<1>7. ASSUME NEW r \in SUBSET T, r # T PROVE G[r] = F[r]
  <2>1. IsSum(v, h(r), r) /\ F[r] = h(r)[r]
    BY <1>4, <1>5, <1>7
  <2>2. CASE r = {}
    BY <1>6, <2>1, <2>2, SumRule
  <2>3. CASE r # {}
    <3> DEFINE x == Pick(r)
               q == r \ {x}
    <3>1. x \in r /\ h(r)[r] = v[x] + h(r)[q]
      BY <2>1, <2>3, SumRule
    <3>2. q \in SUBSET T /\ q # T /\ q \subseteq r
      BY <1>7, <3>1
    <3>3. IsSum(v, h(q), q) /\ F[q] = h(q)[q] /\ IsFiniteSet(q)
      BY <1>3, <1>4, <1>5, <3>2, FS_Subset
    <3>4. h(q)[q] = h(r)[q]
      BY <2>1, <3>2, <3>3, SumsAgree
    <3>5. G[r] = v[x] + F[q]
      BY <1>6, <2>3
    <3> QED
      BY <2>1, <3>1, <3>3, <3>4, <3>5
  <2> QED
    BY <2>2, <2>3
<1>8. \A s \in SUBSET T : s # {} => G[s \ {Pick(s)}] = F[s \ {Pick(s)}]
  <2>1. ASSUME NEW s \in SUBSET T, s # {} PROVE G[s \ {Pick(s)}] = F[s \ {Pick(s)}]
    <3>1. Pick(s) \in s
      BY <2>1 DEF Pick
    <3>2. s \ {Pick(s)} \in SUBSET T /\ s \ {Pick(s)} # T
      BY <3>1
    <3> QED
      BY <1>7, <3>2
  <2> QED
    BY <2>1
<1>9. IsSum(v, G, T)
  BY <1>8 DEF IsSum
<1> QED
  BY <1>3, <1>9

LEMMA TotalNavNat ==
    ASSUME IsFiniteSet(Accounts), NEW state, \A a \in Accounts : state[a] \in Nat
    PROVE  TotalNav(state) \in Nat
<1> DEFINE g == CHOOSE g : IsSum(state, g, Accounts)
<1>1. TotalNav(state) = g[Accounts]
  BY DEF TotalNav, MapThenSumSet, MapThenFoldSet, IsSum, Pick
<1>2. IsSum(state, g, Accounts)
  BY SumExists
<1> HIDE DEF g
<1> QED
  BY <1>1, <1>2, SumType

\* The exposure of a currency, as a sum of the exposures of the trades.
LEMMA ExposureInt ==
    ASSUME IsFiniteSet(Accounts), IsFiniteSet(Pairs), NEW trades \in [Accounts -> [Pairs -> {-1, 0, 1}]], NEW c
    PROVE  Exposure(trades, c) \in Int
<1> DEFINE S == Accounts \X Pairs
           f(ap) == trades[ap[1]][ap[2]] *
                      (IF ap[2].base = c THEN 1 ELSE IF ap[2].quote = c THEN -1 ELSE 0)
           v == [ap \in S |-> f(ap)]
           IsExposure(g) == g = [s \in SUBSET S |-> IF s = {} THEN 0 ELSE f(Pick(s)) + g[s \ {Pick(s)}]]
           e == CHOOSE g : IsExposure(g)
<1>1. Exposure(trades, c) = e[S]
  BY DEF Exposure, MapThenSumSet, MapThenFoldSet, Pick
<1>2. IsFiniteSet(S)
  BY FS_Product
<1>3. \A ap \in S : f(ap) \in Int
  OBVIOUS
<1>4. \A ap \in S : v[ap] = f(ap)
  OBVIOUS
<1> HIDE DEF f, v, e, S
<1>5. ASSUME NEW g PROVE IsExposure(g) <=> IsSum(v, g, S)
  <2>1. \A s \in SUBSET S : s # {} => v[Pick(s)] = f(Pick(s))
    BY <1>4 DEF Pick
  <2>2. [s \in SUBSET S |-> IF s = {} THEN 0 ELSE f(Pick(s)) + g[s \ {Pick(s)}]]
          = [s \in SUBSET S |-> IF s = {} THEN 0 ELSE v[Pick(s)] + g[s \ {Pick(s)}]]
    BY <2>1
  <2> QED
    BY <2>2 DEF IsSum
<1>6. IsSum(v, e, S)
  <2>1. PICK g : IsSum(v, g, S)
    BY <1>2, SumExists
  <2>2. IsExposure(g)
    BY <1>5, <2>1
  <2>3. IsExposure(e)
    BY <2>2 DEF e
  <2> QED
    BY <1>5, <2>3
<1>7. e[S] \in Int
  BY <1>2, <1>3, <1>4, <1>6, SumType
<1> QED
  BY <1>1, <1>7

\* A finite set of numbers that has a member has a greatest one.
LEMMA MaxIn == ASSUME NEW S, IsFiniteSet(S), S \subseteq Nat, S # {} PROVE Max(S) \in S
<1> DEFINE B == {s \in SUBSET S : s # {} /\ ~ \E m \in s : \A y \in s : m >= y}
<1>1. SUFFICES ASSUME B # {} PROVE FALSE
  <2>1. B = {} => \E m \in S : \A y \in S : m >= y
    OBVIOUS
  <2> QED
    BY <2>1 DEF Max
<1>2. PICK s \in B : \A r \in B : r \subseteq s => r = s
  <2>1. B \subseteq SUBSET S /\ B # {}
    BY <1>1
  <2> HIDE DEF B
  <2>2. \E s \in B : \A r \in B : r \subseteq s => r = s
    BY ONLY <2>1, IsFiniteSet(S), SmallestSubset
  <2> QED
    BY <2>2
<1>3. s \subseteq S /\ s # {} /\ ~ \E m \in s : \A y \in s : m >= y
  BY <1>2
<1> DEFINE x == Pick(s)
           r == s \ {x}
<1>4. x \in s
  BY <1>3 DEF Pick
<1> HIDE DEF x
<1>5. r \notin B
  BY <1>2, <1>4
<1>6. CASE r = {}
  <2>1. \A y \in s : x >= y
    BY <1>3, <1>4, <1>6
  <2> QED
    BY <1>3, <1>4, <2>1
<1>7. CASE r # {}
  <2>1. PICK m \in r : \A y \in r : m >= y
    BY <1>3, <1>5, <1>7
  <2>2. m \in Nat /\ x \in Nat /\ m \in s /\ r \subseteq Nat
    BY <1>3, <1>4, <2>1
  <2>3. CASE m >= x
    BY <1>3, <2>1, <2>2, <2>3
  <2>4. CASE ~ (m >= x)
    <3>1. \A y \in s : x >= y
      BY <2>1, <2>2, <2>4
    <3> QED
      BY <1>3, <1>4, <3>1
  <2> QED
    BY <2>3, <2>4
<1> QED
  BY <1>6, <1>7

-----------------------------------------------------------------------------
(* The types.                                                               *)

Row == [Pairs -> {-1, 0, 1}]

LEMMA NothingHeld == AllEmpty \in Trades /\ \A a \in Accounts, p \in Pairs : AllEmpty[a][p] = 0
BY DEF AllEmpty, NoTrades, Trades

\* What of the state the steps of the round write, and the rest.
RoundTypes ==
    /\ exposed \in Trades /\ counted \in Trades /\ stable \in Trades
    /\ account_state \in [Accounts -> Navs \cup {0}]
    /\ pc \in {"poll", "exposure", "positions", "publish"}
    /\ left \subseteq Accounts /\ left # {} /\ clean \in BOOLEAN
MarkTypes ==
    /\ hwm_hour \in 0..Hours - 1 /\ hwm \in Nat /\ peak \in Nat /\ bus \in Overlays
DayTypes    == hour \in 0..Hours - 1 /\ fresh \in BOOLEAN /\ done \in BOOLEAN
MarketTypes ==
    /\ pos \in Trades /\ nav \in [Accounts -> Navs]
    /\ due \subseteq Readers /\ overlay \in [Readers -> Overlays]
BoundTypes  == changes \in 0..MaxChanges /\ failed \in 0..MaxFailed /\ restarts \in 0..MaxRestarts

LEMMA TypeParts ==
    /\ TypeOK <=> RoundTypes /\ MarkTypes /\ DayTypes /\ MarketTypes /\ BoundTypes
    /\ (TypeOK <=> RoundTypes /\ MarkTypes /\ DayTypes /\ MarketTypes /\ BoundTypes)'
BY DEF TypeOK, RoundTypes, MarkTypes, DayTypes, MarketTypes, BoundTypes

\* What the round computes of what it has read.
LEMMA TotalNavOfPolled == TypeOK => TotalNav(account_state) \in Nat
<1> SUFFICES ASSUME TypeOK PROVE TotalNav(account_state) \in Nat
  OBVIOUS
<1>1. \A a \in Accounts : account_state[a] \in Nat
  <2>1. account_state \in [Accounts -> Navs \cup {0}]
    BY DEF TypeOK
  <2>2. Navs \cup {0} \subseteq Nat
    BY OverlayAssumption
  <2> QED
    BY <2>1, <2>2
<1> QED
  BY <1>1, OverlayAssumption, TotalNavNat

LEMMA AddingSide == ASSUME NEW p, NEW c, NEW e PROVE Adding(p, c, e) \in Sides
BY DEF Adding, Sides

LEMMA OverlayTyped ==
    ASSUME NEW trades, NEW seen, NEW total, NEW m, NEW n
    PROVE  [crowded |-> Crowded(seen), exposing |-> Exposing(trades, total) \ Crowded(seen),
            dd |-> Drawdown(m, total), full |-> AtCap(n)] \in Overlays
<1>1. Crowded(seen) \subseteq Keys
  BY DEF Crowded
<1>2. Exposing(trades, total) \subseteq Keys
  BY AddingSide DEF Exposing, Keys
<1>3. Drawdown(m, total) \in {"normal", "tapered", "blocked"}
  BY DEF Drawdown
<1>4. AtCap(n) \in BOOLEAN
  BY DEF AtCap
<1> QED
  BY <1>1, <1>2, <1>3, <1>4 DEF Overlays

\* A pass replaces the row of one account, by what it holds or by nothing.
LEMMA RowRead ==
    ASSUME NEW seen \in Trades, NEW held \in Trades, NEW a, NEW seen2,
           \/ seen2 = [seen EXCEPT ![a] = held[a]]
           \/ seen2 = [seen EXCEPT ![a] = NoTrades]
    PROVE  seen2 \in Trades
<1>1. NoTrades \in Row
  BY DEF NoTrades, Row
<1>2. seen \in [Accounts -> Row] /\ (a \in Accounts => held[a] \in Row)
  BY DEF Trades, Row
<1>3. seen2 \in [Accounts -> Row]
  BY <1>1, <1>2
<1> QED
  BY <1>3 DEF Trades, Row

\* The next step of a pass has accounts to go on with.
LEMMA RestTyped == ASSUME RoundTypes, Rest PROVE left' \subseteq Accounts /\ left' # {}
<1> DEFINE m == Min(left)
<1>1. /\ left \subseteq Accounts /\ left # {} /\ Accounts # {}
      /\ left' = IF left = {m} THEN Accounts ELSE left \ {m}
  BY OverlayAssumption DEF RoundTypes, Rest, Last
<1> HIDE DEF m
<1> QED
  BY <1>1

LEMMA RoundTyped == ASSUME TypeOK, Round PROVE TypeOK'
<1>0. /\ RoundTypes /\ MarkTypes /\ DayTypes /\ MarketTypes /\ BoundTypes
      /\ UNCHANGED <<pos, nav, hour, overlay, changes, restarts>>
      /\ due' = due \/ due' = Readers
  BY TypeParts DEF Round, PollAccount, ReadExposure, ReadPositions, Publish, market, desks, bounds
<1>1. MarketTypes'
  BY <1>0 DEF MarketTypes
<1>2. CASE PollAccount
  <2> DEFINE a == Min(left)
  <2>1. /\ \/ account_state' = Polled(a, TRUE) /\ failed' = failed
           \/ account_state' = Polled(a, FALSE) /\ failed < MaxFailed /\ failed' = failed + 1
        /\ pc' \in {"poll", "exposure"}
        /\ stable' = stable \/ stable' = pos
        /\ Rest
        /\ UNCHANGED <<exposed, counted, hwm, hwm_hour, bus, fresh, done, peak, clean>>
    BY <1>2 DEF PollAccount, Onto, mark, day
  <2> HIDE DEF a
  <2>2. BoundTypes'
    <3>1. failed' \in 0..MaxFailed
      <4>1. failed' = failed \/ (failed < MaxFailed /\ failed' = failed + 1)
        BY <2>1
      <4> QED
        BY <1>0, <4>1, OverlayAssumption DEF BoundTypes
    <3> QED
      BY <1>0, <3>1 DEF BoundTypes
  <2>3. account_state' \in [Accounts -> Navs \cup {0}]
    BY <1>0, <2>1 DEF Polled, MarketTypes, RoundTypes
  <2>4. left' \subseteq Accounts /\ left' # {}
    BY <1>0, <2>1, RestTyped
  <2>5. RoundTypes' /\ MarkTypes' /\ DayTypes'
    BY <1>0, <2>1, <2>3, <2>4 DEF RoundTypes, MarkTypes, DayTypes, MarketTypes
  <2> QED
    BY <1>1, <2>2, <2>5, TypeParts
<1>3. CASE ReadExposure \/ ReadPositions
  <2>1. /\ UNCHANGED <<hwm, hwm_hour, bus, fresh, done, peak, stable, account_state>>
        /\ pc' \in {"exposure", "positions", "publish"} /\ left' \subseteq Accounts /\ left' # {}
    BY <1>0, <1>3, RestTyped DEF ReadExposure, ReadPositions, Read, Onto, mark, day
  <2>2. exposed' \in Trades /\ counted' \in Trades
    <3> DEFINE a == Min(left)
    <3>1. /\ \/ exposed' = exposed
             \/ exposed' = [exposed EXCEPT ![a] = pos[a]]
             \/ exposed' = [exposed EXCEPT ![a] = NoTrades]
          /\ \/ counted' = counted
             \/ counted' = [counted EXCEPT ![a] = pos[a]]
             \/ counted' = [counted EXCEPT ![a] = NoTrades]
      BY <1>3 DEF ReadExposure, ReadPositions, Read
    <3> HIDE DEF a
    <3>2. exposed \in Trades /\ counted \in Trades /\ pos \in Trades
      BY <1>0 DEF RoundTypes, MarketTypes
    <3>3. exposed' \in Trades
      BY <3>1, <3>2, RowRead
    <3>4. counted' \in Trades
      BY <3>1, <3>2, RowRead
    <3> QED
      BY <3>3, <3>4
  <2>3. clean' \in BOOLEAN /\ (failed' = failed \/ (failed < MaxFailed /\ failed' = failed + 1))
    BY <1>0, <1>3 DEF ReadExposure, ReadPositions, Read, RoundTypes
  <2>4. BoundTypes'
    BY <1>0, <2>3, OverlayAssumption DEF BoundTypes
  <2>5. RoundTypes' /\ MarkTypes' /\ DayTypes'
    BY <1>0, <2>1, <2>2, <2>3 DEF RoundTypes, MarkTypes, DayTypes
  <2> QED
    BY <1>1, <2>4, <2>5, TypeParts
<1>4. CASE Publish
  <2> DEFINE total == TotalNav(account_state)
  <2>1. total \in Nat
    BY TotalNavOfPolled
  <2>2. /\ hwm' = Mark(total) /\ hwm_hour' = hour /\ bus' \in Overlays
        /\ peak' = IF fresh \/ total > peak THEN total ELSE peak
    <3>1. bus' = [crowded |-> Crowded(counted), exposing |-> Exposing(exposed, total) \ Crowded(counted),
                  dd |-> Drawdown(hwm', total), full |-> AtCap(TotalPositions(counted))]
      BY <1>4 DEF Publish
    <3> QED
      BY <1>4, <3>1, OverlayTyped DEF Publish
  <2> HIDE DEF total
  <2>3. MarkTypes'
    BY <1>0, <2>1, <2>2 DEF MarkTypes, DayTypes, Mark
  <2>4. /\ ~fresh' /\ done' /\ pc' = "poll" /\ exposed' = AllEmpty /\ counted' = AllEmpty
        /\ stable' = AllEmpty /\ clean' = TRUE /\ UNCHANGED <<left, account_state, failed>>
        /\ fresh' \in BOOLEAN /\ done' \in BOOLEAN
    BY <1>4 DEF Publish, bounds
  <2>5. RoundTypes'
    BY <1>0, <2>4, NothingHeld DEF RoundTypes
  <2>6. DayTypes' /\ BoundTypes'
    BY <1>0, <2>4 DEF DayTypes, BoundTypes
  <2> QED
    BY <1>1, <2>3, <2>5, <2>6, TypeParts
<1> QED
  BY <1>2, <1>3, <1>4 DEF Round

LEMMA RestartTyped == ASSUME TypeOK, ManagerRestart PROVE TypeOK'
<1>1. RoundTypes /\ MarkTypes /\ DayTypes /\ MarketTypes /\ BoundTypes
  BY TypeParts
<1>2. /\ account_state' = [a \in Accounts |-> 0] /\ hwm' = 0 /\ hwm_hour' = 0 /\ peak' = 0
      /\ pc' = "poll" /\ left' = Accounts /\ exposed' = AllEmpty /\ counted' = AllEmpty
      /\ stable' = AllEmpty /\ clean' = TRUE /\ restarts < MaxRestarts /\ restarts' = restarts + 1
      /\ UNCHANGED <<pos, nav, hour, bus, due, overlay, fresh, done, changes, failed>>
  BY DEF ManagerRestart, market, desks
<1>3. RoundTypes'
  BY <1>2, NothingHeld, OverlayAssumption DEF RoundTypes
<1>4. MarkTypes' /\ BoundTypes'
  BY <1>1, <1>2, OverlayAssumption DEF MarkTypes, BoundTypes
<1>5. DayTypes' /\ MarketTypes'
  BY <1>1, <1>2 DEF DayTypes, MarketTypes
<1> QED
  BY <1>3, <1>4, <1>5, TypeParts

LEMMA ReaderTyped ==
    ASSUME TypeOK, NEW a \in Readers, Receive(a) \/ ReaderRestart(a) PROVE TypeOK'
<1>1. RoundTypes /\ MarkTypes /\ DayTypes /\ MarketTypes /\ BoundTypes
  BY TypeParts
<1>2. NoOverlay \in Overlays
  BY DEF NoOverlay, Overlays
<1>3. /\ \/ overlay' = [overlay EXCEPT ![a] = bus] \/ overlay' = [overlay EXCEPT ![a] = NoOverlay]
      /\ due' \subseteq due
      /\ UNCHANGED <<pos, nav, hour, pc, left, exposed, counted, account_state, hwm, hwm_hour, bus,
                     peak, fresh, done, stable, clean, changes, failed>>
      /\ restarts' = restarts \/ (restarts < MaxRestarts /\ restarts' = restarts + 1)
  BY DEF Receive, ReaderRestart, market, reads, mark, day, bounds
<1>4. RoundTypes' /\ MarkTypes' /\ DayTypes'
  BY <1>1, <1>3 DEF RoundTypes, MarkTypes, DayTypes
<1>5. MarketTypes'
  BY <1>1, <1>2, <1>3 DEF MarketTypes, MarkTypes
<1>6. BoundTypes'
  BY <1>1, <1>3, OverlayAssumption DEF BoundTypes
<1> QED
  BY <1>4, <1>5, <1>6, TypeParts

LEMMA TradingTyped ==
    ASSUME TypeOK,
           \/ \E a \in Accounts : NavMoves(a)
           \/ \E a \in Accounts, p \in Pairs : Close(a, p) \/ \E d \in Sides : Open(a, p, d)
    PROVE  TypeOK'
<1>1. /\ RoundTypes /\ MarkTypes /\ DayTypes /\ MarketTypes /\ BoundTypes
      /\ pos \in [Accounts -> Row] /\ stable \in [Accounts -> Row] /\ nav \in [Accounts -> Navs]
  BY TypeParts DEF RoundTypes, MarketTypes, Trades, Row
<1>2. /\ UNCHANGED <<hour, pc, left, exposed, counted, account_state, hwm, hwm_hour, bus,
                     due, overlay, peak, fresh, done, clean, failed, restarts>>
      /\ changes < MaxChanges /\ changes' = changes + 1
  BY DEF NavMoves, Close, Open, Change, reads, mark, desks, day
<1>3. nav' \in [Accounts -> Navs]
  <2>1. \/ nav' = nav
        \/ \E a \in Accounts, v \in Navs : nav' = [nav EXCEPT ![a] = v]
    BY DEF NavMoves, Close, Open
  <2> QED
    BY <1>1, <2>1
<1>4. pos' \in [Accounts -> Row] /\ stable' \in [Accounts -> Row]
  <2>1. CASE UNCHANGED <<pos, stable>>
    BY <1>1, <2>1
  <2>2. ASSUME NEW a \in Accounts, NEW p \in Pairs, NEW d \in {-1, 0, 1},
               pos' = [pos EXCEPT ![a][p] = d],
               stable' = stable \/ stable' = [stable EXCEPT ![a][p] = 0]
        PROVE  pos' \in [Accounts -> Row] /\ stable' \in [Accounts -> Row]
    <3>1. ASSUME NEW x \in [Accounts -> Row], NEW e \in {-1, 0, 1}
          PROVE  [x EXCEPT ![a][p] = e] \in [Accounts -> Row]
      <4>1. [x[a] EXCEPT ![p] = e] \in Row
        BY <3>1 DEF Row
      <4> QED
        BY <3>1, <4>1
    <3> QED
      BY <1>1, <2>2, <3>1
  <2>3. \/ UNCHANGED <<pos, stable>>
        \/ \E a \in Accounts, p \in Pairs, d \in {-1, 0, 1} :
             /\ pos' = [pos EXCEPT ![a][p] = d]
             /\ stable' = stable \/ stable' = [stable EXCEPT ![a][p] = 0]
    BY DEF NavMoves, Close, Open, Sides
  <2> QED
    BY <2>1, <2>2, <2>3
<1>5. RoundTypes' /\ MarketTypes'
  BY <1>1, <1>2, <1>3, <1>4 DEF RoundTypes, MarketTypes, Trades, Row
<1>6. MarkTypes' /\ DayTypes' /\ BoundTypes'
  BY <1>1, <1>2, OverlayAssumption DEF MarkTypes, DayTypes, BoundTypes
<1> QED
  BY <1>5, <1>6, TypeParts

LEMMA HourTyped == ASSUME TypeOK, NextHour PROVE TypeOK'
<1>1. RoundTypes /\ MarkTypes /\ DayTypes /\ MarketTypes /\ BoundTypes
  BY TypeParts
<1>2. /\ hour' = (hour + 1) % Hours /\ done' \in BOOLEAN /\ fresh' \in BOOLEAN
      /\ UNCHANGED <<pos, nav, pc, left, exposed, counted, account_state, hwm, hwm_hour, bus,
                     due, overlay, peak, stable, clean, changes, failed, restarts>>
  BY DEF NextHour, reads, mark, desks, bounds
<1>3. hour' \in 0..Hours - 1
  BY <1>1, <1>2, OverlayAssumption DEF DayTypes
<1> QED
  BY <1>1, <1>2, <1>3, TypeParts DEF RoundTypes, MarkTypes, DayTypes, MarketTypes, BoundTypes

LEMMA TypeStep == TypeOK /\ [Next]_vars => TypeOK'
<1> SUFFICES ASSUME TypeOK, [Next]_vars PROVE TypeOK'
  OBVIOUS
<1>1. CASE UNCHANGED vars
  BY <1>1 DEF TypeOK, vars, market, reads, mark, desks, day, bounds
<1> QED
  BY <1>1, RoundTyped, RestartTyped, ReaderTyped, TradingTyped, HourTyped DEF Next

\* The state of the manager, of the readers and of the market keeps its types: the mark is
\* a sum of NAVs the accounts had when they were polled, and what is published is an overlay.
THEOREM OverlayTypeCorrect == Spec => []TypeOK
<1>1. Init => TypeOK
  <2> SUFFICES ASSUME Init PROVE TypeOK
    OBVIOUS
  <2>1. NoOverlay \in Overlays
    BY DEF NoOverlay, Overlays
  <2>2. Max(Navs) \in Navs
    BY MaxIn, OverlayAssumption
  <2>3. RoundTypes
    BY NothingHeld, OverlayAssumption DEF Init, RoundTypes
  <2>4. MarkTypes /\ BoundTypes
    BY <2>1, OverlayAssumption DEF Init, MarkTypes, BoundTypes
  <2>5. DayTypes
    BY DEF Init, DayTypes
  <2>6. MarketTypes
    <3>1. pos \in Trades
      BY OverlayAssumption DEF Init, Trades
    <3> QED
      BY <2>1, <2>2, <3>1 DEF Init, MarketTypes
  <2> QED
    BY <2>3, <2>4, <2>5, <2>6, TypeParts
<1> QED
  BY <1>1, TypeStep, PTL DEF Spec

-----------------------------------------------------------------------------
(* The mark.                                                                *)

\* A day of a single hour would never see its hour change.
RealDay == Hours >= 2 /\ ~Stalls

\* Where the comparison of hours and the history of the day agree: the first round of
\* hour 0 is still to come exactly when the mark was last taken at another hour, or when
\* there is no mark; and an hour does not end without a round.
MarkInv ==
    /\ hwm = peak
    /\ hour \in 0..Hours - 1
    /\ fresh => ~done /\ hour = 0 /\ (hwm_hour # 0 \/ hwm = 0)
    /\ hour = 0 /\ hwm_hour # 0 => fresh
    /\ done => hwm_hour = hour \/ hwm = 0
    /\ pc # "poll" => TotalNav(account_state) > 0

\* The next hour of the day.
LEMMA NextHourOfDay ==
    ASSUME RealDay, NEW h \in 0..Hours - 1
    PROVE  /\ (h + 1) % Hours \in 0..Hours - 1
           /\ (h + 1) % Hours = 0 => h = Hours - 1 /\ h # 0
<1>1. Hours \in Nat /\ Hours >= 2
  BY OverlayAssumption DEF RealDay
<1>2. CASE h = Hours - 1
  BY <1>1, <1>2
<1>3. CASE h # Hours - 1
  BY <1>1, <1>3
<1> QED
  BY <1>2, <1>3

\* Every step keeps the mark the best of the day.
LEMMA MarkStep == ASSUME RealDay, MarkInv, [Next]_vars PROVE MarkInv'
<1>1. CASE PollAccount
  <2>1. UNCHANGED <<hour, hwm, hwm_hour, peak, fresh, done>>
    BY <1>1 DEF PollAccount, market, mark, day
  <2>2. pc' # "poll" => TotalNav(account_state') > 0
    BY <1>1 DEF PollAccount, Onto
  <2> QED
    BY <2>1, <2>2 DEF MarkInv
<1>2. CASE ReadExposure \/ ReadPositions
  <2>1. pc # "poll" /\ UNCHANGED <<hour, hwm, hwm_hour, peak, fresh, done, account_state>>
    BY <1>2 DEF ReadExposure, ReadPositions, market, mark, day
  <2> QED
    BY <2>1 DEF MarkInv
<1>3. CASE Publish
  <2> DEFINE total == TotalNav(account_state)
  <2>1. /\ total > 0
        /\ hwm' = Mark(total)
        /\ peak' = IF fresh \/ total > peak THEN total ELSE peak
        /\ hwm_hour' = hour /\ hour' = hour /\ ~fresh' /\ done' /\ pc' = "poll"
    BY <1>3 DEF Publish, market, MarkInv
  <2>2. hwm' = peak'
    BY <2>1 DEF Mark, MarkInv
  <2> QED
    BY <2>1, <2>2 DEF MarkInv
<1>4. CASE ManagerRestart
  <2>1. hwm' = 0 /\ hwm_hour' = 0 /\ peak' = 0 /\ pc' = "poll" /\ UNCHANGED <<hour, fresh, done>>
    BY <1>4 DEF ManagerRestart, market
  <2> QED
    BY <2>1 DEF MarkInv
<1>5. CASE NextHour
  <2>1. /\ done /\ hour' = (hour + 1) % Hours /\ ~done'
        /\ fresh' = (fresh \/ hour' = 0)
        /\ UNCHANGED <<hwm, hwm_hour, peak, pc, account_state>>
    BY <1>5 DEF NextHour, RealDay, reads, mark
  <2>2. hour' \in 0..Hours - 1 /\ (hour' = 0 => hour # 0)
    BY <2>1, NextHourOfDay DEF MarkInv
  <2>3. ~fresh
    BY <2>1 DEF MarkInv
  <2>4. fresh' => hour' = 0 /\ (hwm_hour' # 0 \/ hwm' = 0)
    BY <2>1, <2>2, <2>3 DEF MarkInv
  <2>5. hour' = 0 => fresh'
    BY <2>1
  <2> QED
    BY <2>1, <2>2, <2>4, <2>5 DEF MarkInv
<1>6. CASE UNCHANGED <<hour, hwm, hwm_hour, peak, fresh, done, pc, account_state>>
  BY <1>6 DEF MarkInv
<1>7. CASE \E a \in Readers : Receive(a) \/ ReaderRestart(a)
  <2>1. UNCHANGED <<hour, hwm, hwm_hour, peak, fresh, done, pc, account_state>>
    BY <1>7 DEF Receive, ReaderRestart, market, reads, mark, day
  <2> QED
    BY <2>1, <1>6
<1>8. CASE \/ \E a \in Accounts : NavMoves(a)
           \/ \E a \in Accounts, p \in Pairs : Close(a, p) \/ \E d \in Sides : Open(a, p, d)
  <2>1. UNCHANGED <<hour, hwm, hwm_hour, peak, fresh, done, pc, account_state>>
    BY <1>8 DEF NavMoves, Close, Open, reads, mark, day
  <2> QED
    BY <2>1, <1>6
<1>9. CASE UNCHANGED vars
  BY <1>9, <1>6 DEF vars, market, reads, mark, day
<1> QED
  BY <1>1, <1>2, <1>3, <1>4, <1>5, <1>7, <1>8, <1>9 DEF Next, Round

\* The drawdown throttle is measured from the best total NAV of the day or since the
\* start, whatever polls fail and wherever in the day the manager restarts, as long as
\* there is a round in every hour.
THEOREM MarkIsOfTheDay ==
    ASSUME RealDay
    PROVE  Spec => []MarkIsTodays
<1>1. Init => MarkInv
  BY OverlayAssumption DEF Init, MarkInv, RealDay
<1>2. MarkInv /\ [Next]_vars => MarkInv'
  BY MarkStep
<1>3. MarkInv => MarkIsTodays
  BY DEF MarkInv, MarkIsTodays
<1> QED
  BY <1>1, <1>2, <1>3, PTL DEF Spec

-----------------------------------------------------------------------------
(* The blocks of concentrated pairs.                                        *)

\* What a round has read of an account by its second pass is what the account has held
\* since the round began.
HoldInv ==
    /\ pos \in Trades /\ stable \in Trades /\ counted \in Trades
    /\ \A a \in Accounts, p \in Pairs : stable[a][p] # 0 => stable[a][p] = pos[a][p]
    /\ pc \in {"positions", "publish"} /\ clean =>
         \A a \in Accounts, p \in Pairs :
             (pc = "positions" => a \notin left) /\ stable[a][p] # 0
                => stable[a][p] = counted[a][p]

\* The desks and the market, which a round in its second pass may meet anywhere.
LEMMA TradingKeepsHoldInv ==
    ASSUME HoldInv, NEW a \in Accounts, NEW p \in Pairs,
           Close(a, p) \/ \E d \in Sides : Open(a, p, d)
    PROVE  HoldInv'
<1>1. CASE Close(a, p)
  <2>1. /\ pos' = [pos EXCEPT ![a][p] = 0] /\ stable' = [stable EXCEPT ![a][p] = 0]
        /\ UNCHANGED <<pc, left, counted, clean>>
    BY <1>1 DEF Close, reads
  <2>2. pos' \in Trades /\ stable' \in Trades
    BY <2>1 DEF HoldInv, Trades
  <2>3. \A b \in Accounts, q \in Pairs :
           stable'[b][q] # 0 => stable'[b][q] = stable[b][q] /\ pos'[b][q] = pos[b][q]
    BY <2>1 DEF HoldInv, Trades
  <2> QED
    BY <2>1, <2>2, <2>3 DEF HoldInv
<1>2. CASE \E d \in Sides : Open(a, p, d)
  <2>1. PICK d \in Sides : Open(a, p, d)
    BY <1>2
  <2>2. /\ pos[a][p] = 0 /\ pos' = [pos EXCEPT ![a][p] = d]
        /\ UNCHANGED <<pc, left, stable, counted, clean>>
    BY <2>1 DEF Open, reads
  <2>3. pos' \in Trades
    BY <2>2 DEF HoldInv, Trades, Sides
  <2>4. \A b \in Accounts, q \in Pairs : stable[b][q] # 0 => pos'[b][q] = pos[b][q]
    BY <2>2 DEF HoldInv, Trades
  <2> QED
    BY <2>2, <2>3, <2>4 DEF HoldInv
<1> QED
  BY <1>1, <1>2

\* The second pass: what it reads of an account it may rely on, or knows it may not.
LEMMA SecondPassKeepsHoldInv == ASSUME HoldInv, ReadPositions PROVE HoldInv'
<1> DEFINE a == Min(left)
<1>1. /\ pc = "positions" /\ UNCHANGED <<pos, stable>>
      /\ IF left = {a} THEN pc' = "publish" ELSE pc' = "positions" /\ left' = left \ {a}
      /\ \/ counted' = [counted EXCEPT ![a] = pos[a]] /\ clean' = clean
         \/ counted' = [counted EXCEPT ![a] = NoTrades] /\ ~clean'
  BY DEF ReadPositions, Read, Rest, Onto, Last, market
<1>2. counted' \in Trades
  <2>1. NoTrades \in [Pairs -> {-1, 0, 1}]
    BY DEF NoTrades
  <2> HIDE DEF a
  <2>2. a \in Accounts => pos[a] \in [Pairs -> {-1, 0, 1}]
    BY DEF HoldInv, Trades
  <2> QED
    BY <1>1, <2>1, <2>2 DEF HoldInv, Trades
<1> HIDE DEF a
<1>3. ASSUME clean', NEW b \in Accounts, pc' = "positions" => b \notin left', NEW p \in Pairs,
             stable[b][p] # 0
      PROVE  stable[b][p] = counted'[b][p]
  <2>1. counted' = [counted EXCEPT ![a] = pos[a]] /\ clean
    BY <1>1, <1>3
  <2>2. CASE b = a
    BY <1>3, <2>1, <2>2 DEF HoldInv, Trades
  <2>3. CASE b # a
    <3>1. b \notin left /\ counted'[b] = counted[b]
      BY <1>1, <1>3, <2>1, <2>3 DEF HoldInv, Trades
    <3> QED
      BY <1>1, <1>3, <2>1, <3>1 DEF HoldInv
  <2> QED
    BY <2>2, <2>3
<1> QED
  BY <1>1, <1>2, <1>3 DEF HoldInv

\* Every step keeps it.
LEMMA HoldStep == ASSUME HoldInv, [Next]_vars PROVE HoldInv'
<1>1. CASE PollAccount
  <2>1. /\ pc = "poll" /\ pc' \in {"poll", "exposure"} /\ UNCHANGED <<pos, counted>>
        /\ stable' = pos \/ stable' = stable
    BY <1>1 DEF PollAccount, Onto, market
  <2> QED
    BY <2>1 DEF HoldInv
<1>2. CASE ReadExposure
  <2>1. /\ pc = "exposure" /\ UNCHANGED <<pos, stable, counted>>
        /\ pc' = "exposure" \/ (pc' = "positions" /\ left' = Accounts)
    BY <1>2 DEF ReadExposure, Read, Rest, Onto, market
  <2> QED
    BY <2>1 DEF HoldInv
<1>3. CASE ReadPositions
  BY <1>3, SecondPassKeepsHoldInv
<1>4. CASE Publish \/ ManagerRestart
  <2>1. /\ pc' = "poll" /\ counted' = AllEmpty /\ stable' = AllEmpty /\ UNCHANGED pos
    BY <1>4 DEF Publish, ManagerRestart, market
  <2> QED
    BY <2>1, NothingHeld DEF HoldInv
<1>5. CASE UNCHANGED <<pos, stable, counted, pc, left, clean>>
  BY <1>5 DEF HoldInv
<1>6. CASE \/ NextHour \/ \E a \in Readers : Receive(a) \/ ReaderRestart(a)
           \/ \E a \in Accounts : NavMoves(a)
  <2>1. UNCHANGED <<pos, stable, counted, pc, left, clean>>
    BY <1>6 DEF NextHour, Receive, ReaderRestart, NavMoves, market, reads
  <2> QED
    BY <2>1, <1>5
<1>7. CASE \E a \in Accounts, p \in Pairs : Close(a, p) \/ \E d \in Sides : Open(a, p, d)
  BY <1>7, TradingKeepsHoldInv
<1>8. CASE UNCHANGED vars
  BY <1>8, <1>5 DEF vars, market, reads
<1> QED
  BY <1>1, <1>2, <1>3, <1>4, <1>6, <1>7, <1>8 DEF Next, Round

\* Who has held a side of a pair all along is among those counted on it.
LEMMA HeldIsCounted ==
    ASSUME NEW held, NEW seen, NEW k \in Keys,
           \A a \in Accounts : held[a][k[1]] # 0 => held[a][k[1]] = seen[a][k[1]]
    PROVE  Count(seen, k[1], k[2]) >= Count(held, k[1], k[2])
<1> DEFINE H == {a \in Accounts : held[a][k[1]] = k[2]}
           C == {a \in Accounts : seen[a][k[1]] = k[2]}
<1>1. H \subseteq C
  <2>1. k[2] # 0
    BY DEF Keys, Sides
  <2> QED
    BY <2>1
<1>2. IsFiniteSet(C)
  BY FS_Subset, OverlayAssumption
<1>3. Cardinality(H) <= Cardinality(C) /\ Cardinality(H) \in Nat /\ Cardinality(C) \in Nat
  BY <1>1, <1>2, FS_Subset, FS_CardinalityType
<1> QED
  BY <1>3 DEF Count

\* A restart is counted, so that the step that publishes is not one.
LEMMA RestartsAreCounted == restarts \in Nat /\ [Next]_vars => restarts' \in Nat
<1> SUFFICES ASSUME restarts \in Nat, [Next]_vars PROVE restarts' \in Nat
  OBVIOUS
<1>1. CASE Round
  BY <1>1 DEF Round, PollAccount, ReadExposure, ReadPositions, Publish, bounds
<1>2. CASE ManagerRestart
  BY <1>2 DEF ManagerRestart
<1>3. CASE NextHour \/ \E a \in Readers : Receive(a) \/ ReaderRestart(a)
  BY <1>3 DEF NextHour, Receive, ReaderRestart, bounds
<1>4. CASE \E a \in Accounts : NavMoves(a)
  BY <1>4 DEF NavMoves
<1>5. CASE \E a \in Accounts, p \in Pairs : Close(a, p) \/ \E d \in Sides : Open(a, p, d)
  BY <1>5 DEF Close, Open
<1>6. CASE UNCHANGED vars
  BY <1>6 DEF vars, bounds
<1> QED
  BY <1>1, <1>2, <1>3, <1>4, <1>5, <1>6 DEF Next

\* Only the last step of a round ends one.
LEMMA RoundEnds == ASSUME restarts \in Nat, [Next]_vars, Publishes PROVE Publish
<1>1. pc = "publish" /\ pc' = "poll" /\ restarts' = restarts
  BY DEF Publishes
<1>2. CASE PollAccount \/ ReadExposure \/ ReadPositions
  BY <1>1, <1>2 DEF PollAccount, ReadExposure, ReadPositions
<1>3. CASE ManagerRestart
  BY <1>1, <1>3 DEF ManagerRestart
<1>4. CASE NextHour \/ \E a \in Readers : Receive(a) \/ ReaderRestart(a)
  BY <1>1, <1>4 DEF NextHour, Receive, ReaderRestart, reads
<1>5. CASE \E a \in Accounts : NavMoves(a)
  BY <1>1, <1>5 DEF NavMoves, reads
<1>6. CASE \E a \in Accounts, p \in Pairs : Close(a, p) \/ \E d \in Sides : Open(a, p, d)
  BY <1>1, <1>6 DEF Close, Open, reads
<1>7. CASE UNCHANGED vars
  BY <1>1, <1>7 DEF vars, reads
<1> QED
  BY <1>2, <1>3, <1>4, <1>5, <1>6, <1>7 DEF Next, Round

\* The step that publishes blocks whatever has been held since its round began.
LEMMA PublishBlocks ==
    ASSUME HoldInv, restarts \in Nat, [Next]_vars, Publishes, clean, NEW k \in Keys,
           Count(stable, k[1], k[2]) >= MaxConcentration
    PROVE  k \in bus'.crowded
<1>1. Publish
  BY RoundEnds
<1>2. pc = "publish" /\ bus'.crowded = Crowded(counted)
  BY <1>1 DEF Publish
<1>3. k[1] \in Pairs
  BY DEF Keys
<1>4. \A a \in Accounts : stable[a][k[1]] # 0 => stable[a][k[1]] = counted[a][k[1]]
  BY <1>2, <1>3 DEF HoldInv
<1>5. Count(counted, k[1], k[2]) >= Count(stable, k[1], k[2])
  BY <1>4, HeldIsCounted
<1>6. Count(counted, k[1], k[2]) \in Nat /\ Count(stable, k[1], k[2]) \in Nat
  BY FS_Subset, FS_CardinalityType, OverlayAssumption DEF Count
<1>7. Count(counted, k[1], k[2]) >= MaxConcentration
  BY <1>5, <1>6, OverlayAssumption
<1> QED
  BY <1>2, <1>7 DEF Crowded

\* However the reads of a round interleave with the trading of any number of accounts,
\* a side of a pair that enough of them hold throughout a round in which no read fails is
\* blocked by the overlay the round publishes.
THEOREM ConcentrationIsBlocked == Spec => HoldingsBlock
<1>1. Init => HoldInv /\ restarts \in Nat
  BY NothingHeld, OverlayAssumption DEF Init, HoldInv, Trades
<1>2. HoldInv /\ restarts \in Nat /\ [Next]_vars => (HoldInv /\ restarts \in Nat)'
  BY HoldStep, RestartsAreCounted
<1>3. HoldInv /\ restarts \in Nat /\ [Next]_vars =>
        [Publishes /\ clean =>
           \A k \in Keys : Count(stable, k[1], k[2]) >= MaxConcentration
                              => k \in bus'.crowded]_vars
  BY PublishBlocks
<1> QED
  BY <1>1, <1>2, <1>3, PTL DEF Spec, HoldingsBlock

-----------------------------------------------------------------------------
(* The blocks of exposed currencies.                                        *)

\* What a trade on side d of p adds to the exposure of c.
Effect(p, c, d) == d * (IF p.base = c THEN 1 ELSE IF p.quote = c THEN -1 ELSE 0)

\* A currency is over its cap when its share exceeds the cap by more than half a tenth of
\* a percent of the total, and then it is exposed at all.
LEMMA ExcessIsOverCap ==
    ASSUME NEW trades \in Trades, NEW c \in Currencies, NEW total \in Nat,
           20 * (100 * (Size(Exposure(trades, c)) * Notional) - CurrencyCap[c] * total) > total
    PROVE  OverCap(trades, c, total) /\ Exposure(trades, c) \in Int /\ Exposure(trades, c) # 0
<1> DEFINE e == Exposure(trades, c)
           a == Size(e) * Notional
           b == CurrencyCap[c] * total
<1>1. e \in Int
  <2>1. trades \in [Accounts -> [Pairs -> {-1, 0, 1}]]
    BY DEF Trades
  <2> QED
    BY <2>1, OverlayAssumption, ExposureInt
<1>2. CurrencyCap[c] \in Nat /\ Notional \in Nat
  BY OverlayAssumption
<1>3. a \in Int
  <2> HIDE DEF e
  <2>1. Size(e) \in Int
    BY <1>1 DEF Size
  <2> QED
    BY <1>2, <2>1
<1>4. b \in Nat /\ (20 * CurrencyCap[c] + 1) * total = 20 * b + total
  BY <1>2
<1>5. 20 * (100 * a - b) > total
  OBVIOUS
<1>6. OverCap(trades, c, total) <=> 2000 * a > (20 * CurrencyCap[c] + 1) * total
  BY DEF OverCap
<1>7. ASSUME e = 0 PROVE a = 0
  <2> HIDE DEF e
  <2> QED
    BY <1>2, <1>7 DEF Size
<1> HIDE DEF a, b, e
<1>8. OverCap(trades, c, total) /\ a # 0
  BY <1>3, <1>4, <1>5, <1>6
<1> QED
  BY <1>1, <1>7, <1>8 DEF e

\* The other side of a pair brings the exposure back towards zero, or no further beyond
\* it than it was.
LEMMA OtherSideReduces ==
    ASSUME NEW e \in Int, e # 0, NEW p, NEW c, c \in {p.base, p.quote},
           NEW d \in Sides, d # Adding(p, c, e)
    PROVE  (e + Effect(p, c, d)) * (e + Effect(p, c, d)) <= e * e
<1>1. \/ e > 0 /\ Effect(p, c, d) = -1
      \/ e < 0 /\ Effect(p, c, d) = 1
  BY DEF Sides, Adding, Effect
<1>2. CASE e > 0 /\ Effect(p, c, d) = -1
  <2>1. (e - 1) * (e - 1) = e * e - 2 * e + 1
    OBVIOUS
  <2>2. e * e \in Int /\ 2 * e >= 1
    BY <1>2
  <2>3. e + Effect(p, c, d) = e - 1
    BY <1>2
  <2> QED
    BY <2>1, <2>2, <2>3
<1>3. CASE e < 0 /\ Effect(p, c, d) = 1
  <2>1. (e + 1) * (e + 1) = e * e + 2 * e + 1
    OBVIOUS
  <2>2. e * e \in Int /\ 2 * e <= -1
    BY <1>3
  <2>3. e + Effect(p, c, d) = e + 1
    BY <1>3
  <2> QED
    BY <2>1, <2>2, <2>3
<1> QED
  BY <1>1, <1>2, <1>3

LEMMA PublishContains ==
    ASSUME TypeOK, [Next]_vars, Publishes,
           NEW k \in Keys \ (bus'.crowded \cup bus'.exposing), NEW c \in Currencies
    PROVE  LET total  == TotalNav(account_state)
               e      == Exposure(exposed, c)
               after  == e + k[2] * (IF k[1].base = c THEN 1
                                     ELSE IF k[1].quote = c THEN -1 ELSE 0)
               excess == 100 * (Size(e) * Notional) - CurrencyCap[c] * total
           IN  20 * excess > total => after * after <= e * e
<1> DEFINE total == TotalNav(account_state)
           e     == Exposure(exposed, c)
           p     == k[1]
           d     == k[2]
<1> SUFFICES ASSUME 20 * (100 * (Size(e) * Notional) - CurrencyCap[c] * total) > total
             PROVE  (e + Effect(p, c, d)) * (e + Effect(p, c, d)) <= e * e
  BY DEF Effect
<1>1. restarts \in Nat /\ exposed \in Trades /\ total \in Nat
  BY TotalNavOfPolled, OverlayAssumption DEF TypeOK
<1>2. Publish
  BY <1>1, RoundEnds
<1>3. bus'.crowded = Crowded(counted) /\ bus'.exposing = Exposing(exposed, total) \ Crowded(counted)
  BY <1>2 DEF Publish
<1>4. k = <<p, d>> /\ p \in Pairs /\ d \in Sides /\ k \notin Exposing(exposed, total)
  BY <1>3 DEF Keys
<1>5. e \in Int /\ e # 0 /\ OverCap(exposed, c, total)
  BY <1>1, ExcessIsOverCap
<1>6. c \in {p.base, p.quote} => d # Adding(p, c, e)
  <2> SUFFICES ASSUME c \in {p.base, p.quote}, d = Adding(p, c, e) PROVE FALSE
    OBVIOUS
  <2> DEFINE pc2 == <<p, c>>
  <2>1. pc2 \in {q \in Pairs \X Currencies : /\ q[2] \in {q[1].base, q[1].quote}
                                             /\ OverCap(exposed, q[2], total)}
    BY <1>4, <1>5
  <2>2. <<p, Adding(p, c, e)>> \in Exposing(exposed, total)
    BY <2>1 DEF Exposing
  <2> QED
    BY <1>4, <2>2
<1> HIDE DEF e, total, p, d
<1>7. (e + Effect(p, c, d)) * (e + Effect(p, c, d)) <= e * e
  <2>1. CASE c \in {p.base, p.quote}
    BY <1>4, <1>5, <1>6, <2>1, OtherSideReduces
  <2>2. CASE c \notin {p.base, p.quote}
    <3>1. Effect(p, c, d) = 0
      BY <1>4, <2>2 DEF Effect, Sides
    <3>2. e + Effect(p, c, d) = e /\ e * e \in Int
      BY <1>5, <3>1
    <3> QED
      BY <3>2
  <2> QED
    BY <2>1, <2>2
<1> QED
  BY <1>7

\* Whatever the accounts hold and however the reads of a round turn out, a side that the
\* published overlay leaves open takes no currency further out whose share of the total NAV
\* is above its cap by more than the half tenth of a percent that the rounding hides.
THEOREM ExposureIsContained == Spec => ExposureContained
<1>1. TypeOK /\ [Next]_vars =>
        [Publishes =>
           \A k \in Keys \ (bus'.crowded \cup bus'.exposing), c \in Currencies :
              LET total  == TotalNav(account_state)
                  e      == Exposure(exposed, c)
                  after  == e + k[2] * (IF k[1].base = c THEN 1
                                        ELSE IF k[1].quote = c THEN -1 ELSE 0)
                  excess == 100 * (Size(e) * Notional) - CurrencyCap[c] * total
              IN  20 * excess > total => after * after <= e * e]_vars
  BY PublishContains
<1> QED
  BY <1>1, OverlayTypeCorrect, PTL DEF Spec, ExposureContained
=============================================================================
