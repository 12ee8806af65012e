-------------------------- MODULE StackSignalProofs --------------------------
(* The entry signal of StackSignal, for every n1 that divides n2.           *)
EXTENDS StackSignal, SequenceTheorems, TLAPS

\* The flags of a timeframe remember what its last two bars (seen) were.
Remembers(tf, seen) ==
    /\ tf.was_aligned = seen[2]
    /\ tf.novelty # 0 => tf.novelty = seen[2] /\ seen[1] # seen[2]
    /\ tf.history < Need => tf.was_aligned = 0

SInv ==
    /\ TypeOK /\ Remembers(tf1, seen1) /\ Remembers(tf2, seen2)
    /\ FreshOnBoth

-----------------------------------------------------------------------------
\* TFBar.update yields a bar.
LEMMA UpdateType ==
    ASSUME NEW tf \in TFState, NEW b \in S5
    PROVE  Update(tf.in_progress, b) \in TFBar
BY DEF Update, S5, TFState, TFBar

\* Adding an S5 bar touches the aggregate and the counter only.
LEMMA AddBarFacts ==
    ASSUME NEW tf \in TFState, NEW b \in S5
    PROVE  /\ AddBar(tf, b) \in TFState
           /\ AddBar(tf, b).s5_count = tf.s5_count + 1
           /\ AddBar(tf, b).history = tf.history
           /\ AddBar(tf, b).was_aligned = tf.was_aligned
           /\ AddBar(tf, b).novelty = tf.novelty
<1> DEFINE bar == Update(tf.in_progress, b)
<1>1. bar \in TFBar
  BY UpdateType
<1> DEFINE more == tf.s5_count + 1
<1>2. AddBar(tf, b) = [tf EXCEPT !.in_progress = bar, !.s5_count = more]
  BY DEF AddBar
<1>3. more \in Nat
  BY DEF TFState
<1> HIDE DEF bar, more
<1>4. AddBar(tf, b) \in TFState /\ AddBar(tf, b).s5_count = more
  BY <1>1, <1>2, <1>3 DEF TFState
<1>5. /\ AddBar(tf, b).history = tf.history /\ AddBar(tf, b).was_aligned = tf.was_aligned
      /\ AddBar(tf, b).novelty = tf.novelty
  BY <1>2 DEF TFState
<1> QED
  BY <1>4, <1>5 DEF more

\* Completing a bar resets the counter and keeps the alignment.
LEMMA CompletedFacts ==
    ASSUME NEW tf \in TFState
    PROVE  /\ Completed(tf) \in TFState
           /\ Completed(tf).s5_count = 0
           /\ Completed(tf).was_aligned = tf.was_aligned
           /\ Completed(tf).history < Need => tf.history < Need
<1> DEFINE more == IF tf.history < Need THEN tf.history + 1 ELSE tf.history
<1>1. more \in 0..Need /\ (more < Need => tf.history < Need)
  BY TimeframeAssumption DEF TFState
<1>2. Completed(tf) = [tf EXCEPT !.in_progress = Empty, !.s5_count = 0, !.history = more]
  BY DEF Completed
<1>3. Empty \in TFBar
  BY DEF Empty, TFBar
<1> HIDE DEF more
<1>4. Completed(tf) \in TFState
  <2> DEFINE range == 0..Need
             zero == 0
             bar == Empty
  <2>1. TFState = [in_progress : TFBar, s5_count : Nat, history : range,
                   was_aligned : Aligned, novelty : Aligned]
    BY DEF TFState
  <2>2. more \in range /\ zero \in Nat /\ bar \in TFBar
    BY <1>1, <1>3
  <2>3. Completed(tf) = [tf EXCEPT !.in_progress = bar, !.s5_count = zero, !.history = more]
    BY <1>2
  <2> HIDE DEF range, zero, bar
  <2> QED
    BY <2>1, <2>2, <2>3
<1>5. /\ Completed(tf).s5_count = 0 /\ Completed(tf).was_aligned = tf.was_aligned
      /\ Completed(tf).history = more
  BY <1>2 DEF TFState
<1> QED
  BY <1>1, <1>4, <1>5

\* What on_tf_bar_emit makes of the alignment of the completed bar.
LEMMA EmitFacts ==
    ASSUME NEW tf \in TFState, NEW a \in Aligned
    PROVE  /\ OnTfBarEmit(tf, a) \in TFState
           /\ OnTfBarEmit(tf, a).s5_count = tf.s5_count
           /\ OnTfBarEmit(tf, a).history = tf.history
           /\ tf.history < Need => /\ OnTfBarEmit(tf, a).novelty = 0
                                   /\ OnTfBarEmit(tf, a).was_aligned = tf.was_aligned
           /\ ~(tf.history < Need) =>
                /\ OnTfBarEmit(tf, a).was_aligned = a
                /\ OnTfBarEmit(tf, a).novelty = IF a # tf.was_aligned THEN a ELSE 0
<1>1. CASE tf.history < Need
  <2>1. OnTfBarEmit(tf, a) = [tf EXCEPT !.novelty = 0]
    BY <1>1 DEF OnTfBarEmit
  <2> QED
    BY <1>1, <2>1 DEF TFState, Aligned
<1>2. CASE ~(tf.history < Need)
  <2> DEFINE nov == IF a # tf.was_aligned THEN a ELSE 0
  <2>1. OnTfBarEmit(tf, a) = [tf EXCEPT !.novelty = nov, !.was_aligned = a]
    BY <1>2 DEF OnTfBarEmit
  <2>2. nov \in Aligned
    BY DEF Aligned
  <2> HIDE DEF nov
  <2>3. /\ OnTfBarEmit(tf, a) \in TFState /\ OnTfBarEmit(tf, a).s5_count = tf.s5_count
        /\ OnTfBarEmit(tf, a).history = tf.history /\ OnTfBarEmit(tf, a).was_aligned = a
        /\ OnTfBarEmit(tf, a).novelty = nov
    BY <2>1, <2>2 DEF TFState
  <2> QED
    BY <1>2, <2>3 DEF nov
<1> QED
  BY <1>1, <1>2

\* What one S5 bar does to a timeframe and to the memory of its alignments.
LEMMA AggregateFacts ==
    ASSUME NEW tf \in TFState, NEW k \in Nat \ {0}, NEW b \in S5, NEW a \in Aligned,
           NEW seen \in Aligned \X Aligned, Remembers(tf, seen)
    PROVE  LET t == Aggregate(tf, k, b, a)
               s == IF Emits(tf, k) THEN <<seen[2], Alignment(t, a)>> ELSE seen
           IN  /\ t \in TFState /\ s \in Aligned \X Aligned /\ Remembers(t, s)
               /\ t.s5_count = IF Emits(tf, k) THEN 0 ELSE tf.s5_count + 1
<1>1. CASE ~Emits(tf, k)
  <2>1. Aggregate(tf, k, b, a) = AddBar(tf, b)
    BY <1>1 DEF Aggregate
  <2> QED
    BY <1>1, <2>1, AddBarFacts DEF Remembers
<1>2. CASE Emits(tf, k)
  <2> DEFINE c == Completed(AddBar(tf, b))
             t == OnTfBarEmit(c, a)
  <2>1. Aggregate(tf, k, b, a) = t
    BY <1>2 DEF Aggregate
  <2>2. /\ c \in TFState /\ c.s5_count = 0 /\ c.was_aligned = tf.was_aligned
        /\ c.history < Need => tf.history < Need
    BY AddBarFacts, CompletedFacts
  <2> HIDE DEF c
  <2>3. /\ t \in TFState /\ t.s5_count = 0 /\ t.history = c.history
        /\ c.history < Need => t.novelty = 0 /\ t.was_aligned = c.was_aligned
        /\ ~(c.history < Need) =>
             t.was_aligned = a /\ t.novelty = IF a # c.was_aligned THEN a ELSE 0
    BY <2>2, EmitFacts
  <2> HIDE DEF t
  <2>4. Alignment(t, a) = IF c.history < Need THEN 0 ELSE a
    BY <2>3 DEF Alignment
  <2>5. tf.was_aligned = seen[2] /\ (c.history < Need => seen[2] = 0)
    BY <2>2 DEF Remembers
  <2> DEFINE s == <<seen[2], Alignment(t, a)>>
  <2>6. s \in Aligned \X Aligned /\ s[1] = seen[2] /\ s[2] = Alignment(t, a)
    BY <2>4 DEF Aligned
  <2> HIDE DEF s
  <2>7. Remembers(t, s)
    BY <2>2, <2>3, <2>4, <2>5, <2>6 DEF Remembers
  <2> QED
    BY <1>2, <2>1, <2>3, <2>6, <2>7 DEF s
<1> QED
  BY <1>1, <1>2
\* A warmed timeframe remembers its alignment, and its novelty is cleared.
LEMMA WarmedFacts ==
    ASSUME NEW a \in Aligned
    PROVE  /\ Fresh \in TFState /\ Remembers(Cleared(Fresh), <<0, 0>>)
           /\ Cleared(Fresh) \in TFState /\ Cleared(Fresh).s5_count = 0
           /\ Cleared(Warmed(a)) \in TFState /\ Cleared(Warmed(a)).s5_count = 0
           /\ Remembers(Cleared(Warmed(a)), <<a, a>>)
<1>1. Empty \in TFBar
  BY DEF Empty, TFBar
<1>2. Fresh \in TFState /\ Fresh.s5_count = 0 /\ Fresh.was_aligned = 0
  BY <1>1, TimeframeAssumption DEF Fresh, TFState, Aligned
<1>3. ASSUME NEW tf \in TFState
      PROVE  /\ Cleared(tf) \in TFState /\ Cleared(tf).s5_count = tf.s5_count
             /\ Cleared(tf).novelty = 0 /\ Cleared(tf).was_aligned = tf.was_aligned
             /\ Cleared(tf).history = tf.history
  BY DEF Cleared, TFState, Aligned
<1>4. Remembers(Cleared(Fresh), <<0, 0>>)
  BY <1>2, <1>3 DEF Remembers
<1> DEFINE f == [Fresh EXCEPT !.history = Need]
<1>5. f \in TFState /\ f.s5_count = 0 /\ f.history = Need
  BY <1>2, TimeframeAssumption DEF TFState
<1>6. Warmed(a) = OnTfBarEmit(f, a)
  BY DEF Warmed
<1> HIDE DEF f
<1>7. ~(f.history < Need)
  BY <1>5, TimeframeAssumption
<1>8. /\ Warmed(a) \in TFState /\ Warmed(a).s5_count = 0 /\ Warmed(a).was_aligned = a
      /\ Warmed(a).history = Need
  BY <1>5, <1>6, <1>7, EmitFacts
<1>9. /\ Cleared(Warmed(a)).novelty = 0 /\ Cleared(Warmed(a)).was_aligned = a
      /\ Cleared(Warmed(a)).history = Need
  BY <1>3, <1>8
<1>10. Remembers(Cleared(Warmed(a)), <<a, a>>)
  BY <1>9, TimeframeAssumption DEF Remembers
<1> QED
  BY <1>2, <1>3, <1>4, <1>8, <1>10

\* The invariant holds initially.
LEMMA InitSInv == Init => SInv
<1> SUFFICES ASSUME Init PROVE SInv
  OBVIOUS
<1>1. 0 \in Aligned
  BY DEF Aligned
<1>2. /\ tf1 \in TFState /\ tf2 \in TFState /\ seen1 = <<0, 0>> /\ seen2 = <<0, 0>>
      /\ Remembers(tf1, seen1) /\ Remembers(tf2, seen2) /\ fired = 0 /\ recent = <<>>
  BY <1>1, WarmedFacts DEF Init
<1>3. recent \in Seq(S5)
  BY <1>2, EmptySeq
<1> QED
  BY <1>1, <1>2, <1>3 DEF SInv, TypeOK, FreshOnBoth

\* Every S5 bar and every restart keep the invariant.
LEMMA StepSInv == SInv /\ [Next]_vars => SInv'
<1> SUFFICES ASSUME SInv, [Next]_vars PROVE SInv'
  OBVIOUS
<1>a. /\ tf1 \in TFState /\ tf2 \in TFState /\ fired \in Aligned /\ recent \in Seq(S5)
      /\ seen1 \in Aligned \X Aligned /\ seen2 \in Aligned \X Aligned
      /\ Remembers(tf1, seen1) /\ Remembers(tf2, seen2)
      /\ N1 \in Nat \ {0} /\ N2 \in Nat \ {0}
  BY TimeframeAssumption DEF SInv, TypeOK
<1>1. ASSUME NEW b \in S5, NEW a1 \in Aligned, NEW a2 \in Aligned, ProcessS5Bar(b, a1, a2)
      PROVE  SInv'
  <2>1. tf1' \in TFState /\ seen1' \in Aligned \X Aligned /\ Remembers(tf1', seen1')
    BY <1>a, <1>1, AggregateFacts DEF ProcessS5Bar
  <2>2. tf2' \in TFState /\ seen2' \in Aligned \X Aligned /\ Remembers(tf2', seen2')
    BY <1>a, <1>1, AggregateFacts DEF ProcessS5Bar
  <2>3. fired' # 0 => fired' = tf1'.novelty /\ fired' = tf2'.novelty
    BY <1>1 DEF ProcessS5Bar, NewDir, JointNovelty
  <2>4. fired' \in Aligned
    BY <2>1, <2>3 DEF TFState, Aligned
  <2>5. recent' \in Seq(S5)
    <3>1. recent' = <<>> \/ recent' = Append(recent, b)
      BY <1>1 DEF ProcessS5Bar
    <3>2. <<>> \in Seq(S5) /\ Append(recent, b) \in Seq(S5)
      BY <1>a, EmptySeq, AppendProperties
    <3> QED
      BY <3>1, <3>2
  <2>6. FreshOnBoth'
    BY <2>1, <2>2, <2>3 DEF FreshOnBoth, Remembers
  <2> QED
    BY <2>1, <2>2, <2>4, <2>5, <2>6 DEF SInv, TypeOK
<1>2. CASE Restart
  <2>1. fired' = 0 /\ recent' = <<>>
    BY <1>2 DEF Restart
  <2>2. CASE /\ tf1' = Cleared(Fresh) /\ tf2' = Cleared(Fresh)
             /\ seen1' = <<0, 0>> /\ seen2' = <<0, 0>>
    <3>1. 0 \in Aligned
      BY DEF Aligned
    <3>2. /\ tf1' \in TFState /\ tf2' \in TFState
          /\ Remembers(tf1', seen1') /\ Remembers(tf2', seen2')
      BY <2>2, <3>1, WarmedFacts
    <3> QED
      BY <2>1, <2>2, <3>1, <3>2, EmptySeq DEF SInv, TypeOK, FreshOnBoth
  <2>3. CASE \E a1, a2 \in Aligned :
               /\ tf1' = Cleared(Warmed(a1)) /\ tf2' = Cleared(Warmed(a2))
               /\ seen1' = <<a1, a1>> /\ seen2' = <<a2, a2>>
    <3>1. PICK a1 \in Aligned, a2 \in Aligned :
               /\ tf1' = Cleared(Warmed(a1)) /\ tf2' = Cleared(Warmed(a2))
               /\ seen1' = <<a1, a1>> /\ seen2' = <<a2, a2>>
      BY <2>3
    <3>2. /\ tf1' \in TFState /\ tf2' \in TFState
          /\ Remembers(tf1', seen1') /\ Remembers(tf2', seen2')
      BY <3>1, WarmedFacts
    <3>3. 0 \in Aligned
      BY DEF Aligned
    <3> QED
      BY <2>1, <3>1, <3>2, <3>3, EmptySeq DEF SInv, TypeOK, FreshOnBoth
  <2> QED
    BY <1>2, <2>2, <2>3 DEF Restart
<1>3. CASE UNCHANGED vars
  BY <1>3, <1>a DEF vars, SInv, TypeOK, Remembers, FreshOnBoth
<1> QED
  BY <1>1, <1>2, <1>3 DEF Next

\* An entry fires only on an alignment that is new on both timeframes, whatever
\* the lengths of the bars and the prices, and never on one a restart found.
THEOREM EntriesAreFresh == Spec => []FreshOnBoth
<1>1. SInv => FreshOnBoth
  BY DEF SInv
<1> QED
  BY InitSInv, StepSInv, <1>1, PTL DEF Spec

\* Every reachable state is well typed, whatever the lengths of the bars and the prices.
THEOREM SignalTypeCorrect == Spec => []TypeOK
<1>1. SInv => TypeOK
  BY DEF SInv
<1> QED
  BY InitSInv, StepSInv, <1>1, PTL DEF Spec

-----------------------------------------------------------------------------
(* The counters of the two timeframes.                                      *)

\* Quotient and remainder are unique.
LEMMA ModUnique ==
    ASSUME NEW N \in Nat \ {0}, NEW c \in Int, NEW x \in Int, NEW r \in 0..(N - 1),
           c = N * x + r
    PROVE  c % N = r
<1> DEFINE y == c \div N
           s == c % N
<1>1. s \in 0..(N - 1) /\ y \in Int /\ c = N * y + s
  OBVIOUS
<1> HIDE DEF y, s
<1>2. \A u, v \in Int : u >= v + 1 => N * u >= N * v + N
  <2>1. \A u, v \in Int : N * (u - v - 1) = N * u - N * v - N
    OBVIOUS
  <2>2. \A w \in Nat : N * w >= 0
    OBVIOUS
  <2> QED
    BY <2>1, <2>2
<1>3. CASE x >= y + 1
  <2>1. N * x >= N * y + N /\ N * x \in Int /\ N * y \in Int
    BY <1>1, <1>2, <1>3
  <2> QED
    BY <1>1, <2>1
<1>4. CASE y >= x + 1
  <2>1. N * y >= N * x + N /\ N * x \in Int /\ N * y \in Int
    BY <1>1, <1>2, <1>4
  <2> QED
    BY <1>1, <2>1
<1>5. CASE x = y
  BY <1>1, <1>5 DEF s
<1> QED
  BY <1>1, <1>3, <1>4, <1>5

\* Counting one up, modulo N.
LEMMA ModSuccessor ==
    ASSUME NEW c \in Nat, NEW N \in Nat \ {0}
    PROVE  (c + 1) % N = IF c % N = N - 1 THEN 0 ELSE (c % N) + 1
<1> DEFINE y == c \div N
           s == c % N
<1>1. s \in 0..(N - 1) /\ y \in Int /\ c = N * y + s
  OBVIOUS
<1> HIDE DEF y, s
<1>2. CASE s = N - 1
  <2>1. c + 1 = N * (y + 1) + 0 /\ 0 \in 0..(N - 1)
    BY <1>1, <1>2
  <2>2. (c + 1) % N = 0
    BY <1>1, <2>1, ModUnique
  <2> QED
    BY <1>2, <2>2 DEF s
<1>3. CASE s # N - 1
  <2>1. c + 1 = N * y + (s + 1) /\ s + 1 \in 0..(N - 1)
    BY <1>1, <1>3
  <2>2. (c + 1) % N = s + 1
    BY <1>1, <2>1, ModUnique
  <2> QED
    BY <1>3, <2>2 DEF s
<1> QED
  BY <1>2, <1>3

\* The inductive invariant: SInv with the two counters in step.
LInv == SInv /\ Lockstep /\ FiresAtBarEnd

\* Zero is a multiple of N1.
LEMMA ZeroMod == 0 % N1 = 0
<1>1. N1 \in Nat \ {0} /\ 0 \in 0..(N1 - 1) /\ 0 = N1 * 0 + 0
  BY TimeframeAssumption
<1> QED
  BY <1>1, ModUnique

\* The S5 counter alone: it wraps exactly where a bar is emitted.
LEMMA AggregateCount ==
    ASSUME NEW tf \in TFState, NEW k, NEW b, NEW a
    PROVE  Aggregate(tf, k, b, a).s5_count = IF Emits(tf, k) THEN 0 ELSE tf.s5_count + 1
<1>1. AddBar(tf, b).s5_count = tf.s5_count + 1
  BY DEF AddBar, TFState
<1>2. CASE ~Emits(tf, k)
  BY <1>1, <1>2 DEF Aggregate
<1>3. CASE Emits(tf, k)
  <2> DEFINE c == Completed(AddBar(tf, b))
  <2>1. c.s5_count = 0 /\ c = [c EXCEPT !.s5_count = 0]
    BY DEF Completed, AddBar, TFState
  <2>2. OnTfBarEmit(c, a).s5_count = c.s5_count
    BY DEF OnTfBarEmit, Completed, AddBar, TFState
  <2>3. Aggregate(tf, k, b, a) = OnTfBarEmit(c, a)
    BY <1>3 DEF Aggregate
  <2> QED
    BY <1>3, <2>1, <2>2, <2>3
<1> QED
  BY <1>2, <1>3

\* A TF2 bar ends only where a TF1 bar ends, and both counters move in step.
LEMMA LockstepBar ==
    ASSUME SInv, Lockstep, NEW b \in S5, NEW a1 \in Aligned, NEW a2 \in Aligned,
           ProcessS5Bar(b, a1, a2)
    PROVE  Lockstep' /\ FiresAtBarEnd'
<1> DEFINE s1 == tf1.s5_count
           s2 == tf2.s5_count
<1>a. /\ N1 \in Nat \ {0} /\ N2 \in Nat \ {0} /\ N2 % N1 = 0
      /\ s1 \in 0..(N1 - 1) /\ s2 \in 0..(N2 - 1) /\ s1 = s2 % N1
  BY TimeframeAssumption DEF Lockstep
<1>1. /\ tf1'.s5_count = IF Emits(tf1, N1) THEN 0 ELSE s1 + 1
      /\ tf2'.s5_count = IF Emits(tf2, N2) THEN 0 ELSE s2 + 1
  <2>1. tf1 \in TFState /\ tf2 \in TFState
    BY DEF SInv, TypeOK
  <2>2. tf1' = Aggregate(tf1, N1, b, a1) /\ tf2' = Aggregate(tf2, N2, b, a2)
    BY DEF ProcessS5Bar
  <2>3. Aggregate(tf1, N1, b, a1).s5_count = IF Emits(tf1, N1) THEN 0 ELSE tf1.s5_count + 1
    BY <2>1, AggregateCount
  <2>4. Aggregate(tf2, N2, b, a2).s5_count = IF Emits(tf2, N2) THEN 0 ELSE tf2.s5_count + 1
    BY <2>1, AggregateCount
  <2> QED
    BY <2>2, <2>3, <2>4
<1>2. (Emits(tf1, N1) <=> s1 + 1 >= N1) /\ (Emits(tf2, N2) <=> s2 + 1 >= N2)
  BY DEF Emits
<1>3. fired' # 0 => Emits(tf1, N1) \/ Emits(tf2, N2)
  BY DEF ProcessS5Bar, NewDir
<1> HIDE DEF s1, s2
<1>4. (s2 + 1) % N1 = IF s1 = N1 - 1 THEN 0 ELSE s1 + 1
  <2>1. s2 \in Nat
    BY <1>a
  <2> QED
    BY <1>a, <2>1, ModSuccessor
<1>5. Emits(tf2, N2) => Emits(tf1, N1)
  <2>1. CASE Emits(tf2, N2)
    <3>1. s2 + 1 = N2
      BY <1>a, <1>2, <2>1
    <3>2. (s2 + 1) % N1 = 0
      BY <1>a, <3>1
    <3> QED
      BY <1>a, <1>2, <1>4, <3>2
  <2> QED
    BY <2>1
<1>6. tf1'.s5_count = tf2'.s5_count % N1
  <2>1. CASE Emits(tf2, N2)
    BY <1>1, <1>5, <2>1, ZeroMod
  <2>2. CASE ~Emits(tf2, N2)
    <3>1. tf2'.s5_count = s2 + 1
      BY <1>1, <2>2
    <3>2. tf1'.s5_count = IF s1 = N1 - 1 THEN 0 ELSE s1 + 1
      BY <1>a, <1>1, <1>2
    <3> QED
      BY <1>4, <3>1, <3>2
  <2> QED
    BY <2>1, <2>2
<1>7. tf1'.s5_count \in 0..(N1 - 1) /\ tf2'.s5_count \in 0..(N2 - 1)
  BY <1>a, <1>1, <1>2
<1>8. fired' # 0 => tf1'.s5_count = 0
  BY <1>1, <1>3, <1>5
<1> QED
  BY <1>6, <1>7, <1>8 DEF Lockstep, FiresAtBarEnd

\* The counters start at zero together.
LEMMA InitLInv == Init => LInv
<1> SUFFICES ASSUME Init PROVE LInv
  OBVIOUS
<1>1. tf1.s5_count = 0 /\ tf2.s5_count = 0 /\ fired = 0
  <2>1. 0 \in Aligned
    BY DEF Aligned
  <2> QED
    BY <2>1, WarmedFacts DEF Init
<1> QED
  BY <1>1, InitSInv, ZeroMod, TimeframeAssumption DEF LInv, Lockstep, FiresAtBarEnd

\* Every S5 bar and every restart keeps them in step.
LEMMA StepLInv == LInv /\ [Next]_vars => LInv'
<1> SUFFICES ASSUME LInv, [Next]_vars PROVE LInv'
  OBVIOUS
<1>0. SInv'
  BY StepSInv DEF LInv
<1>1. CASE \E b \in S5, a1, a2 \in Aligned : ProcessS5Bar(b, a1, a2)
  BY <1>0, <1>1, LockstepBar DEF LInv
<1>2. CASE Restart
  <2>1. tf1'.s5_count = 0 /\ tf2'.s5_count = 0 /\ fired' = 0
    <3>1. 0 \in Aligned
      BY DEF Aligned
    <3> QED
      BY <1>2, <3>1, WarmedFacts DEF Restart
  <2> QED
    BY <1>0, <2>1, ZeroMod, TimeframeAssumption DEF LInv, Lockstep, FiresAtBarEnd
<1>3. CASE UNCHANGED vars
  BY <1>0, <1>3 DEF LInv, Lockstep, FiresAtBarEnd, vars
<1> QED
  BY <1>1, <1>2, <1>3 DEF Next

\* The two timeframes never drift apart, for every n1 that divides n2.
THEOREM TimeframesInLockstep == Spec => [](Lockstep /\ FiresAtBarEnd)
<1>1. LInv => Lockstep /\ FiresAtBarEnd
  BY DEF LInv
<1> QED
  BY InitLInv, StepLInv, <1>1, PTL DEF Spec

\* Every entry comes at the end of a bar of the shorter timeframe, so that one
\* alignment of it is used once, for every n1 that divides n2.
COROLLARY EntriesAtBarEnd == Spec => []FiresAtBarEnd
BY TimeframesInLockstep, PTL

-----------------------------------------------------------------------------
(* The in-progress bars.  Max and Min of a set are what a CHOOSE makes of    *)
(* it, so the invariant says of a bar's high that it is one of the highs and *)
(* bounds them; that there is only one such number comes last.               *)

\* The bar aggregates the last k entries of r.
Aggregates(bar, r, k) ==
    LET last == Len(r) - k + 1 .. Len(r)
    IN  /\ bar \in TFBar
        /\ bar.open = r[Len(r) - k + 1].open /\ bar.close = r[Len(r)].close
        /\ \E i \in last : bar.high = r[i].high
        /\ \E i \in last : bar.low = r[i].low
        /\ \A i \in last : r[i].low >= bar.low /\ bar.high >= r[i].high

\* The bar of a timeframe is that of the bars it has counted.
Holds(tf, r) ==
    IF tf.s5_count = 0 THEN tf.in_progress = Empty
                       ELSE tf.s5_count <= Len(r) /\ Aggregates(tf.in_progress, r, tf.s5_count)

AInv == LInv /\ Len(recent) = tf2.s5_count /\ Holds(tf1, recent) /\ Holds(tf2, recent)

\* What a call does to the bar in progress.
LEMMA AggregateBar ==
    ASSUME NEW tf \in TFState, NEW k, NEW b, NEW a
    PROVE  Aggregate(tf, k, b, a).in_progress =
             IF Emits(tf, k) THEN Empty ELSE Update(tf.in_progress, b)
<1>1. CASE ~Emits(tf, k)
  BY <1>1 DEF Aggregate, AddBar, TFState
<1>2. CASE Emits(tf, k)
  <2> DEFINE c == Completed(AddBar(tf, b))
  <2>1. c.in_progress = Empty
    BY DEF Completed, AddBar, TFState
  <2>2. OnTfBarEmit(c, a).in_progress = c.in_progress
    BY DEF OnTfBarEmit, Completed, AddBar, TFState
  <2>3. Aggregate(tf, k, b, a) = OnTfBarEmit(c, a)
    BY <1>2 DEF Aggregate
  <2> QED
    BY <1>2, <2>1, <2>2, <2>3
<1> QED
  BY <1>1, <1>2

\* The first S5 bar of a block is its bar.
LEMMA FirstAggregates ==
    ASSUME NEW r \in Seq(S5), NEW b \in S5
    PROVE  Aggregates(Update(Empty, b), Append(r, b), 1)
<1>1. Update(Empty, b) = b
  BY DEF Update, Empty
<1>2. Len(Append(r, b)) = Len(r) + 1 /\ Append(r, b)[Len(r) + 1] = b /\ Len(r) \in Nat
  BY AppendProperties, LenProperties
<1>3. b \in TFBar /\ b.high \in Int /\ b.low \in Int
  <2>1. b \in [open : Prices, high : Prices, low : Prices, close : Prices]
    BY DEF S5
  <2>2. b \in TFBar
    BY <2>1 DEF TFBar
  <2>3. b.high \in Prices /\ b.low \in Prices
    BY <2>1
  <2>4. Prices \subseteq Nat
    BY TimeframeAssumption
  <2>5. b.high \in Nat /\ b.low \in Nat
    BY <2>3, <2>4
  <2> QED
    BY <2>2, <2>5
<1> QED
  BY <1>1, <1>2, <1>3 DEF Aggregates

\* Each further one extends it.
LEMMA UpdateAggregates ==
    ASSUME NEW r \in Seq(S5), NEW b \in S5, NEW k \in Nat \ {0}, k <= Len(r),
           NEW tf \in TFState, Aggregates(tf.in_progress, r, k)
    PROVE  Aggregates(Update(tf.in_progress, b), Append(r, b), k + 1)
<1> DEFINE n == Len(r)
           q == Append(r, b)
           bar == tf.in_progress
           new == Update(bar, b)
<1>1. /\ n \in Nat /\ Len(q) = n + 1 /\ q[n + 1] = b
      /\ \A i \in 1..n : q[i] = r[i] /\ r[i] \in S5
  BY AppendProperties, LenProperties, ElementOfSeq
<1>2. \A s \in S5 : s.open \in Nat /\ s.high \in Nat /\ s.low \in Nat
  BY TimeframeAssumption DEF S5
<1>3. /\ bar.open = r[n - k + 1].open
      /\ \E i \in n - k + 1 .. n : bar.high = r[i].high
      /\ \E i \in n - k + 1 .. n : bar.low = r[i].low
      /\ \A i \in n - k + 1 .. n : r[i].low >= bar.low /\ bar.high >= r[i].high
  BY DEF Aggregates
<1>4. new \in TFBar
  BY UpdateType
<1> HIDE DEF n, q, bar
<1>5. n - k + 1 \in 1..n /\ n - k + 1 .. n \subseteq 1..n
  BY <1>1 DEF n
<1>6. bar.open # NoPx /\ bar.high \in Nat /\ bar.low \in Nat
  BY <1>1, <1>2, <1>3, <1>5 DEF NoPx
<1>7. new = [open  |-> bar.open,
             high  |-> IF b.high > bar.high THEN b.high ELSE bar.high,
             low   |-> IF b.low < bar.low THEN b.low ELSE bar.low,
             close |-> b.close]
  BY <1>6 DEF Update
<1> HIDE DEF new
<1>8. n + 1 - (k + 1) + 1 = n - k + 1
  BY <1>1
<1>9. new.open = q[n - k + 1].open /\ new.close = q[n + 1].close
  BY <1>1, <1>3, <1>5, <1>7
<1>10. \E i \in n - k + 1 .. n + 1 : new.high = q[i].high
  <2>1. CASE b.high > bar.high
    BY <1>1, <1>5, <1>7, <2>1
  <2>2. CASE ~(b.high > bar.high)
    <3>1. PICK i \in n - k + 1 .. n : bar.high = r[i].high
      BY <1>3
    <3> QED
      BY <1>1, <1>5, <1>7, <2>2, <3>1
  <2> QED
    BY <2>1, <2>2
<1>11. \E i \in n - k + 1 .. n + 1 : new.low = q[i].low
  <2>1. CASE b.low < bar.low
    BY <1>1, <1>5, <1>7, <2>1
  <2>2. CASE ~(b.low < bar.low)
    <3>1. PICK i \in n - k + 1 .. n : bar.low = r[i].low
      BY <1>3
    <3> QED
      BY <1>1, <1>5, <1>7, <2>2, <3>1
  <2> QED
    BY <2>1, <2>2
<1>12. ASSUME NEW i \in n - k + 1 .. n + 1
       PROVE  q[i].low >= new.low /\ new.high >= q[i].high
  <2>1. new.high >= bar.high /\ new.high >= b.high /\ bar.low >= new.low /\ b.low >= new.low
        /\ new.high \in Nat /\ new.low \in Nat
    BY <1>2, <1>6, <1>7
  <2>2. CASE i = n + 1
    BY <1>1, <2>1, <2>2
  <2>3. CASE i # n + 1
    <3>1. i \in n - k + 1 .. n /\ i \in 1..n
      BY <1>1, <1>5, <2>3
    <3>2. r[i].low >= bar.low /\ bar.high >= r[i].high /\ q[i] = r[i]
          /\ r[i].low \in Nat /\ r[i].high \in Nat
      BY <1>1, <1>2, <1>3, <3>1
    <3> QED
      BY <1>6, <2>1, <3>2
  <2> QED
    BY <2>2, <2>3
<1>13. Aggregates(new, q, k + 1)
  <2> DEFINE first == n - k + 1
  <2>1. Len(q) = n + 1 /\ Len(q) - (k + 1) + 1 = first
    BY <1>1, <1>8
  <2>2. /\ new.open = q[first].open /\ new.close = q[n + 1].close
        /\ \E i \in first .. n + 1 : new.high = q[i].high
        /\ \E i \in first .. n + 1 : new.low = q[i].low
        /\ \A i \in first .. n + 1 : q[i].low >= new.low /\ new.high >= q[i].high
    BY <1>9, <1>10, <1>11, <1>12
  <2> HIDE DEF first
  <2> QED
    BY <1>4, <2>1, <2>2 DEF Aggregates
<1> QED
  BY <1>13 DEF bar, q, new

\* So a timeframe whose bar goes on holds its bars with one more, and one whose bar
\* is complete, or that restarts, holds none.
LEMMA HoldsNext ==
    ASSUME NEW r \in Seq(S5), NEW b \in S5, NEW tf \in TFState, NEW k, NEW a,
           Holds(tf, r)
    PROVE  /\ Emits(tf, k) => Holds(Aggregate(tf, k, b, a), <<>>)
           /\ Holds(Aggregate(tf, k, b, a), Append(r, b))
<1> DEFINE t == Aggregate(tf, k, b, a)
           n == tf.s5_count
<1>1. /\ t.s5_count = IF Emits(tf, k) THEN 0 ELSE n + 1
      /\ t.in_progress = IF Emits(tf, k) THEN Empty ELSE Update(tf.in_progress, b)
  BY AggregateCount, AggregateBar
<1>2. n \in Nat
  BY DEF TFState
<1>3. Len(Append(r, b)) = Len(r) + 1 /\ Len(r) \in Nat
  BY AppendProperties, LenProperties
<1> HIDE DEF t
<1>4. CASE Emits(tf, k)
  BY <1>1, <1>4 DEF Holds, t
<1>5. CASE ~Emits(tf, k)
  <2>1. t.s5_count = n + 1 /\ n + 1 # 0 /\ t.in_progress = Update(tf.in_progress, b)
    BY <1>1, <1>2, <1>5
  <2>2. n + 1 <= Len(Append(r, b)) /\ Aggregates(t.in_progress, Append(r, b), n + 1)
    <3>1. CASE n = 0
      <4>1. tf.in_progress = Empty
        BY <3>1 DEF Holds
      <4>2. Aggregates(Update(Empty, b), Append(r, b), 1)
        BY FirstAggregates
      <4>3. n + 1 = 1
        BY <3>1
      <4> HIDE DEF n
      <4> QED
        BY <1>3, <2>1, <4>1, <4>2, <4>3
    <3>2. CASE n # 0
      <4>1. n \in Nat \ {0} /\ n <= Len(r) /\ Aggregates(tf.in_progress, r, n)
        BY <1>2, <3>2 DEF Holds
      <4>2. Aggregates(Update(tf.in_progress, b), Append(r, b), n + 1)
        BY <4>1, UpdateAggregates
      <4> QED
        BY <1>3, <2>1, <4>1, <4>2
    <3> QED
      BY <3>1, <3>2
  <2> QED
    BY <1>5, <2>1, <2>2 DEF Holds, t
<1> QED
  BY <1>4, <1>5 DEF t

\* The invariant holds initially.
LEMMA InitAInv == Init => AInv
<1> SUFFICES ASSUME Init PROVE AInv
  OBVIOUS
<1>1. /\ tf1 = Cleared(Fresh) /\ tf2 = Cleared(Fresh) /\ recent = <<>>
  BY DEF Init
<1>2. Cleared(Fresh).s5_count = 0 /\ Cleared(Fresh).in_progress = Empty
  BY DEF Cleared, Fresh
<1> QED
  BY <1>1, <1>2, InitLInv DEF AInv, Holds

\* Every S5 bar keeps it: a TF2 bar that ends is the end of a TF1 bar too.
LEMMA BarKeepsAInv ==
    ASSUME AInv, LInv', NEW b \in S5, NEW a1 \in Aligned, NEW a2 \in Aligned,
           ProcessS5Bar(b, a1, a2)
    PROVE  AInv'
<1>1. tf1 \in TFState /\ tf2 \in TFState /\ recent \in Seq(S5)
  BY DEF AInv, LInv, SInv, TypeOK
<1>2. /\ tf1' = Aggregate(tf1, N1, b, a1) /\ tf2' = Aggregate(tf2, N2, b, a2)
      /\ recent' = IF Emits(tf2, N2) THEN <<>> ELSE Append(recent, b)
  BY DEF ProcessS5Bar
<1>3. Holds(tf1, recent) /\ Holds(tf2, recent)
  BY DEF AInv
<1>4. CASE ~Emits(tf2, N2)
  <2>1. recent' = Append(recent, b) /\ tf2'.s5_count = tf2.s5_count + 1
    BY <1>1, <1>2, <1>4, AggregateCount
  <2>2. Len(recent') = tf2'.s5_count
    BY <1>1, <2>1, AppendProperties DEF AInv
  <2>3. Holds(tf1', recent')
    BY <1>1, <1>2, <1>3, <2>1, HoldsNext
  <2>4. Holds(tf2', recent')
    BY <1>1, <1>2, <1>3, <2>1, HoldsNext
  <2> QED
    BY <2>2, <2>3, <2>4 DEF AInv
<1>5. CASE Emits(tf2, N2)
  <2>1. recent' = <<>> /\ tf2'.s5_count = 0
    BY <1>1, <1>2, <1>5, AggregateCount
  <2>2. tf1'.s5_count = 0
    BY <2>1, ZeroMod DEF LInv, Lockstep
  <2>3. tf2'.in_progress = Empty
    BY <1>1, <1>2, <1>5, AggregateBar
  <2>4. tf1'.in_progress = Empty
    <3>1. CASE Emits(tf1, N1)
      BY <1>1, <1>2, <3>1, AggregateBar
    <3>2. CASE ~Emits(tf1, N1)
      <4>1. tf1'.s5_count = tf1.s5_count + 1 /\ tf1.s5_count \in Nat
        BY <1>1, <1>2, <3>2, AggregateCount DEF TFState
      <4> QED
        BY <2>2, <4>1
    <3> QED
      BY <3>1, <3>2
  <2> QED
    BY <2>1, <2>2, <2>3, <2>4 DEF AInv, Holds
<1> QED
  BY <1>4, <1>5

\* Every step keeps it.
LEMMA StepAInv == AInv /\ [Next]_vars => AInv'
<1> SUFFICES ASSUME AInv, [Next]_vars PROVE AInv'
  OBVIOUS
<1>0. LInv'
  BY StepLInv DEF AInv
<1>1. CASE \E b \in S5, a1, a2 \in Aligned : ProcessS5Bar(b, a1, a2)
  BY <1>0, <1>1, BarKeepsAInv
<1>2. CASE Restart
  <2>1. ASSUME NEW a \in Aligned
        PROVE  /\ Cleared(Fresh).s5_count = 0 /\ Cleared(Fresh).in_progress = Empty
               /\ Cleared(Warmed(a)).s5_count = 0 /\ Cleared(Warmed(a)).in_progress = Empty
    BY DEF Cleared, Warmed, Fresh, OnTfBarEmit
  <2>2. recent' = <<>> /\ Len(<<>>) = 0
    BY <1>2 DEF Restart
  <2>3. /\ tf1'.s5_count = 0 /\ tf1'.in_progress = Empty
        /\ tf2'.s5_count = 0 /\ tf2'.in_progress = Empty
    <3>1. 0 \in Aligned
      BY DEF Aligned
    <3> QED
      BY <1>2, <2>1, <3>1 DEF Restart
  <2> QED
    BY <1>0, <2>2, <2>3 DEF AInv, Holds
<1>3. CASE UNCHANGED vars
  BY <1>0, <1>3 DEF AInv, Holds, vars
<1> QED
  BY <1>1, <1>2, <1>3 DEF Next

\* There is one greatest element, and one least.
LEMMA OneExtreme ==
    ASSUME NEW S \in SUBSET Nat, NEW m \in S
    PROVE  /\ (\A x \in S : m >= x) => Max(S) = m
           /\ (\A x \in S : x >= m) => Min(S) = m
<1>1. ASSUME \A x \in S : m >= x PROVE Max(S) = m
  <2>1. \A x, y \in S : x >= y /\ y >= x => x = y
    OBVIOUS
  <2> QED
    BY <1>1, <2>1 DEF Max
<1>2. ASSUME \A x \in S : x >= m PROVE Min(S) = m
  <2>1. \A x, y \in S : x >= y /\ y >= x => x = y
    OBVIOUS
  <2>2. \A x \in S : m <= x
    BY <1>2
  <2> QED
    BY <2>1, <2>2 DEF Min
<1> QED
  BY <1>1, <1>2

\* What aggregates a block is what bin_resample makes of it.
LEMMA AggregateIsBarOf ==
    ASSUME NEW r \in Seq(S5), NEW k \in Nat \ {0}, k <= Len(r),
           NEW bar, Aggregates(bar, r, k)
    PROVE  bar = BarOf(SubSeq(r, Len(r) - k + 1, Len(r)))
<1> DEFINE n == Len(r)
           s == SubSeq(r, n - k + 1, n)
           last == n - k + 1 .. n
<1>1. n \in Nat /\ \A i \in 1..n : r[i] \in S5
  BY LenProperties, ElementOfSeq
<1> HIDE DEF n
<1>2. Len(s) = k /\ \A j \in 1..k : s[j] = r[n - k + j]
  BY <1>1 DEF n
<1>3. DOMAIN s = 1..k
  BY <1>1, <1>2 DEF n
<1>4. last \subseteq 1..n /\ \A i \in last : i - (n - k) \in 1..k /\ r[i] = s[i - (n - k)]
  BY <1>1, <1>2 DEF n
<1>5. \A j \in 1..k : n - k + j \in last
  BY <1>1 DEF n
<1> HIDE DEF s, last
<1>6. \A i \in last : r[i].high \in Nat /\ r[i].low \in Nat
  <2>1. \A b \in S5 : b.high \in Prices /\ b.low \in Prices
    BY DEF S5
  <2>2. Prices \subseteq Nat
    BY TimeframeAssumption
  <2> QED
    BY <1>1, <1>4, <2>1, <2>2
<1> DEFINE highs == {s[j].high : j \in DOMAIN s}
           lows  == {s[j].low : j \in DOMAIN s}
<1>7. /\ \A i \in last : r[i].high \in highs /\ r[i].low \in lows
      /\ \A x \in highs : \E i \in last : x = r[i].high
      /\ \A x \in lows : \E i \in last : x = r[i].low
  <2>1. ASSUME NEW i \in last PROVE r[i].high \in highs /\ r[i].low \in lows
    BY <1>3, <1>4
  <2>2. ASSUME NEW x \in highs PROVE \E i \in last : x = r[i].high
    <3>1. PICK j \in 1..k : x = s[j].high
      BY <1>3
    <3>2. s[j] = r[n - k + j] /\ n - k + j \in last
      BY <1>2, <1>5
    <3> QED
      BY <3>1, <3>2
  <2>3. ASSUME NEW x \in lows PROVE \E i \in last : x = r[i].low
    <3>1. PICK j \in 1..k : x = s[j].low
      BY <1>3
    <3>2. s[j] = r[n - k + j] /\ n - k + j \in last
      BY <1>2, <1>5
    <3> QED
      BY <3>1, <3>2
  <2> QED
    BY <2>1, <2>2, <2>3
<1>8. /\ bar \in TFBar /\ bar.open = r[n - k + 1].open /\ bar.close = r[n].close
      /\ \E i \in last : bar.high = r[i].high
      /\ \E i \in last : bar.low = r[i].low
      /\ \A i \in last : r[i].low >= bar.low /\ bar.high >= r[i].high
  BY DEF Aggregates, n, last
<1>9. Max(highs) = bar.high
  <2>1. highs \in SUBSET Nat /\ bar.high \in highs /\ \A x \in highs : bar.high >= x
    BY <1>6, <1>7, <1>8
  <2> HIDE DEF highs
  <2> QED
    BY <2>1, OneExtreme
<1>10. Min(lows) = bar.low
  <2>1. lows \in SUBSET Nat /\ bar.low \in lows /\ \A x \in lows : x >= bar.low
    BY <1>6, <1>7, <1>8
  <2> HIDE DEF lows
  <2> QED
    BY <2>1, OneExtreme
<1>11. s[1].open = bar.open /\ s[Len(s)].close = bar.close
  BY <1>1, <1>2, <1>8
<1>12. bar = [open |-> bar.open, high |-> bar.high, low |-> bar.low, close |-> bar.close]
  BY <1>8 DEF TFBar
<1>13. BarOf(s) = [open |-> bar.open, high |-> bar.high, low |-> bar.low, close |-> bar.close]
  BY <1>9, <1>10, <1>11 DEF BarOf
<1> QED
  BY <1>12, <1>13 DEF s, n

\* Each in-progress bar is the aggregate of exactly the S5 bars counted into it since
\* its timeframe last emitted, for every length of the bars and all prices.
THEOREM BarsAreAggregates == Spec => []InProgressIsAggregate
<1>1. AInv => InProgressIsAggregate
  <2> SUFFICES ASSUME AInv, NEW tf \in {tf1, tf2}
               PROVE  LET k == tf.s5_count
                      IN  IF k = 0 THEN tf.in_progress = Empty
                          ELSE tf.in_progress =
                                 BarOf(SubSeq(recent, Len(recent) - k + 1, Len(recent)))
    BY DEF InProgressIsAggregate
  <2>1. recent \in Seq(S5) /\ tf.s5_count \in Nat /\ Holds(tf, recent)
    BY DEF AInv, LInv, SInv, TypeOK, TFState
  <2> QED
    BY <2>1, AggregateIsBarOf DEF Holds
<1> QED
  BY InitAInv, StepAInv, <1>1, PTL DEF Spec
=============================================================================
