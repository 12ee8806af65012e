----------------------------- MODULE StackSignal -----------------------------
(***************************************************************************)
(* The entry signal of strategy_sma_stack_live: process_s5_bar aggregates   *)
(* the S5 stream of a pair into two timeframes, on_tf_bar_emit turns the    *)
(* stack alignment of each timeframe into a novelty, and an entry needs the *)
(* same novelty on both.  Alignment itself (three SMAs, their order and     *)
(* slopes over the last closes) is data: each completed bar is aligned      *)
(* long (1), short (-1) or not at all (0).                                  *)
(***************************************************************************)
EXTENDS Integers, Sequences, FiniteSetsExt

CONSTANTS
    N1, N2,    (* S5 bars per TF1 and TF2 bar: cfg.n1, cfg.n2             *)
    Need,      (* completed bars on_tf_bar_emit waits for                 *)
    Prices     (* the prices a bar is made of                             *)

ASSUME TimeframeAssumption ==
    /\ N1 \in Nat \ {0} /\ N2 \in Nat \ {0} /\ Need \in Nat
    /\ N2 % N1 = 0
    /\ Prices \subseteq Nat

VARIABLES
    tf1, tf2,      (* TFState of the two timeframes                         *)
    fired,         (* new_dir computed by the last call (0: no entry)       *)
    recent,        (* history: the S5 bars since TF2 last emitted           *)
    seen1, seen2   (* history: alignment of the last two bars of each TF    *)

vars == <<tf1, tf2, fired, recent, seen1, seen2>>

Aligned == {-1, 0, 1}
NoPx == -1

S5 == {b \in [open : Prices, high : Prices, low : Prices, close : Prices] :
         b.low <= b.open /\ b.low <= b.close /\ b.open <= b.high /\ b.close <= b.high}

Empty == [open |-> NoPx, high |-> NoPx, low |-> NoPx, close |-> NoPx]

TFBar == [open : Prices \cup {NoPx}, high : Prices \cup {NoPx},
          low : Prices \cup {NoPx}, close : Prices \cup {NoPx}]

TFState == [in_progress : TFBar,
            s5_count : Nat, history : 0..Need, was_aligned : Aligned, novelty : Aligned]

-----------------------------------------------------------------------------
\* TFBar.update
Update(bar, b) ==
    IF bar.open = NoPx THEN b
    ELSE [open  |-> bar.open,
          high  |-> IF b.high > bar.high THEN b.high ELSE bar.high,
          low   |-> IF b.low < bar.low THEN b.low ELSE bar.low,
          close |-> b.close]

\* check_stack_alignment finds nothing in too short a history.
Alignment(tf, a) == IF tf.history < Need THEN 0 ELSE a

\* on_tf_bar_emit, for a timeframe whose last bar has alignment a: too short a
\* history clears the novelty and leaves was_aligned alone.
OnTfBarEmit(tf, a) ==
    IF tf.history < Need THEN [tf EXCEPT !.novelty = 0]
    ELSE [tf EXCEPT !.novelty = IF a # tf.was_aligned THEN a ELSE 0, !.was_aligned = a]

AddBar(tf, b) ==
    [tf EXCEPT !.in_progress = Update(@, b), !.s5_count = @ + 1]

EmitsLate(tf, k) == tf.s5_count >= k                            \* mutant

Emits(tf, k) == tf.s5_count + 1 >= k

CompletedUncapped(tf) ==                                        \* mutant
    [tf EXCEPT !.in_progress = Empty, !.s5_count = 0, !.history = @ + 1]

CompletedKeepingBar(tf) ==                                      \* mutant
    [tf EXCEPT !.s5_count = 0, !.history = IF @ < Need THEN @ + 1 ELSE @]

\* The bar is complete: its close joins the history, the aggregate starts over.
Completed(tf) ==
    [tf EXCEPT !.in_progress = Empty, !.s5_count = 0,
               !.history = IF @ < Need THEN @ + 1 ELSE @]

Aggregate(tf, k, b, a) ==
    IF Emits(tf, k) THEN OnTfBarEmit(Completed(AddBar(tf, b)), a) ELSE AddBar(tf, b)

\* The joint novelty an entry needs.
JointNovelty(t1, t2) ==
    IF t1.novelty = t2.novelty THEN t1.novelty ELSE 0

NewDirLatched(emitted, t1, t2) == JointNovelty(t1, t2)          \* mutant

\* The direction of the entry: only a call that completed a bar may fire.
NewDir(emitted, t1, t2) == IF emitted THEN JointNovelty(t1, t2) ELSE 0

-----------------------------------------------------------------------------
\* process_s5_bar on bar b; a1 and a2 are the alignments of the bars it completes.
ProcessS5Bar(b, a1, a2) ==
    /\ tf1' = Aggregate(tf1, N1, b, a1)
    /\ tf2' = Aggregate(tf2, N2, b, a2)
    /\ fired' = NewDir(Emits(tf1, N1) \/ Emits(tf2, N2), tf1', tf2')
    /\ recent' = IF Emits(tf2, N2) THEN <<>> ELSE Append(recent, b)
    /\ seen1' = IF Emits(tf1, N1) THEN <<seen1[2], Alignment(tf1', a1)>> ELSE seen1
    /\ seen2' = IF Emits(tf2, N2) THEN <<seen2[2], Alignment(tf2', a2)>> ELSE seen2

\* warmup of one timeframe: seeded from native candles, the last of which has
\* alignment a, or left empty because the fetch failed.
Fresh == [in_progress |-> Empty, s5_count |-> 0, history |-> 0,
          was_aligned |-> 0, novelty |-> 0]

Warmed(a) == OnTfBarEmit([Fresh EXCEPT !.history = Need], a)

Uncleared(tf) == tf                                             \* mutant

\* main clears the novelty warmup left: an alignment formed before is not new.
Cleared(tf) == [tf EXCEPT !.novelty = 0]

Restart ==
    /\ \/ tf1' = Cleared(Fresh) /\ tf2' = Cleared(Fresh) /\ seen1' = <<0, 0>> /\ seen2' = <<0, 0>>
       \/ \E a1, a2 \in Aligned :
            /\ tf1' = Cleared(Warmed(a1)) /\ tf2' = Cleared(Warmed(a2))
            /\ seen1' = <<a1, a1>> /\ seen2' = <<a2, a2>>
    /\ fired' = 0
    /\ recent' = <<>>

\* The service starts as it restarts; nothing has been seen before.
Init ==
    /\ tf1 = Cleared(Fresh) /\ tf2 = Cleared(Fresh)
    /\ seen1 = <<0, 0>> /\ seen2 = <<0, 0>>
    /\ fired = 0 /\ recent = <<>>

Next ==
    \/ \E b \in S5, a1, a2 \in Aligned : ProcessS5Bar(b, a1, a2)
    \/ Restart

Spec == Init /\ [][Next]_vars

-----------------------------------------------------------------------------
(* Properties.                                                              *)

TypeOK ==
    /\ tf1 \in TFState /\ tf2 \in TFState
    /\ fired \in Aligned
    /\ recent \in Seq(S5)
    /\ seen1 \in Aligned \X Aligned /\ seen2 \in Aligned \X Aligned

\* The header of main.py: an entry fires only when BOTH timeframes are aligned
\* its way AND neither was on its previous bar, restarts included.
FreshOnBoth ==
    fired # 0 =>
        /\ seen1[2] = fired /\ seen1[1] # fired
        /\ seen2[2] = fired /\ seen2[1] # fired

\* The two counters never drift apart, so a TF2 bar ends only where a TF1 bar ends.
Lockstep ==
    /\ tf1.s5_count \in 0..(N1 - 1) /\ tf2.s5_count \in 0..(N2 - 1)
    /\ tf1.s5_count = tf2.s5_count % N1

\* A TF1 alignment is used for at most one entry: every signal comes at the end of
\* a TF1 bar, never again while the same novelty is still latched.
FiresAtBarEnd == fired # 0 => tf1.s5_count = 0

\* Reference: the bar a block of S5 bars makes (bin_resample).
BarOf(s) ==
    [open  |-> s[1].open,
     high  |-> Max({s[k].high : k \in DOMAIN s}),
     low   |-> Min({s[k].low : k \in DOMAIN s}),
     close |-> s[Len(s)].close]

\* Each in-progress bar is the aggregate of exactly the bars counted into it.
InProgressIsAggregate ==
    \A tf \in {tf1, tf2} :
        LET k == tf.s5_count
        IN  IF k = 0 THEN tf.in_progress = Empty
                     ELSE tf.in_progress = BarOf(SubSeq(recent, Len(recent) - k + 1, Len(recent)))
=============================================================================
