---------------------------- MODULE MCStackSignal ----------------------------
(* Two prices, TF2 of two TF1 bars of two S5 bars.                          *)
EXTENDS StackSignal

TwoPrices == 0..1
=============================================================================
