----------------------------- MODULE MCFifoDesk -----------------------------
(* An instance of FifoDesk for TLC: boxes of two price steps, boxes 0 to 3. *)
EXTENDS FifoDesk

FourPrices == {1, 2, 3, 4}
LowTwo     == {2}    \* the boundary at 2 is rounded into box 0, the one at 6 is not
AllFaults  == {"db", "close", "nofill", "order", "read", "late"}
=============================================================================
