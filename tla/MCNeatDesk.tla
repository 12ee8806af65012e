----------------------------- MODULE MCNeatDesk -----------------------------
(* An instance of NeatDesk for TLC.                                        *)
EXTENDS NeatDesk

AllFaults == {"close", "order", "read", "details", "trail"}
=============================================================================
