------------------------------ MODULE TradeBook ------------------------------
(***************************************************************************)
(* What a live strategy promises about the trades table of lib/db, with no *)
(* word of polling, retries or crashes: a trade opens, later closes for    *)
(* good, and only then may it be booked, once and for ever.                *)
(***************************************************************************)
EXTENDS FiniteSets

CONSTANT Id     (* the ids the broker may give to a trade *)

VARIABLES open, closed, booked

vars == <<open, closed, booked>>

Init == open = {} /\ closed = {} /\ booked = {}

\* Trades the broker closes in one transaction.
Close(gone) ==
    /\ gone \subseteq open
    /\ gone # {}
    /\ open' = open \ gone
    /\ closed' = closed \cup gone
    /\ UNCHANGED booked

\* The broker opens a trade it never opened before; the order that opens it may
\* have closed others.
Open(t, gone) ==
    /\ gone \subseteq open
    /\ t \in Id \ (open \cup closed)
    /\ open' = (open \ gone) \cup {t}
    /\ closed' = closed \cup gone
    /\ UNCHANGED booked

\* A trade that has closed gets its row.
Book(t) ==
    /\ t \in closed \ booked
    /\ booked' = booked \cup {t}
    /\ UNCHANGED <<open, closed>>

Next ==
    \/ \E gone \in SUBSET Id : Close(gone) \/ (\E t \in Id : Open(t, gone))
    \/ \E t \in Id : Book(t)

Spec == Init /\ [][Next]_vars
=============================================================================
