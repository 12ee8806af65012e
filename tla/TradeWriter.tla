----------------------------- MODULE TradeWriter -----------------------------
(***************************************************************************)
(* lib/db.py: trade records on their way from a strategy container to the  *)
(* trades table.  TradeDBSender puts a record into a ZMQ PUSH socket, ZMQ  *)
(* moves it to the PULL socket in portfolio_mgr, and TradeDBWriter's       *)
(* thread takes it from there and inserts it, once.                        *)
(* A record is whatever the strategy sends, with its trade_id.  The table  *)
(* is shared: the containers of other accounts write their rows into it,   *)
(* and a trade id of OANDA is unique in its own account only.              *)
(***************************************************************************)
EXTENDS Naturals, Sequences, SequencesExt

CONSTANTS
    Hwm,          (* SNDHWM and RCVHWM: records a socket holds (1000 in the code) *)
    OtherIds,     (* trade ids the rows of other accounts may have                *)
    Locked        (* whether another writer of the file may hold its lock         *)

ASSUME WriterAssumption == Hwm \in Nat \ {0} /\ Locked \in BOOLEAN

VARIABLES
    out,          (* the sender's socket                                    *)
    inbox,        (* the writer's socket                                    *)
    rows,         (* the trades table: the rows of this process             *)
    foreign,      (* the trade ids of the rows of other accounts            *)
    lost          (* history: trade ids of records that never became a row  *)

writerVars == <<out, inbox, rows, foreign, lost>>

Ids(records) == {r.trade_id : r \in records}

\* Every record that was sent and is not lost.
Records == ToSet(out) \cup ToSet(inbox) \cup rows

CanAlwaysSend == TRUE               \* mutant: no high-water mark

\* send_trade blocks while the socket is full.
CanSend == Len(out) < Hwm

Sent(record) == out' = Append(out, record) /\ UNCHANGED <<inbox, rows, foreign, lost>>

\* ZMQ moves a record between the containers, in order.
Deliver ==
    /\ out # <<>> /\ Len(inbox) < Hwm
    /\ inbox' = Append(inbox, Head(out))
    /\ out' = Tail(out)
    /\ UNCHANGED <<rows, foreign, lost>>

InsertPerPair(record) ==            \* mutant: dedup on the pair, not on the trade
    IF \E r \in rows : r.pair = record.pair THEN rows ELSE rows \cup {record}

\* INSERT ... WHERE NOT EXISTS the trade_id, whosever row has it.
Insert(record) ==
    IF record.trade_id \in Ids(rows) \cup foreign THEN rows ELSE rows \cup {record}

\* One round of the thread: receive, insert; there is no second attempt.
WriteTrade ==
    /\ inbox # <<>>
    /\ inbox' = Tail(inbox)
    /\ \/ rows' = Insert(Head(inbox)) /\ UNCHANGED lost
       \/ Locked /\ lost' = lost \cup {Head(inbox).trade_id} /\ UNCHANGED rows
    /\ UNCHANGED <<out, foreign>>

\* Another account's container gets a row into the table.
OthersWrite ==
    /\ \E id \in OtherIds \ (foreign \cup Ids(rows)) : foreign' = foreign \cup {id}
    /\ UNCHANGED <<out, inbox, rows, lost>>

\* portfolio_mgr restarts: the socket is bound anew and what it held is gone.
WriterRestart ==
    /\ inbox' = <<>>
    /\ lost' = lost \cup Ids(ToSet(inbox))
    /\ UNCHANGED <<out, rows, foreign>>

\* The strategy's process ends: its socket may be flushed in time (LINGER), or not.
SenderGone(lostToo) ==
    /\ \/ UNCHANGED out /\ lost' = lost \cup lostToo
       \/ out # <<>> /\ out' = <<>> /\ lost' = lost \cup lostToo \cup Ids(ToSet(out))
    /\ UNCHANGED <<inbox, rows, foreign>>

WriterInit == out = <<>> /\ inbox = <<>> /\ rows = {} /\ foreign = {} /\ lost = {}
=============================================================================
