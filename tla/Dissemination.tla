---------------------------- MODULE Dissemination ----------------------------
(***************************************************************************)
(* The disseminator (packages/daemons/disseminator.go), the goroutines of  *)
(* packages/network/tcpclient/disseminator.go and what the servers answer. *)
(*                                                                         *)
(* The daemon holds the database mutex from the reading of what is unsent  *)
(* to the marking.  It marks everything sent unless all hosts failed.      *)
(***************************************************************************)
EXTENDS Integers, FiniteSets

CONSTANTS
  Hosts,      \* the remote hosts
  Dead,       \* hosts that nobody can connect to
  Txs,        \* transactions
  MaxAsk,     \* hashes in a response of max_tx_size
  MaxInfo     \* bound on the blocks

VARIABLES
  isFullNode,
  pool,       \* the table transactions: "none", "unsent" or "sent"
  info,       \* info_block: its block and the field sent
  sending,    \* the daemon is in SendFullBlockToAll or SendTransacitionsToAll
  block, trs, \* what it sends: a block or 0, transactions
  hosts,      \* to whom
  con,        \* the goroutine of a host: "none", "asked", "done" or "error"
  want,       \* the hashes in the response of a host
  have,       \* the transactions in the tables of a host
  told,       \* the blocks in queue_blocks of a host
  body,       \* the transactions on their way to saveNewTransactions
  lost,       \* history: those that a host asked for and that did not arrive
  alone,      \* history: marked while no host was there
  crashed     \* the process has stopped once

disVars == <<isFullNode, pool, info, sending, block, trs, hosts, con, want, have, told, body, lost, alone, crashed>>

Unsent == {t \in Txs : pool[t] = "unsent"}

Init ==
  /\ isFullNode \in BOOLEAN
  /\ pool = [t \in Txs |-> "none"] /\ info = [id |-> 1, sent |-> 0]
  /\ sending = FALSE /\ block = 0 /\ trs = {} /\ hosts = {}
  /\ con = [h \in Hosts |-> "none"] /\ want = [h \in Hosts |-> {}]
  /\ have = [h \in Hosts |-> {}] /\ told = [h \in Hosts |-> {}] /\ body = [h \in Hosts |-> {}]
  /\ lost = {} /\ alone = FALSE /\ crashed = FALSE

-----------------------------------------------------------------------------
\* BlockGetUnsent: 0 is nil.
BlockGetUnsent == IF info.sent = 0 THEN info.id ELSE 0

Disseminator(banned) ==
  /\ ~sending
  /\ block' = IF isFullNode THEN BlockGetUnsent ELSE 0
  /\ trs' = Unsent
  /\ block' # 0 \/ trs' # {}
  /\ hosts' = Hosts \ banned
  /\ sending' = TRUE
  /\ UNCHANGED <<isFullNode, pool, info, con, want, have, told, body, lost, alone, crashed>>

\* No connection, more than 20 of them at the host, a paused host, or a broken
\* connection: for the client an error.
Refuse(h) ==
  /\ sending /\ h \in hosts /\ con[h] \in {"none", "asked"}
  /\ con' = [con EXCEPT ![h] = "error"] /\ want' = [want EXCEPT ![h] = {}]
  /\ UNCHANGED <<isFullNode, pool, info, sending, block, trs, hosts, have, told, body, lost, alone, crashed>>

\* Type1 of the host.  The sender gives its position and GetNode looks for a
\* key, so the ban of the sender is not seen.
Type1(h) ==
  /\ sending /\ isFullNode /\ h \in hosts \ Dead /\ con[h] = "none"
  /\ con' = [con EXCEPT ![h] = "asked"]
  /\ told' = IF block = 0 THEN told ELSE [told EXCEPT ![h] = @ \cup {block}]
  /\ want' = [want EXCEPT ![h] = trs \ have[h]]
  /\ UNCHANGED <<isFullNode, pool, info, sending, block, trs, hosts, have, body, lost, alone, crashed>>

\* The rest of the goroutine.  A response over max_tx_size is no error, and is
\* not answered.
SendBodies(h) ==
  /\ sending /\ con[h] = "asked"
  /\ con' = [con EXCEPT ![h] = "done"] /\ want' = [want EXCEPT ![h] = {}]
  /\ IF Cardinality(want[h]) > MaxAsk
     THEN lost' = lost \cup want[h] /\ UNCHANGED body
     ELSE body' = [body EXCEPT ![h] = @ \cup want[h]] /\ UNCHANGED lost
  /\ UNCHANGED <<isFullNode, pool, info, sending, block, trs, hosts, have, told, alone, crashed>>

\* One INSERT for all: a transaction that came by another route in the meantime
\* makes it fail.
SaveNewTransactions(h) ==
  /\ body[h] # {}
  /\ body' = [body EXCEPT ![h] = {}]
  /\ IF body[h] \cap have[h] = {}
     THEN have' = [have EXCEPT ![h] = @ \cup body[h]] /\ UNCHANGED lost
     ELSE lost' = lost \cup body[h] /\ UNCHANGED have
  /\ UNCHANGED <<isFullNode, pool, info, sending, block, trs, hosts, con, want, told, alone, crashed>>

\* The packet of a node that is not full: plain transactions one after another,
\* where Type2 expects one encrypted one.  Nobody reads an answer.
Type2(h) ==
  /\ sending /\ ~isFullNode /\ h \in hosts \ Dead /\ con[h] = "none"
  /\ con' = [con EXCEPT ![h] = "done"]
  /\ lost' = lost \cup trs
  /\ UNCHANGED <<isFullNode, pool, info, sending, block, trs, hosts, want, have, told, body, alone, crashed>>

\* A slip: nobody looks at errCount.
NobodyCounts == FALSE

\* ErrNodesUnavailable
AllFailed == hosts # {} /\ \A h \in hosts : con[h] = "error"

MarkSent ==
  /\ sending /\ \A h \in hosts : con[h] \in {"done", "error"}
  /\ sending' = FALSE
  /\ IF AllFailed
     THEN UNCHANGED <<pool, info, alone>>
     ELSE /\ pool' = [t \in Txs |-> IF t \in trs THEN "sent" ELSE pool[t]]
          /\ info' = IF block = 0 THEN info ELSE [info EXCEPT !.sent = 1]
          /\ alone' = (alone \/ hosts = {})
  /\ block' = 0 /\ trs' = {} /\ hosts' = {} /\ con' = [h \in Hosts |-> "none"]
  /\ UNCHANGED <<isFullNode, want, have, told, body, lost, crashed>>

-----------------------------------------------------------------------------
\* Others that hold the mutex: a verified transaction, a block.  The update of
\* info_block leaves out a field that is zero, and so Sent.
NewTx(t) ==
  /\ ~sending /\ pool[t] = "none" /\ pool' = [pool EXCEPT ![t] = "unsent"]
  /\ UNCHANGED <<isFullNode, info, sending, block, trs, hosts, con, want, have, told, body, lost, alone, crashed>>

UpdBlockInfo ==
  /\ ~sending /\ info.id < MaxInfo /\ info' = [info EXCEPT !.id = @ + 1]
  /\ UNCHANGED <<isFullNode, pool, sending, block, trs, hosts, con, want, have, told, body, lost, alone, crashed>>

\* Another node is faster.
OtherRoute(h, t) ==
  /\ h \notin Dead /\ t \notin have[h] /\ pool[t] # "none" /\ have' = [have EXCEPT ![h] = @ \cup {t}]
  /\ UNCHANGED <<isFullNode, pool, info, sending, block, trs, hosts, con, want, told, body, lost, alone, crashed>>

\* The process stops before anything is marked.
Crash ==
  /\ ~crashed /\ crashed' = TRUE
  /\ sending /\ sending' = FALSE /\ con' = [h \in Hosts |-> "none"] /\ want' = [h \in Hosts |-> {}]
  /\ block' = 0 /\ trs' = {} /\ hosts' = {}
  /\ UNCHANGED <<isFullNode, pool, info, have, told, body, lost, alone>>

Next ==
  \/ \E banned \in SUBSET Hosts : Disseminator(banned)
  \/ \E h \in Hosts : Refuse(h) \/ Type1(h) \/ SendBodies(h) \/ SaveNewTransactions(h) \/ Type2(h)
  \/ MarkSent \/ UpdBlockInfo \/ Crash
  \/ \E t \in Txs : NewTx(t) \/ (\E h \in Hosts : OtherRoute(h, t))

-----------------------------------------------------------------------------
\* A transaction that is marked sent is at a host, on its way there, or was
\* asked for by one: failed connections alone never mark it, whatever crashes
\* and retries there were (SendFullBlockToAll, sendBlockWithTxHashes).
SentIsTaken ==
  \A t \in Txs : pool[t] = "sent" => alone \/ t \in lost \/ \E h \in Hosts : t \in have[h] \cup body[h]

\* Everything unsent is sent in the end: hosts that stay dead do not hold it
\* back (ErrNodesUnavailable).
GetsOut == []<>(Unsent = {})

\* What is marked sent was taken, and everything gets out (Disseminator).
SendingIsTrue == []SentIsTaken /\ GetsOut
=============================================================================
