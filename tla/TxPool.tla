------------------------------- MODULE TxPool -------------------------------
(***************************************************************************)
(* The life of transactions on one node: the rows of queue_tx,             *)
(* transactions, transactions_status and log_transactions, and who moves a *)
(* transaction between them.                                               *)
(*                                                                         *)
(* The API (model.SendTx) and the TCP server (Type1, Type2) insert into    *)
(* queue_tx without holding DBLock.  QueueParserTx and BlockGenerator      *)
(* verify the queue (ProcessTransactionsQueue), one SQL statement at a     *)
(* time and in no database transaction; the generator then selects         *)
(* unused rows and plays them as a block.  Blocks of other nodes are       *)
(* played and rolled back in one database transaction each.  The marks     *)
(* that the selection hands to its two goroutines (block_generator.go:189) *)
(* may be applied long after the selection has returned.                   *)
(*                                                                         *)
(* What a contract does is left open: a transaction that is played takes   *)
(* effect or fails, and it may fail in one block and take effect in a      *)
(* later one.  A limiter may hold back any transaction.                    *)
(***************************************************************************)
EXTENDS Integers, Sequences, FiniteSets

CONSTANTS
  Txs,         \* transaction hashes
  Malformed,   \* transactions that UnmarshallTransaction refuses
  TxTime,      \* the time in the header of each transaction
  MaxForw,     \* consts.MAX_TX_FORW
  MaxBack,     \* consts.MAX_TX_BACK
  MaxAttempt,  \* consts.MaxTXAttempt
  LoopLimit,   \* the bound of DeleteLoopedTransactions
  MaxTxCount,  \* syspar.GetMaxTxCount()
  MaxTime,     \* bound on the clock
  MaxBlocks,   \* bound on the number of blocks
  MaxCounter,  \* bound on the counters of a row that is rolled back
  MaxLate,     \* bound on the marks under way
  Users,       \* does the API receive transactions, with a status?
  Gate,        \* do full nodes announce transactions (Type1)?
  Relay,       \* do other nodes send transactions (Type2)?
  Limited,     \* may limiters hold transactions back?
  Rollbacks,   \* may blocks be rolled back?
  Crashes      \* may the process die?

ASSUME TxPoolAssumption ==
  /\ Malformed \subseteq Txs
  /\ TxTime \in [Txs -> Nat]
  /\ MaxForw \in Nat /\ MaxBack \in Nat
  /\ MaxAttempt \in Nat \ {0} /\ LoopLimit \in Nat /\ MaxTxCount \in Nat
  /\ MaxTime \in Nat /\ MaxBlocks \in Nat
  /\ MaxCounter \in Nat /\ MaxLate \in Nat
  /\ Users \in BOOLEAN /\ Gate \in BOOLEAN /\ Relay \in BOOLEAN
  /\ Limited \in BOOLEAN /\ Rollbacks \in BOOLEAN /\ Crashes \in BOOLEAN

VARIABLES
  now,      \* the clock
  queue,    \* queue_tx: "none", or the row's from_gate as "user" or "gate"
  row,      \* transactions
  status,   \* transactions_status
  log,      \* log_transactions
  blocks,   \* block_chain: the transactions of each block and those in effect
  accepted, \* hashes that the API told its caller it has queued
  posting,  \* inserts into queue_tx under way, and who makes them
  gate,     \* hashes that the TCP server found unknown and has asked for
  marks,    \* marks handed to the goroutines of a selection
  pc,       \* where the holder of DBLock is
  work      \* its local variables

inputs == <<accepted, posting, gate>>
tables == <<queue, row, status, log, blocks>>
vars == <<now, queue, row, status, log, blocks, accepted, posting, gate, marks, pc, work>>

-----------------------------------------------------------------------------
(***************************************************************************)
(* Rows.                                                                   *)
(***************************************************************************)

Rows == [exists : BOOLEAN, used : BOOLEAN, verified : BOOLEAN, attempt : Nat, counter : Nat]
NoRow == [exists |-> FALSE, used |-> FALSE, verified |-> FALSE, attempt |-> 0, counter |-> 0]

\* text is "" for no text, "error" for the text of an error and "result" for
\* what the contract returned: both are kept in the column `error'.
Statuses == [exists : BOOLEAN, block : 0..MaxBlocks, text : {"", "error", "result"}]
NoStatus == [exists |-> FALSE, block |-> 0, text |-> ""]

Idle == [todo |-> {}, list |-> {}, counter |-> 0, next |-> "idle"]

Used(r) == [r EXCEPT !.used = r.exists]

\* IncrementTxAttemptCount.
Increment(r) ==
  IF r.exists
  THEN [r EXCEPT !.attempt = @ + 1, !.used = (r.attempt >= MaxAttempt - 1)]
  ELSE r

\* DeleteUsedTransactions and DeleteLoopedTransactions.
WithoutUsed(r) == IF r.used THEN NoRow ELSE r
WithoutLooped(r) == IF ~r.used /\ r.counter > LoopLimit THEN NoRow ELSE r

\* A plausible slip: log_transactions is not consulted.
CheckLogTxPoolOnly(t, transactions) == ~(transactions /\ row[t].verified)

\* CheckLogTx: the hash is not logged and, if asked, not verified already.
CheckLogTx(t, transactions) == t \notin log /\ ~(transactions /\ row[t].verified)

\* Transaction.Check at time `time'.
Check(t, time, transactions) ==
  IF ~CheckLogTx(t, transactions) THEN "duplicate"
  ELSE IF TxTime[t] > time + MaxForw THEN "time"
  ELSE IF TxTime[t] > time THEN "early"
  ELSE IF TxTime[t] + MaxBack < time THEN "time"
  ELSE "ok"

\* DeleteTransactionIfUnused.
WithoutUnverified(r) == IF r.used \/ r.verified THEN r ELSE NoRow

Failed(s) == IF s.exists THEN [s EXCEPT !.text = "error"] ELSE s

\* A plausible slip: the row of queue_tx is left behind.
MarkBadKeepingQueue(step, t) ==
  \/ step = "mark" /\ row' = [row EXCEPT ![t] = Used(@)] /\ UNCHANGED <<queue, status>>
  \/ step = "error" /\ status' = [status EXCEPT ![t] = Failed(@)] /\ UNCHANGED <<queue, row>>
  \/ step = "delete" /\ UNCHANGED <<queue, row, status>>

\* A plausible slip: no error is recorded.
MarkBadSilently(step, t) ==
  \/ step = "mark" /\ row' = [row EXCEPT ![t] = Used(@)] /\ UNCHANGED <<queue, status>>
  \/ step = "error" /\ UNCHANGED <<queue, row, status>>
  \/ /\ step = "delete"
     /\ queue' = [queue EXCEPT ![t] = "none"]
     /\ UNCHANGED <<row, status>>

\* MarkTransactionBad outside of a database transaction: the row is marked, the
\* error is recorded unless the hash is in queue_tx and came through the gate,
\* and the rows of the queue are deleted.
MarkTransactionBad(step, t) ==
  \/ /\ step = "mark"
     /\ row' = [row EXCEPT ![t] = Used(@)]
     /\ UNCHANGED <<queue, status>>
  \/ /\ step = "error"
     /\ status' = [status EXCEPT ![t] = IF queue[t] = "gate" THEN @ ELSE Failed(@)]
     /\ UNCHANGED <<queue, row>>
  \/ /\ step = "delete"
     /\ queue' = [queue EXCEPT ![t] = "none"]
     /\ row' = [row EXCEPT ![t] = WithoutUnverified(@)]
     /\ UNCHANGED status

BadSteps == {"mark", "error", "delete"}
Following == [mark |-> "error", error |-> "delete"]

-----------------------------------------------------------------------------
(***************************************************************************)
(* Arrival of transactions.                                                *)
(***************************************************************************)

Init ==
  /\ now = 0
  /\ queue = [t \in Txs |-> "none"]
  /\ row = [t \in Txs |-> NoRow]
  /\ status = [t \in Txs |-> NoStatus]
  /\ log = {}
  /\ blocks = << >>
  /\ accepted = {}
  /\ posting = {}
  /\ gate = {}
  /\ marks = {}
  /\ pc = "idle"
  /\ work = Idle

Tick ==
  /\ now < MaxTime
  /\ now' = now + 1
  /\ UNCHANGED <<tables, inputs, marks, pc, work>>

\* SendTx inserts the status first; a hash that has one is refused.
SendTx(t) ==
  /\ Users
  /\ ~status[t].exists
  /\ status' = [status EXCEPT ![t] = [NoStatus EXCEPT !.exists = TRUE]]
  /\ posting' = posting \cup {<<t, "api">>}
  /\ UNCHANGED <<now, queue, row, log, blocks, accepted, gate, marks, pc, work>>

\* Type2 replaces a row of queue_tx: first it deletes the row.
Type2(t) ==
  /\ Relay
  /\ <<t, "relay">> \notin posting
  /\ queue' = [queue EXCEPT ![t] = "none"]
  /\ posting' = posting \cup {<<t, "relay">>}
  /\ UNCHANGED <<now, row, status, log, blocks, accepted, gate, marks, pc, work>>

\* The insert of SendTx and of Type2.  The primary key refuses a second row,
\* and the sender is told.
CreateQueueTx(t, by) ==
  /\ <<t, by>> \in posting
  /\ \/ /\ queue[t] = "none"
        /\ queue' = [queue EXCEPT ![t] = "user"]
        /\ accepted' = IF by = "api" THEN accepted \cup {t} ELSE accepted
     \/ /\ queue[t] # "none"
        /\ UNCHANGED <<queue, accepted>>
  /\ posting' = posting \ {<<t, by>>}
  /\ UNCHANGED <<now, row, status, log, blocks, gate, marks, pc, work>>

\* getUnknownTransactions.
Unknown(t) == t \notin log /\ ~row[t].exists /\ queue[t] = "none"

\* Type1: the unknown ones of the announced hashes are asked for ...
Type1(announced) ==
  /\ Gate
  /\ gate = {}
  /\ gate' = { t \in announced : Unknown(t) }
  /\ gate' # {}
  /\ UNCHANGED <<now, tables, accepted, posting, marks, pc, work>>

\* ... and saved when they have arrived, by one INSERT for all of them.  It may
\* also be that they never arrive.
SaveNewTransactions ==
  /\ gate # {}
  /\ gate' = {}
  /\ \/ /\ \A t \in gate : queue[t] = "none"
        /\ queue' = [t \in Txs |-> IF t \in gate THEN "gate" ELSE queue[t]]
     \/ UNCHANGED queue
  /\ UNCHANGED <<now, row, status, log, blocks, accepted, posting, marks, pc, work>>

-----------------------------------------------------------------------------
(***************************************************************************)
(* ProcessTransactionsQueue, for QueueParserTx and for BlockGenerator.     *)
(***************************************************************************)

Release == pc' = "idle" /\ work' = Idle

\* GetAllUnverifiedAndUnusedTransactions.
Unverified(q, r) == { t \in Txs : q[t] # "none" \/ (r[t].exists /\ ~r[t].verified /\ ~r[t].used) }

\* QueueParserTx.
StartQueueParserTx ==
  /\ pc = "idle"
  /\ row' = [t \in Txs |-> WithoutLooped(row[t])]
  /\ pc' = "parse"
  /\ work' = [Idle EXCEPT !.todo = Unverified(queue, row')]
  /\ UNCHANGED <<now, queue, status, log, blocks, inputs, marks>>

\* BlockGenerator, up to processTransactions.
StartGenerator ==
  /\ pc = "idle"
  /\ Len(blocks) < MaxBlocks
  /\ pc' = "parse"
  /\ work' = [Idle EXCEPT !.todo = Unverified(queue, row), !.next = "select"]
  /\ UNCHANGED <<now, tables, inputs, marks>>

\* ProcessQueueTransaction up to DeleteTransactionByHash.  The first error ends
\* the whole iteration of the daemon.
ProcessQueueTransaction(t) ==
  LET result == IF t \in Malformed THEN "malformed" ELSE Check(t, now, TRUE)
  IN  /\ pc = "parse"
      /\ t \in work.todo
      /\ \/ /\ result = "early"
            /\ work' = [work EXCEPT !.todo = @ \ {t}]
            /\ UNCHANGED <<queue, row, status, pc>>
         \/ /\ result \notin {"early", "ok"}
            /\ work' = [work EXCEPT !.list = {t}]
            /\ pc' = "mark"
            /\ UNCHANGED <<queue, row, status>>
         \/ /\ result = "ok"
            /\ row' = [row EXCEPT ![t] = NoRow]
            /\ work' = [work EXCEPT !.list = {t}, !.counter = row[t].counter + 1]
            /\ pc' = "create"
            /\ UNCHANGED <<queue, status>>
      /\ UNCHANGED <<now, log, blocks, inputs, marks>>

\* The holder of DBLock marks a transaction bad and gives up.
RefuseTransaction ==
  /\ pc \in BadSteps
  /\ \E t \in work.list : MarkTransactionBad(pc, t)
  /\ \/ pc = "delete" /\ Release
     \/ pc # "delete" /\ pc' = Following[pc] /\ UNCHANGED work
  /\ UNCHANGED <<now, log, blocks, inputs, marks>>

\* The insert with verified = 1.
CreateTransaction ==
  /\ pc = "create"
  /\ \E t \in work.list :
       row' = [row EXCEPT ![t] = [exists |-> TRUE, used |-> FALSE, verified |-> TRUE,
                                  attempt |-> 0, counter |-> work.counter]]
  /\ pc' = "dequeue"
  /\ UNCHANGED <<now, queue, status, log, blocks, inputs, marks, work>>

\* DeleteQueueTx; DeleteTransactionIfUnused does not meet a verified row.
DeleteQueueTx ==
  /\ pc = "dequeue"
  /\ queue' = [t \in Txs |-> IF t \in work.list THEN "none" ELSE queue[t]]
  /\ pc' = "parse"
  /\ work' = [work EXCEPT !.todo = @ \ work.list, !.list = {}, !.counter = 0]
  /\ UNCHANGED <<now, row, status, log, blocks, inputs, marks>>

\* The queue is verified.  The parser ends; the generator reads unused rows.
QueueProcessed ==
  /\ pc = "parse"
  /\ work.todo = {}
  /\ \/ /\ work.next = "idle"
        /\ Release
     \/ /\ work.next = "select"
        /\ \E trs \in SUBSET { t \in Txs : row[t].exists /\ ~row[t].used } :
             /\ Cardinality(trs) <= MaxTxCount
             /\ work' = [work EXCEPT !.todo = trs]
        /\ pc' = "select"
  /\ marks' = { [m EXCEPT !.old = TRUE] : m \in marks }
  /\ UNCHANGED <<now, tables, inputs>>

-----------------------------------------------------------------------------
(***************************************************************************)
(* The selection of processTransactions, and its late marks.               *)
(***************************************************************************)

\* A mark waits for the goroutine to finish the one before it; the goroutines
\* of earlier selections may still be at theirs.
MayHand(kind) ==
  /\ Cardinality(marks) < MaxLate
  /\ \A m \in marks : (m.kind = "attempt" <=> kind = "attempt") => m.old

Handed(kind, t) == marks \cup {[kind |-> kind, tx |-> t, old |-> FALSE]}

\* One transaction of the loop.  A limiter may skip it, stop at it or find it
\* too large, which marks it bad like the stop at the first transaction.
SelectTransaction(t) ==
  LET passes == Check(t, now, FALSE) = "ok"
  IN  /\ pc = "select"
      /\ t \in work.todo
      /\ \/ /\ passes
            /\ work' = [work EXCEPT !.todo = @ \ {t}, !.list = @ \cup {t}]
            /\ UNCHANGED marks
         \/ \E kind \in {"attempt", "mark"} :
              /\ IF passes THEN Limited ELSE kind = "mark"
              /\ MayHand(kind)
              /\ marks' = Handed(kind, t)
              /\ work' = [work EXCEPT !.todo = @ \ {t}]
      /\ UNCHANGED <<now, tables, inputs, pc>>

\* The end of the loop, or of the time of the slot.
SelectionDone ==
  /\ pc = "select"
  /\ IF work.list = {} THEN Release ELSE pc' = "play" /\ UNCHANGED work
  /\ UNCHANGED <<now, tables, inputs, marks>>

\* A goroutine applies its mark, one statement at a time.
ApplyMark(m) ==
  /\ \/ /\ m.kind \in BadSteps
        /\ MarkTransactionBad(m.kind, m.tx)
     \/ /\ m.kind = "attempt"
        /\ row' = [row EXCEPT ![m.tx] = Increment(@)]
        /\ UNCHANGED <<queue, status>>
  /\ marks' = (marks \ {m}) \cup
                (IF m.kind \in DOMAIN Following THEN {[m EXCEPT !.kind = Following[m.kind]]} ELSE {})
  /\ UNCHANGED <<now, log, blocks, inputs, pc, work>>

-----------------------------------------------------------------------------
(***************************************************************************)
(* Blocks.                                                                 *)
(***************************************************************************)

\* Block.Play of the transactions txs, of which ok take effect: the row of each
\* transaction.  An attempt is counted for every one and given back to those
\* that succeed.  A generated block may be cut before one that a limit stops.
PlayedRow(t, txs, ok, stopped) ==
  LET r == WithoutUsed(row[t])
  IN  IF t \in ok THEN Used(r)
      ELSE IF t \in txs THEN Used(Increment(r))
      ELSE IF t \in stopped THEN Increment(r)
      ELSE r

PlayedStatus(t, txs, ok) ==
  IF t \in ok /\ status[t].exists THEN [status[t] EXCEPT !.block = Len(blocks) + 1, !.text = "result"]
  ELSE IF t \in txs /\ queue[t] # "gate" THEN Failed(status[t])
  ELSE status[t]

Play(txs, ok, stopped) ==
  /\ row' = [t \in Txs |-> PlayedRow(t, txs, ok, stopped)]
  /\ status' = [t \in Txs |-> PlayedStatus(t, txs, ok)]
  /\ queue' = [t \in Txs |-> IF t \in txs \ ok THEN "none" ELSE queue[t]]
  /\ log' = log \cup ok
  /\ blocks' = Append(blocks, [txs |-> txs, ok |-> ok])

\* PlaySafe of the block that was generated.
PlayGenerated ==
  /\ pc = "play"
  /\ \E txs \in SUBSET work.list \ {{}}, stopped \in SUBSET work.list :
       /\ \/ txs = work.list /\ stopped = {}
          \/ Limited /\ Cardinality(stopped) = 1 /\ stopped \cap txs = {}
       /\ \E ok \in SUBSET txs : Play(txs, ok, stopped)
  /\ Release
  /\ UNCHANGED <<now, inputs, marks>>

\* The limit stops at the first transaction: nothing is kept, and it is bad.
PlayNothing ==
  /\ pc = "play"
  /\ Limited
  /\ \E t \in work.list : work' = [work EXCEPT !.list = {t}]
  /\ pc' = "mark"
  /\ UNCHANGED <<now, tables, inputs, marks>>

\* The block does not pass Block.Check.
GenerationFails ==
  /\ pc = "play"
  /\ Release
  /\ UNCHANGED <<now, tables, inputs, marks>>

\* A block of another node, made at some time until now, passes Block.Check and
\* is played.
PlayForeign ==
  /\ pc = "idle"
  /\ Len(blocks) < MaxBlocks
  /\ \E txs \in SUBSET (Txs \ Malformed) \ {{}}, time \in 0..now :
       /\ \A t \in txs : Check(t, time, FALSE) = "ok"
       /\ \E ok \in SUBSET txs : Play(txs, ok, {})
  /\ UNCHANGED <<now, inputs, marks, pc, work>>

\* A plausible slip: the block id stays in the status.
RollbackBlockKeepingStatus ==
  /\ Rollbacks
  /\ \A t \in Txs : row[t].counter < MaxCounter /\ row[t].attempt < MaxCounter
  /\ pc = "idle"
  /\ blocks # << >>
  /\ LET txs == blocks[Len(blocks)].txs
     IN  /\ row' = [t \in Txs |-> IF row[t].exists /\ (t \in txs \/ ~row[t].used)
                                  THEN [row[t] EXCEPT !.used = FALSE, !.verified = FALSE]
                                  ELSE row[t]]
         /\ log' = log \ txs
         /\ queue' = [t \in Txs |-> IF t \in txs THEN "none" ELSE queue[t]]
  /\ blocks' = SubSeq(blocks, 1, Len(blocks) - 1)
  /\ UNCHANGED <<now, status, inputs, marks, pc, work>>

\* MarkVerifiedAndNotUsedTransactionsUnverified, then RollbackBlock.
RollbackBlock ==
  /\ Rollbacks
  /\ \A t \in Txs : row[t].counter < MaxCounter /\ row[t].attempt < MaxCounter
  /\ pc = "idle"
  /\ blocks # << >>
  /\ LET txs == blocks[Len(blocks)].txs
     IN  /\ row' = [t \in Txs |-> IF row[t].exists /\ (t \in txs \/ ~row[t].used)
                                  THEN [row[t] EXCEPT !.used = FALSE, !.verified = FALSE]
                                  ELSE row[t]]
         /\ log' = log \ txs
         /\ queue' = [t \in Txs |-> IF t \in txs THEN "none" ELSE queue[t]]
         /\ status' = [t \in Txs |-> IF t \in txs THEN [status[t] EXCEPT !.block = 0]
                                     ELSE status[t]]
  /\ blocks' = SubSeq(blocks, 1, Len(blocks) - 1)
  /\ UNCHANGED <<now, inputs, marks, pc, work>>

\* The process dies and starts again: only the tables are left.
Crash ==
  /\ Crashes
  /\ posting' = {} /\ gate' = {} /\ marks' = {}
  /\ Release
  /\ UNCHANGED <<now, tables, accepted>>

Arrival ==
  \/ \E t \in Txs : SendTx(t) \/ Type2(t) \/ CreateQueueTx(t, "api") \/ CreateQueueTx(t, "relay")
  \/ \E announced \in SUBSET Txs : Type1(announced)
  \/ SaveNewTransactions

Parsing ==
  \/ \E t \in Txs : ProcessQueueTransaction(t)
  \/ RefuseTransaction \/ CreateTransaction \/ DeleteQueueTx \/ QueueProcessed

Generating ==
  \/ \E t \in Txs : SelectTransaction(t)
  \/ SelectionDone \/ PlayGenerated \/ PlayNothing \/ GenerationFails

Next ==
  \/ Tick \/ Arrival
  \/ StartQueueParserTx \/ StartGenerator \/ Parsing \/ Generating
  \/ \E m \in marks : ApplyMark(m)
  \/ PlayForeign \/ RollbackBlock \/ Crash

Spec == Init /\ [][Next]_vars

\* daemonLoop runs QueueParserTx again and again, DBLock is given back by every
\* iteration, and a row of the queue is always met by some iteration.
FairSpec ==
  /\ Spec
  /\ WF_vars(Tick)
  /\ WF_vars(Parsing)
  /\ WF_vars(Generating)
  /\ SF_vars(StartQueueParserTx)

-----------------------------------------------------------------------------
(***************************************************************************)
(* Properties.                                                             *)
(***************************************************************************)

BlockRows == [txs : SUBSET Txs, ok : SUBSET Txs]
Marks == [kind : BadSteps \cup {"attempt"}, tx : Txs, old : BOOLEAN]

TypeOK ==
  /\ now \in 0..MaxTime
  /\ queue \in [Txs -> {"none", "user", "gate"}]
  /\ row \in [Txs -> Rows]
  /\ status \in [Txs -> Statuses]
  /\ log \subseteq Txs
  /\ blocks \in Seq(BlockRows) /\ Len(blocks) <= MaxBlocks
  /\ accepted \subseteq Txs /\ posting \subseteq Txs \X {"api", "relay"} /\ gate \subseteq Txs
  /\ marks \subseteq Marks
  /\ pc \in BadSteps \cup {"idle", "parse", "create", "dequeue", "select", "play"}
  /\ work \in [todo : SUBSET Txs, list : SUBSET Txs, counter : Nat, next : {"idle", "select"}]

\* No transaction takes effect twice on the chain, and log_transactions is
\* exactly what is in effect: whatever route a transaction came by, however
\* late its marks are, and after any rollbacks and crashes (block.go:275).
LogIsChain ==
  /\ log = UNION { blocks[k].ok : k \in DOMAIN blocks }
  /\ \A j, k \in DOMAIN blocks : j # k => blocks[j].ok \cap blocks[k].ok = {}

\* A block that the node generates holds no transaction that is in effect
\* already: it would not pass Block.Check on any node (block_generator.go:236).
SelectionIsFresh == pc = "play" => work.list \cap log = {}

\* The block id that the API reports for a transaction (txstatus.go:71) is the
\* id of the block in which the transaction took effect.
StatusIsTrue ==
  \A t \in Txs : status[t].block # 0 =>
    status[t].block \in DOMAIN blocks /\ t \in blocks[status[t].block].ok

\* A transaction in the hands of ProcessQueueTransaction, or about to be
\* reported as failed.
InHand(t) ==
  \/ pc \in {"create", "dequeue", "mark", "error"} /\ t \in work.list
  \/ \E m \in marks : m.tx = t /\ m.kind \in {"mark", "error"}

\* A transaction that the API accepted, and that is neither in a block nor
\* reported as failed, is still somewhere on its way to a block.
NoSilentLoss ==
  \A t \in accepted : status[t] = [exists |-> TRUE, block |-> 0, text |-> ""] =>
    queue[t] # "none" \/ row[t].exists \/ InHand(t) \/ t \in log

\* Every transaction leaves queue_tx, although the first one that is refused
\* ends the iteration, and the early ones are left in place (db.go:223).
QueueDrains == \A t \in Txs : queue[t] # "none" ~> queue[t] = "none"
=============================================================================
