--------------------------- MODULE TxPool_proofs ---------------------------
(***************************************************************************)
(* For any transactions, times, limits and bounds: no transaction takes    *)
(* effect twice, log_transactions is what is in effect, a generated block  *)
(* holds nothing that is in effect, and the block id of a status is true.  *)
(* On a node that serves its users only and is left alone, no transaction  *)
(* that the API accepted is lost in silence.                               *)
(***************************************************************************)
EXTENDS TxPool, SequenceTheorems, TLAPS

\* A block was checked against the log of the blocks before it, so nothing in
\* it, not even what fails, is in effect in an earlier block.
ChainInv ==
  /\ \A k \in 1..Len(blocks) : blocks[k].ok \subseteq blocks[k].txs
  /\ \A j, k \in 1..Len(blocks) : j < k => blocks[k].txs \cap blocks[j].ok = {}
  /\ \A t \in Txs : t \in log <=> \E k \in 1..Len(blocks) : t \in blocks[k].ok

\* What the holder of DBLock keeps between its steps.
WorkInv ==
  /\ pc = "parse" => work.list = {}
  /\ pc \in {"select", "play"} => work.list \cap log = {} /\ work.next = "select"
  /\ work.next = "select" => Len(blocks) < MaxBlocks
  /\ pc = "idle" => work.next = "idle"

Inv == TypeOK /\ ChainInv /\ WorkInv /\ StatusIsTrue

-----------------------------------------------------------------------------
(***************************************************************************)
(* Facts about the operators.                                              *)
(***************************************************************************)

\* The operations on a row of transactions keep it a row.
LEMMA RowOperations ==
  ASSUME NEW r \in Rows
  PROVE  Used(r) \in Rows /\ Increment(r) \in Rows /\ WithoutUsed(r) \in Rows
           /\ WithoutLooped(r) \in Rows /\ WithoutUnverified(r) \in Rows /\ NoRow \in Rows
<1>1. NoRow \in Rows
  BY DEF NoRow, Rows
<1>2. Used(r) \in Rows
  BY DEF Used, Rows
<1>3. Increment(r) \in Rows
  <2>1. r.attempt \in Nat /\ r.attempt + 1 \in Nat
    BY DEF Rows
  <2>2. \A n \in Nat, u \in BOOLEAN : [r EXCEPT !.attempt = n, !.used = u] \in Rows
    BY DEF Rows
  <2>3. (r.attempt >= MaxAttempt - 1) \in BOOLEAN
    BY <2>1, TxPoolAssumption, SMT
  <2> QED
    BY <2>1, <2>2, <2>3, Zenon DEF Increment
<1> QED
  BY <1>1, <1>2, <1>3 DEF WithoutUsed, WithoutLooped, WithoutUnverified

\* What is written to a status keeps it a status.
LEMMA StatusOperations ==
  ASSUME NEW s \in Statuses
  PROVE  /\ Failed(s) \in Statuses /\ Failed(s).block = s.block
         /\ [s EXCEPT !.block = 0] \in Statuses
         /\ [s EXCEPT !.block = 0].block = 0
         /\ s.block \in 0..MaxBlocks
         /\ NoStatus \in Statuses
         /\ [NoStatus EXCEPT !.exists = TRUE] \in Statuses
         /\ [NoStatus EXCEPT !.exists = TRUE].block = 0
         /\ \A n \in 0..MaxBlocks :
              /\ [s EXCEPT !.block = n, !.text = "result"] \in Statuses
              /\ [s EXCEPT !.block = n, !.text = "result"].block = n
<1>1. s.block \in 0..MaxBlocks /\ 0 \in 0..MaxBlocks
  <2>1. s.block \in 0..MaxBlocks
    BY DEF Statuses
  <2>2. MaxBlocks \in Nat
    BY TxPoolAssumption
  <2>3. 0 \in 0..MaxBlocks
    BY <2>2
  <2> QED
    BY <2>1, <2>3
<1>2. Failed(s) \in Statuses /\ Failed(s).block = s.block
  BY DEF Statuses, Failed
<1>3. /\ [s EXCEPT !.block = 0] \in Statuses
      /\ [s EXCEPT !.block = 0].block = 0
  BY <1>1 DEF Statuses
<1>4. /\ NoStatus \in Statuses
      /\ [NoStatus EXCEPT !.exists = TRUE] \in Statuses
      /\ [NoStatus EXCEPT !.exists = TRUE].block = 0
  BY <1>1 DEF Statuses, NoStatus
<1>5. ASSUME NEW n \in 0..MaxBlocks
      PROVE  /\ [s EXCEPT !.block = n, !.text = "result"] \in Statuses
             /\ [s EXCEPT !.block = n, !.text = "result"].block = n
  BY DEF Statuses
<1> QED
  BY <1>1, <1>2, <1>3, <1>4, <1>5

\* Nothing that passes Transaction.Check is logged.
LEMMA CheckedIsFresh ==
  ASSUME NEW t, NEW time, NEW dup, Check(t, time, dup) = "ok"
  PROVE  t \notin log
  BY DEF Check, CheckLogTx

\* The statements of MarkTransactionBad keep the types, and the block ids of the
\* statuses.
LEMMA MarkBad ==
  ASSUME TypeOK, NEW step, NEW t \in Txs, MarkTransactionBad(step, t)
  PROVE  /\ queue' \in [Txs -> {"none", "user", "gate"}]
         /\ row' \in [Txs -> Rows]
         /\ status' \in [Txs -> Statuses]
         /\ \A u \in Txs : status'[u].block = status[u].block
<1>1. queue' \in [Txs -> {"none", "user", "gate"}]
  BY DEF MarkTransactionBad, TypeOK
<1>2. row' \in [Txs -> Rows]
  BY RowOperations DEF MarkTransactionBad, TypeOK
<1>3. status \in [Txs -> Statuses]
  BY DEF TypeOK
<1>4. PICK s \in Statuses : status' = [status EXCEPT ![t] = s] /\ s.block = status[t].block
  BY <1>3, StatusOperations DEF MarkTransactionBad
<1> QED
  BY <1>1, <1>2, <1>3, <1>4

\* A step that leaves the log and the blocks as they are, and at most clears
\* block ids of the statuses, keeps what is said of the chain.
LEMMA QuietStep ==
  ASSUME Inv, UNCHANGED <<log, blocks>>,
         \A t \in Txs : status'[t].block \in {0, status[t].block}
  PROVE  ChainInv' /\ StatusIsTrue'
<1>1. ChainInv'
  BY DEF Inv, ChainInv
<1>2. StatusIsTrue'
  BY DEF Inv, StatusIsTrue
<1> QED
  BY <1>1, <1>2

\* Inv gives the two invariants that are stated of the log and of the blocks.
LEMMA InvImplies == Inv => LogIsChain /\ SelectionIsFresh
<1> SUFFICES ASSUME Inv PROVE LogIsChain /\ SelectionIsFresh
  OBVIOUS
<1>1. blocks \in Seq(BlockRows) /\ DOMAIN blocks = 1..Len(blocks) /\ Len(blocks) \in Nat
  BY DEF Inv, TypeOK
<1>2. ASSUME NEW k \in DOMAIN blocks PROVE blocks[k].ok \subseteq Txs
  <2>1. blocks[k] \in BlockRows
    BY <1>1
  <2> QED
    BY <2>1 DEF BlockRows
<1>3. ASSUME NEW j \in DOMAIN blocks, NEW k \in DOMAIN blocks, j # k
      PROVE  blocks[j].ok \cap blocks[k].ok = {}
  <2>1. ASSUME NEW m \in 1..Len(blocks), NEW n \in 1..Len(blocks), m < n
        PROVE  blocks[m].ok \cap blocks[n].ok = {}
    BY <2>1 DEF Inv, ChainInv
  <2>2. j < k \/ k < j
    BY <1>1, <1>3
  <2> QED
    BY <1>1, <2>1, <2>2
<1>4. ASSUME NEW t PROVE t \in log <=> t \in UNION { blocks[k].ok : k \in DOMAIN blocks }
  <2>1. log \subseteq Txs
    BY DEF Inv, TypeOK
  <2> QED
    BY <1>1, <1>2, <2>1 DEF Inv, ChainInv
<1> QED
  BY <1>3, <1>4 DEF Inv, WorkInv, LogIsChain, SelectionIsFresh

-----------------------------------------------------------------------------
(***************************************************************************)
(* Blocks are played and rolled back.                                      *)
(***************************************************************************)

\* What is appended to a sequence of blocks.
LEMMA AppendBlock ==
  ASSUME NEW S, NEW s \in Seq(S), NEW b \in S
  PROVE  /\ Append(s, b) \in Seq(S)
         /\ Len(s) \in Nat /\ Len(Append(s, b)) = Len(s) + 1
         /\ \A k \in 1..Len(s) : Append(s, b)[k] = s[k]
         /\ Append(s, b)[Len(s) + 1] = b
  OBVIOUS

\* What is left without the last block.
LEMMA RemoveBlock ==
  ASSUME NEW S, NEW s \in Seq(S), s # << >>
  PROVE  /\ SubSeq(s, 1, Len(s) - 1) \in Seq(S)
         /\ Len(s) \in Nat \ {0} /\ Len(SubSeq(s, 1, Len(s) - 1)) = Len(s) - 1
         /\ \A k \in 1..(Len(s) - 1) : SubSeq(s, 1, Len(s) - 1)[k] = s[k]
         /\ s[Len(s)] \in S
<1>1. Len(s) \in Nat \ {0} /\ \A k \in 1..Len(s) : s[k] \in S
  OBVIOUS
<1>2. \A k \in 1..(Len(s) - 1) : s[k] \in S
  BY <1>1
<1>3. /\ SubSeq(s, 1, Len(s) - 1) \in Seq(S)
      /\ Len(SubSeq(s, 1, Len(s) - 1)) = Len(s) - 1
      /\ \A k \in 1..(Len(s) - 1) : SubSeq(s, 1, Len(s) - 1)[k] = s[k]
  <2>1. Len(s) - 1 \in Nat
    BY <1>1
  <2> DEFINE m == Len(s) - 1
             u == [i \in 1..m |-> s[i]]
  <2>2. SubSeq(s, 1, m) = u
    BY <2>1
  <2>3. u \in Seq(S) /\ Len(u) = m /\ \A k \in 1..m : u[k] = s[k]
    BY <1>2, <2>1
  <2> QED
    BY <2>2, <2>3
<1> QED
  BY <1>1, <1>3

\* Playing a block of transactions that are not logged.
LEMMA PlayStep ==
  ASSUME Inv, NEW txs \in SUBSET Txs, NEW ok \in SUBSET txs, NEW stopped,
         txs \cap log = {}, Len(blocks) < MaxBlocks, Play(txs, ok, stopped)
  PROVE  /\ ChainInv' /\ StatusIsTrue'
         /\ queue' \in [Txs -> {"none", "user", "gate"}]
         /\ row' \in [Txs -> Rows]
         /\ status' \in [Txs -> Statuses]
         /\ log' \subseteq Txs
         /\ blocks' \in Seq(BlockRows) /\ Len(blocks') <= MaxBlocks
<1> DEFINE b == [txs |-> txs, ok |-> ok]
           n == Len(blocks) + 1
<1>1. /\ blocks' \in Seq(BlockRows)
      /\ Len(blocks) \in Nat /\ Len(blocks') = n
      /\ \A k \in 1..Len(blocks) : blocks'[k] = blocks[k]
      /\ blocks'[n].txs = txs /\ blocks'[n].ok = ok
  <2>1. blocks \in Seq(BlockRows) /\ blocks' = Append(blocks, b) /\ b \in BlockRows
    BY DEF Inv, TypeOK, Play, BlockRows
  <2> HIDE DEF b
  <2>2. /\ blocks' \in Seq(BlockRows)
        /\ Len(blocks) \in Nat /\ Len(blocks') = n
        /\ \A k \in 1..Len(blocks) : blocks'[k] = blocks[k]
        /\ blocks'[n] = b
    BY <2>1, AppendBlock
  <2> QED
    BY <2>2 DEF b
<1>2. queue' \in [Txs -> {"none", "user", "gate"}]
  BY DEF Play, Inv, TypeOK
<1>3. row' \in [Txs -> Rows]
  <2>1. \A t \in Txs : row[t] \in Rows
    BY DEF Inv, TypeOK
  <2>2. \A t \in Txs : PlayedRow(t, txs, ok, stopped) \in Rows
    BY <2>1, RowOperations DEF PlayedRow
  <2> QED
    BY <2>2 DEF Play
<1>4. \A t \in Txs : status[t] \in Statuses
  BY DEF Inv, TypeOK
<1>5. ASSUME NEW t \in Txs
      PROVE  /\ PlayedStatus(t, txs, ok) \in Statuses
             /\ \/ PlayedStatus(t, txs, ok).block = status[t].block
                \/ t \in ok /\ PlayedStatus(t, txs, ok).block = n
  <2>1. n \in 0..MaxBlocks
    BY <1>1, TxPoolAssumption
  <2> QED
    BY <1>4, <2>1, StatusOperations DEF PlayedStatus
<1>6. status' \in [Txs -> Statuses]
  BY <1>5 DEF Play
<1>7. log' = log \cup ok /\ log' \subseteq Txs
  BY DEF Play, Inv, TypeOK
<1>8. \A j \in 1..Len(blocks) : txs \cap blocks[j].ok = {}
  BY DEF Inv, ChainInv
<1>9. \A k \in 1..n : k \in 1..Len(blocks) \/ k = n
  BY <1>1
<1>10. ChainInv'
  <2>1. \A k \in 1..n : blocks'[k].ok \subseteq blocks'[k].txs
    BY <1>1, <1>9 DEF Inv, ChainInv
  <2>2. ASSUME NEW j \in 1..n, NEW k \in 1..n, j < k
        PROVE  blocks'[k].txs \cap blocks'[j].ok = {}
    <3>1. j \in 1..Len(blocks)
      BY <1>1, <2>2
    <3>2. CASE k = n
      BY <1>1, <1>8, <3>1, <3>2
    <3>3. CASE k \in 1..Len(blocks)
      BY <1>1, <2>2, <3>1, <3>3 DEF Inv, ChainInv
    <3> QED
      BY <1>9, <3>2, <3>3
  <2>3. ASSUME NEW t \in Txs PROVE t \in log' <=> \E k \in 1..n : t \in blocks'[k].ok
    <3>1. n \in 1..n /\ 1..Len(blocks) \subseteq 1..n
      BY <1>1
    <3>2. t \in log <=> \E k \in 1..Len(blocks) : t \in blocks[k].ok
      BY DEF Inv, ChainInv
    <3> QED
      BY <1>1, <1>7, <1>9, <3>1, <3>2
  <2> QED
    BY <1>1, <2>1, <2>2, <2>3 DEF ChainInv
<1>11. StatusIsTrue'
  <2> SUFFICES ASSUME NEW t \in Txs, status'[t].block # 0
               PROVE  status'[t].block \in DOMAIN blocks' /\ t \in blocks'[status'[t].block].ok
    BY DEF StatusIsTrue
  <2>1. status'[t] = PlayedStatus(t, txs, ok)
    BY DEF Play
  <2>2. DOMAIN blocks = 1..Len(blocks) /\ DOMAIN blocks' = 1..n
    BY <1>1 DEF Inv, TypeOK
  <2>3. CASE status'[t].block = status[t].block
    <3>1. status[t].block \in 1..Len(blocks) /\ t \in blocks[status[t].block].ok
      BY <2>2, <2>3 DEF Inv, StatusIsTrue
    <3> QED
      BY <1>1, <2>2, <2>3, <3>1
  <2>4. CASE t \in ok /\ status'[t].block = n
    BY <1>1, <2>2, <2>4
  <2> QED
    BY <1>5, <2>1, <2>3, <2>4
<1> QED
  BY <1>1, <1>2, <1>3, <1>6, <1>7, <1>10, <1>11, TxPoolAssumption

\* Rolling back the last block.
LEMMA RollbackStep ==
  ASSUME Inv, RollbackBlock
  PROVE  Inv'
<1> DEFINE n == Len(blocks)
           txs == blocks[n].txs
<1>1. /\ blocks' \in Seq(BlockRows)
      /\ n \in Nat \ {0} /\ Len(blocks') = n - 1
      /\ \A k \in 1..(n - 1) : blocks'[k] = blocks[k]
      /\ blocks[n] \in BlockRows
  <2>1. blocks \in Seq(BlockRows) /\ blocks # << >> /\ blocks' = SubSeq(blocks, 1, Len(blocks) - 1)
    BY DEF Inv, TypeOK, RollbackBlock
  <2> QED
    BY <2>1, RemoveBlock
<1>2. txs \subseteq Txs
  BY <1>1 DEF BlockRows
<1>3. queue' \in [Txs -> {"none", "user", "gate"}]
  BY DEF RollbackBlock, Inv, TypeOK
<1>4. row' \in [Txs -> Rows]
  <2>1. \A t \in Txs : row[t] \in Rows
    BY DEF Inv, TypeOK
  <2>2. \A r \in Rows : [r EXCEPT !.used = FALSE, !.verified = FALSE] \in Rows
    BY DEF Rows
  <2> QED
    BY <2>1, <2>2 DEF RollbackBlock
<1>5. \A t \in Txs : status[t] \in Statuses
  BY DEF Inv, TypeOK
<1>6. status' = [t \in Txs |-> IF t \in txs THEN [status[t] EXCEPT !.block = 0] ELSE status[t]]
  BY DEF RollbackBlock
<1>7. status' \in [Txs -> Statuses]
  BY <1>5, <1>6, StatusOperations
<1>8. \A t \in Txs : IF t \in txs THEN status'[t].block = 0 ELSE status'[t] = status[t]
  BY <1>5, <1>6, StatusOperations
<1>9. log' = log \ txs
  BY DEF RollbackBlock
<1>10. /\ 1..(n - 1) \subseteq 1..n /\ n \in 1..n
       /\ \A k \in 1..n : k = n \/ k \in 1..(n - 1)
       /\ \A k \in 1..(n - 1) : k < n
  BY <1>1
<1>11. \A k \in 1..(n - 1) : txs \cap blocks[k].ok = {}
  BY <1>10 DEF Inv, ChainInv
<1>12. blocks[n].ok \subseteq txs
  BY <1>10 DEF Inv, ChainInv
<1>13. ChainInv'
  <2>1. \A k \in 1..(n - 1) : blocks'[k].ok \subseteq blocks'[k].txs
    BY <1>1, <1>10 DEF Inv, ChainInv
  <2>2. \A j, k \in 1..(n - 1) : j < k => blocks'[k].txs \cap blocks'[j].ok = {}
    BY <1>1, <1>10 DEF Inv, ChainInv
  <2>3. ASSUME NEW t \in Txs PROVE t \in log' <=> \E k \in 1..(n - 1) : t \in blocks'[k].ok
    <3>1. t \in log <=> \E k \in 1..n : t \in blocks[k].ok
      BY DEF Inv, ChainInv
    <3> QED
      BY <1>1, <1>9, <1>10, <1>11, <1>12, <3>1
  <2> QED
    BY <1>1, <2>1, <2>2, <2>3 DEF ChainInv
<1>14. StatusIsTrue'
  <2> SUFFICES ASSUME NEW t \in Txs, status'[t].block # 0
               PROVE  status'[t].block \in DOMAIN blocks' /\ t \in blocks'[status'[t].block].ok
    BY DEF StatusIsTrue
  <2>1. t \notin txs /\ status'[t] = status[t]
    BY <1>8
  <2>2. DOMAIN blocks = 1..n /\ DOMAIN blocks' = 1..(n - 1)
    BY <1>1 DEF Inv, TypeOK
  <2>3. status[t].block \in 1..n /\ t \in blocks[status[t].block].ok
    BY <2>1, <2>2 DEF Inv, StatusIsTrue
  <2> QED
    BY <1>1, <1>10, <1>12, <2>1, <2>2, <2>3
<1>15. WorkInv'
  <2>1. pc = "idle" /\ pc' = pc /\ work' = work
    BY DEF RollbackBlock
  <2> QED
    BY <2>1 DEF Inv, WorkInv
<1>16. TypeOK'
  <2>1. log' \subseteq Txs
    BY <1>9 DEF Inv, TypeOK
  <2>2. Len(blocks') <= MaxBlocks
    BY <1>1, TxPoolAssumption DEF Inv, TypeOK
  <2>3. UNCHANGED <<now, accepted, posting, gate, marks, pc, work>>
    BY DEF RollbackBlock, inputs
  <2> QED
    BY <1>1, <1>3, <1>4, <1>7, <2>1, <2>2, <2>3 DEF Inv, TypeOK
<1> QED
  BY <1>13, <1>14, <1>15, <1>16 DEF Inv

-----------------------------------------------------------------------------
(***************************************************************************)
(* The steps that leave the log and the blocks as they are.                *)
(***************************************************************************)

Works == [todo : SUBSET Txs, list : SUBSET Txs, counter : Nat, next : {"idle", "select"}]

\* What an action has to show when the log and the blocks stay as they are and
\* no status gets a new block id.
LEMMA SteadyStep ==
  ASSUME Inv, UNCHANGED <<log, blocks>>,
         \A t \in Txs : status'[t].block \in {0, status[t].block},
         status' \in [Txs -> Statuses],
         queue' \in [Txs -> {"none", "user", "gate"}],
         row' \in [Txs -> Rows],
         now' \in 0..MaxTime,
         accepted' \subseteq Txs, posting' \subseteq Txs \X {"api", "relay"}, gate' \subseteq Txs,
         marks' \subseteq Marks,
         pc' \in BadSteps \cup {"idle", "parse", "create", "dequeue", "select", "play"},
         work' \in Works,
         WorkInv'
  PROVE  Inv'
<1>1. TypeOK'
  BY DEF Inv, TypeOK, Works
<1>2. ChainInv' /\ StatusIsTrue'
  BY QuietStep
<1> QED
  BY <1>1, <1>2 DEF Inv

\* The conjuncts of TypeOK, one by one.
LEMMA Types ==
  ASSUME Inv
  PROVE  /\ now \in 0..MaxTime
         /\ queue \in [Txs -> {"none", "user", "gate"}]
         /\ row \in [Txs -> Rows]
         /\ status \in [Txs -> Statuses]
         /\ log \subseteq Txs
         /\ accepted \subseteq Txs /\ posting \subseteq Txs \X {"api", "relay"} /\ gate \subseteq Txs
         /\ marks \subseteq Marks
         /\ pc \in BadSteps \cup {"idle", "parse", "create", "dequeue", "select", "play"}
         /\ work \in Works
  BY DEF Inv, TypeOK, Works

\* When the holder of DBLock does not move, WorkInv holds on.
LEMMA WorkKept ==
  ASSUME Inv, UNCHANGED <<log, blocks, pc, work>>
  PROVE  WorkInv'
  BY DEF Inv, WorkInv

\* The lock is released.
LEMMA Released ==
  ASSUME Release
  PROVE  work' \in Works /\ pc' = "idle" /\ WorkInv'
<1>1. pc' = "idle" /\ work' = Idle /\ Idle.next = "idle"
  BY DEF Release, Idle
<1>2. Idle \in Works
  BY DEF Idle, Works
<1>3. WorkInv'
  BY <1>1 DEF WorkInv
<1> QED
  BY <1>1, <1>2, <1>3

\* The clock.
LEMMA TickStep == ASSUME Inv, Tick PROVE Inv'
<1>1. now' \in 0..MaxTime
  BY Types, TxPoolAssumption DEF Tick
<1>2. UNCHANGED <<queue, row, status, log, blocks, accepted, posting, gate, marks, pc, work>>
  BY DEF Tick, tables, inputs
<1> QED
  BY <1>1, <1>2, Types, WorkKept, SteadyStep

\* The API and the TCP server insert into queue_tx, at any moment.
LEMMA ArrivalStep == ASSUME Inv, Arrival PROVE Inv'
<1>1. ASSUME NEW t \in Txs, SendTx(t) PROVE Inv'
  <2>1. status' = [status EXCEPT ![t] = [NoStatus EXCEPT !.exists = TRUE]]
        /\ posting' = posting \cup {<<t, "api">>}
    BY <1>1 DEF SendTx
  <2>2. UNCHANGED <<now, queue, row, log, blocks, accepted, gate, marks, pc, work>>
    BY <1>1 DEF SendTx
  <2>3. status' \in [Txs -> Statuses]
    BY <2>1, Types, StatusOperations
  <2>5. \A u \in Txs : status'[u].block \in {0, status[u].block}
    BY <2>1, Types, StatusOperations
  <2>6. posting' \subseteq Txs \X {"api", "relay"}
    BY <2>1, Types
  <2> QED
    BY <2>2, <2>3, <2>5, <2>6, Types, WorkKept, SteadyStep
<1>2. ASSUME NEW t \in Txs, Type2(t) PROVE Inv'
  <2>1. queue' \in [Txs -> {"none", "user", "gate"}] /\ posting' \subseteq Txs \X {"api", "relay"}
    BY <1>2, Types DEF Type2
  <2>2. UNCHANGED <<now, row, status, log, blocks, accepted, gate, marks, pc, work>>
    BY <1>2 DEF Type2
  <2> QED
    BY <2>1, <2>2, Types, WorkKept, SteadyStep
<1>3. ASSUME NEW t \in Txs, NEW by \in {"api", "relay"}, CreateQueueTx(t, by) PROVE Inv'
  <2>1. queue' \in [Txs -> {"none", "user", "gate"}] /\ posting' \subseteq Txs \X {"api", "relay"}
        /\ accepted' \subseteq Txs
    BY <1>3, Types DEF CreateQueueTx
  <2>2. UNCHANGED <<now, row, status, log, blocks, gate, marks, pc, work>>
    BY <1>3 DEF CreateQueueTx
  <2> QED
    BY <2>1, <2>2, Types, WorkKept, SteadyStep
<1>4. ASSUME NEW announced \in SUBSET Txs, Type1(announced) PROVE Inv'
  <2>1. gate' \subseteq Txs
    BY <1>4 DEF Type1
  <2>2. UNCHANGED <<now, queue, row, status, log, blocks, accepted, posting, marks, pc, work>>
    BY <1>4 DEF Type1, tables
  <2> QED
    BY <2>1, <2>2, Types, WorkKept, SteadyStep
<1>5. ASSUME SaveNewTransactions PROVE Inv'
  <2>1. queue' \in [Txs -> {"none", "user", "gate"}] /\ gate' \subseteq Txs
    BY <1>5, Types DEF SaveNewTransactions
  <2>2. UNCHANGED <<now, row, status, log, blocks, accepted, posting, marks, pc, work>>
    BY <1>5 DEF SaveNewTransactions
  <2> QED
    BY <2>1, <2>2, Types, WorkKept, SteadyStep
<1> QED
  BY <1>1, <1>2, <1>3, <1>4, <1>5 DEF Arrival


\* A daemon takes DBLock and reads the queue.
LEMMA StartStep == ASSUME Inv, StartQueueParserTx \/ StartGenerator PROVE Inv'
<1>1. ASSUME StartQueueParserTx PROVE Inv'
  <2>1. row' \in [Txs -> Rows]
    BY <1>1, Types, RowOperations DEF StartQueueParserTx
  <2>2. PICK todo \in SUBSET Txs : work' = [Idle EXCEPT !.todo = todo]
    BY <1>1 DEF StartQueueParserTx, Unverified
  <2>3. work' \in Works /\ work'.list = {} /\ work'.next = "idle"
    BY <2>2 DEF Idle, Works
  <2>4. pc' = "parse" /\ UNCHANGED <<now, queue, status, log, blocks, accepted, posting, gate, marks>>
    BY <1>1 DEF StartQueueParserTx, inputs
  <2>5. WorkInv'
    BY <2>3, <2>4 DEF WorkInv
  <2> QED
    BY <2>1, <2>3, <2>4, <2>5, Types, SteadyStep
<1>2. ASSUME StartGenerator PROVE Inv'
  <2>1. PICK todo \in SUBSET Txs : work' = [Idle EXCEPT !.todo = todo, !.next = "select"]
    BY <1>2 DEF StartGenerator, Unverified
  <2>2. work' \in Works /\ work'.list = {} /\ work'.next = "select"
    BY <2>1 DEF Idle, Works
  <2>3. /\ pc' = "parse" /\ Len(blocks) < MaxBlocks
        /\ UNCHANGED <<now, queue, row, status, log, blocks, accepted, posting, gate, marks>>
    BY <1>2 DEF StartGenerator, inputs, tables
  <2>4. WorkInv'
    BY <2>2, <2>3 DEF WorkInv
  <2> QED
    BY <2>2, <2>3, <2>4, Types, SteadyStep
<1> QED
  BY <1>1, <1>2

\* The statements of ProcessQueueTransaction, one at a time.
LEMMA ParsingStep == ASSUME Inv, Parsing PROVE Inv'
<1>1. ASSUME NEW t \in Txs, ProcessQueueTransaction(t) PROVE Inv'
  <2> DEFINE result == IF t \in Malformed THEN "malformed" ELSE Check(t, now, TRUE)
  <2>1. pc = "parse" /\ UNCHANGED <<now, log, blocks, accepted, posting, gate, marks>>
    BY <1>1 DEF ProcessQueueTransaction, inputs
  <2>2. work.list = {} /\ (work.next = "select" => Len(blocks) < MaxBlocks)
    BY <2>1 DEF Inv, WorkInv
  <2>3. CASE /\ work' = [work EXCEPT !.todo = @ \ {t}]
             /\ UNCHANGED <<queue, row, status, pc>>
    <3>1. work' \in Works /\ work'.list = {} /\ work'.next = work.next
      BY <2>2, <2>3, Types DEF Works
    <3>2. WorkInv'
      BY <2>1, <2>2, <2>3, <3>1 DEF WorkInv
    <3> QED
      BY <2>1, <2>3, <3>1, <3>2, Types, SteadyStep
  <2>4. CASE /\ work' = [work EXCEPT !.list = {t}]
             /\ pc' = "mark"
             /\ UNCHANGED <<queue, row, status>>
    <3>1. work' \in Works /\ work'.next = work.next
      BY <2>4, Types DEF Works
    <3>2. WorkInv'
      BY <2>1, <2>2, <2>4, <3>1 DEF WorkInv
    <3> QED
      BY <2>1, <2>4, <3>1, <3>2, Types, SteadyStep DEF BadSteps
  <2>5. CASE /\ row' = [row EXCEPT ![t] = NoRow]
             /\ work' = [work EXCEPT !.list = {t}, !.counter = row[t].counter + 1]
             /\ pc' = "create"
             /\ UNCHANGED <<queue, status>>
    <3>1. row' \in [Txs -> Rows] /\ row[t] \in Rows
      BY <2>5, Types, RowOperations
    <3>2. row[t].counter + 1 \in Nat
      BY <3>1 DEF Rows
    <3>3. work' \in Works /\ work'.next = work.next
      <4>1. \A n \in Nat : /\ [work EXCEPT !.list = {t}, !.counter = n] \in Works
                           /\ [work EXCEPT !.list = {t}, !.counter = n].next = work.next
        BY Types DEF Works
      <4> QED
        BY <2>5, <3>2, <4>1
    <3>4. WorkInv'
      BY <2>1, <2>2, <2>5, <3>3 DEF WorkInv
    <3> QED
      BY <2>1, <2>5, <3>1, <3>3, <3>4, Types, SteadyStep
  <2> QED
    BY <1>1, <2>3, <2>4, <2>5 DEF ProcessQueueTransaction
<1>2. ASSUME CreateTransaction PROVE Inv'
  <2>1. PICK t \in work.list :
          row' = [row EXCEPT ![t] = [exists |-> TRUE, used |-> FALSE, verified |-> TRUE,
                                     attempt |-> 0, counter |-> work.counter]]
    BY <1>2 DEF CreateTransaction
  <2>2. [exists |-> TRUE, used |-> FALSE, verified |-> TRUE,
         attempt |-> 0, counter |-> work.counter] \in Rows
    BY Types DEF Rows, Works
  <2>3. row' \in [Txs -> Rows]
    BY <2>1, <2>2, Types
  <2>4. /\ pc = "create" /\ pc' = "dequeue"
        /\ UNCHANGED <<now, queue, status, log, blocks, accepted, posting, gate, marks, work>>
    BY <1>2 DEF CreateTransaction, inputs
  <2>5. WorkInv'
    BY <2>4 DEF Inv, WorkInv
  <2> QED
    BY <2>3, <2>4, <2>5, Types, SteadyStep
<1>3. ASSUME DeleteQueueTx PROVE Inv'
  <2>1. /\ pc = "dequeue" /\ pc' = "parse"
        /\ work' = [work EXCEPT !.todo = @ \ work.list, !.list = {}, !.counter = 0]
        /\ UNCHANGED <<now, row, status, log, blocks, accepted, posting, gate, marks>>
    BY <1>3 DEF DeleteQueueTx, inputs
  <2>2. queue' \in [Txs -> {"none", "user", "gate"}]
    BY <1>3, Types DEF DeleteQueueTx
  <2>3. work' \in Works /\ work'.list = {} /\ work'.next = work.next
    BY <2>1, Types DEF Works
  <2>4. WorkInv'
    BY <2>1, <2>3 DEF Inv, WorkInv
  <2> QED
    BY <2>1, <2>2, <2>3, <2>4, Types, SteadyStep
<1>4. ASSUME QueueProcessed PROVE Inv'
  <2>1. /\ pc = "parse" /\ work.list = {}
        /\ UNCHANGED <<now, queue, row, status, log, blocks, accepted, posting, gate>>
    BY <1>4 DEF QueueProcessed, tables, inputs, Inv, WorkInv
  <2>2. marks' \subseteq Marks
    <3>1. marks \subseteq Marks /\ marks' = { [m EXCEPT !.old = TRUE] : m \in marks }
      BY <1>4, Types DEF QueueProcessed
    <3>2. \A m \in Marks : [m EXCEPT !.old = TRUE] \in Marks
      BY DEF Marks
    <3> QED
      BY <3>1, <3>2
  <2>3. CASE Release
    BY <2>1, <2>2, <2>3, Released, Types, SteadyStep
  <2>4. CASE /\ work.next = "select" /\ pc' = "select"
             /\ \E trs \in SUBSET Txs : work' = [work EXCEPT !.todo = trs]
    <3>1. PICK trs \in SUBSET Txs : work' = [work EXCEPT !.todo = trs]
      BY <2>4
    <3>2. work' \in Works /\ work'.list = {} /\ work'.next = "select"
      BY <2>1, <2>4, <3>1, Types DEF Works
    <3>3. WorkInv'
      BY <2>1, <2>4, <3>2 DEF Inv, WorkInv
    <3> QED
      BY <2>1, <2>2, <2>4, <3>2, <3>3, Types, SteadyStep
  <2> QED
    BY <1>4, <2>3, <2>4 DEF QueueProcessed
<1>5. ASSUME RefuseTransaction PROVE Inv'
  <2>1. pc \in BadSteps /\ UNCHANGED <<now, log, blocks, accepted, posting, gate, marks>>
    BY <1>5 DEF RefuseTransaction, inputs
  <2>2. PICK t \in work.list : MarkTransactionBad(pc, t)
    BY <1>5 DEF RefuseTransaction
  <2>3. TypeOK /\ t \in Txs
    BY <2>2, Types DEF Inv, Works
  <2>4. CASE Release
    BY <2>1, <2>2, <2>3, <2>4, MarkBad, Released, Types, SteadyStep
  <2>5. CASE pc # "delete" /\ pc' = Following[pc] /\ UNCHANGED work
    <3>1. pc' \in BadSteps
      BY <2>1, <2>5 DEF BadSteps, Following
    <3>2. WorkInv'
      BY <2>1, <2>5, <3>1 DEF Inv, WorkInv, BadSteps
    <3> QED
      BY <2>1, <2>2, <2>3, <2>5, <3>1, <3>2, MarkBad, Types, SteadyStep
  <2> QED
    BY <1>5, <2>4, <2>5 DEF RefuseTransaction
<1> QED
  BY <1>1, <1>2, <1>3, <1>4, <1>5 DEF Parsing

\* One transaction of the loop of processTransactions: what is kept passed
\* Check, so it is not logged.
LEMMA SelectStep == ASSUME Inv, NEW t \in Txs, SelectTransaction(t) PROVE Inv'
<1>1. /\ pc = "select" /\ pc' = pc
      /\ UNCHANGED <<now, queue, row, status, log, blocks, accepted, posting, gate>>
  BY DEF SelectTransaction, tables, inputs
<1>2. work.list \cap log = {} /\ work.next = "select" /\ Len(blocks) < MaxBlocks
  BY <1>1 DEF Inv, WorkInv
<1>3. CASE /\ Check(t, now, FALSE) = "ok"
           /\ work' = [work EXCEPT !.todo = @ \ {t}, !.list = @ \cup {t}]
           /\ UNCHANGED marks
  <2>1. work' \in Works /\ work'.list = work.list \cup {t} /\ work'.next = work.next
    <3>1. work \in Works /\ work.todo \ {t} \in SUBSET Txs /\ work.list \cup {t} \in SUBSET Txs
      BY Types DEF Works
    <3>2. ASSUME NEW todo \in SUBSET Txs, NEW list \in SUBSET Txs
          PROVE  LET w == [work EXCEPT !.todo = todo, !.list = list]
                 IN  w \in Works /\ w.list = list /\ w.next = work.next
      BY <3>1 DEF Works
    <3> QED
      BY <1>3, <3>1, <3>2
  <2>2. t \notin log
    BY <1>3, CheckedIsFresh
  <2>3. WorkInv'
    BY <1>1, <1>2, <2>1, <2>2 DEF WorkInv
  <2> QED
    BY <1>1, <1>3, <2>1, <2>3, Types, SteadyStep
<1>4. CASE /\ \E kind \in {"attempt", "mark"} : marks' = Handed(kind, t)
           /\ work' = [work EXCEPT !.todo = @ \ {t}]
  <2>1. work' \in Works /\ work'.list = work.list /\ work'.next = work.next
    BY <1>4, Types DEF Works
  <2>2. marks' \subseteq Marks
    <3>1. PICK kind \in {"attempt", "mark"} : marks' = Handed(kind, t)
      BY <1>4
    <3>2. [kind |-> kind, tx |-> t, old |-> FALSE] \in Marks
      BY DEF Marks, BadSteps
    <3> QED
      BY <3>1, <3>2, Types DEF Handed
  <2>3. WorkInv'
    BY <1>1, <1>2, <2>1 DEF WorkInv
  <2> QED
    BY <1>1, <2>1, <2>2, <2>3, Types, SteadyStep
<1> QED
  BY <1>3, <1>4 DEF SelectTransaction

\* The steps of a selection, and the block that comes of it.
LEMMA GeneratingStep == ASSUME Inv, Generating PROVE Inv'
<1>1. ASSUME NEW t \in Txs, SelectTransaction(t) PROVE Inv'
  BY <1>1, SelectStep
<1>2. ASSUME SelectionDone PROVE Inv'
  <2>1. pc = "select" /\ UNCHANGED <<now, queue, row, status, log, blocks, accepted, posting, gate, marks>>
    BY <1>2 DEF SelectionDone, tables, inputs
  <2>2. CASE Release
    BY <2>1, <2>2, Released, Types, SteadyStep
  <2>3. CASE pc' = "play" /\ UNCHANGED work
    <3>1. WorkInv'
      BY <2>1, <2>3 DEF Inv, WorkInv
    <3> QED
      BY <2>1, <2>3, <3>1, Types, SteadyStep
  <2> QED
    BY <1>2, <2>2, <2>3 DEF SelectionDone
<1>3. ASSUME PlayGenerated PROVE Inv'
  <2>1. /\ pc = "play" /\ Release
        /\ UNCHANGED <<now, accepted, posting, gate, marks>>
    BY <1>3 DEF PlayGenerated, inputs
  <2>7. PICK txs \in SUBSET work.list, stopped \in SUBSET work.list :
           \E ok \in SUBSET txs : Play(txs, ok, stopped)
    BY <1>3 DEF PlayGenerated
  <2>2. PICK ok \in SUBSET txs : Play(txs, ok, stopped)
    BY <2>7
  <2>3. work.list \cap log = {} /\ Len(blocks) < MaxBlocks /\ work.list \subseteq Txs
    BY <2>1, Types DEF Inv, WorkInv, Works
  <2>4. /\ ChainInv' /\ StatusIsTrue'
        /\ queue' \in [Txs -> {"none", "user", "gate"}]
        /\ row' \in [Txs -> Rows]
        /\ status' \in [Txs -> Statuses]
        /\ log' \subseteq Txs
        /\ blocks' \in Seq(BlockRows) /\ Len(blocks') <= MaxBlocks
    <3>1. txs \in SUBSET Txs /\ txs \cap log = {}
      BY <2>2, <2>3
    <3> QED
      BY <2>2, <2>3, <3>1, PlayStep
  <2>5. TypeOK'
    BY <2>1, <2>4, Released, Types DEF TypeOK, Works
  <2> QED
    BY <2>1, <2>4, <2>5, Released DEF Inv
<1>4. ASSUME PlayNothing PROVE Inv'
  <2>1. /\ pc = "play" /\ pc' = "mark"
        /\ UNCHANGED <<now, queue, row, status, log, blocks, accepted, posting, gate, marks>>
    BY <1>4 DEF PlayNothing, tables, inputs
  <2>2. PICK t \in work.list : work' = [work EXCEPT !.list = {t}]
    BY <1>4 DEF PlayNothing
  <2>3. work' \in Works /\ work'.next = work.next
    BY <2>2, Types DEF Works
  <2>4. WorkInv'
    BY <2>1, <2>3 DEF Inv, WorkInv
  <2> QED
    BY <2>1, <2>3, <2>4, Types, SteadyStep DEF BadSteps
<1>5. ASSUME GenerationFails PROVE Inv'
  <2>1. Release /\ UNCHANGED <<now, queue, row, status, log, blocks, accepted, posting, gate, marks>>
    BY <1>5 DEF GenerationFails, tables, inputs
  <2> QED
    BY <2>1, Released, Types, SteadyStep
<1> QED
  BY <1>1, <1>2, <1>3, <1>4, <1>5 DEF Generating

\* A late mark of a selection, whoever holds DBLock by then.
LEMMA MarkStep == ASSUME Inv, NEW m \in marks, ApplyMark(m) PROVE Inv'
<1>1. m \in Marks /\ m.tx \in Txs
  BY Types DEF Marks
<1>2. marks' \subseteq Marks /\ UNCHANGED <<now, log, blocks, accepted, posting, gate, pc, work>>
  <2>1. ASSUME m.kind \in DOMAIN Following PROVE [m EXCEPT !.kind = Following[m.kind]] \in Marks
    <3>1. Following[m.kind] \in BadSteps
      BY <2>1 DEF Following, BadSteps
    <3> QED
      BY <1>1, <3>1 DEF Marks
  <2> QED
    BY <2>1, Types DEF ApplyMark, inputs
<1>3. CASE MarkTransactionBad(m.kind, m.tx)
  <2>1. TypeOK
    BY DEF Inv
  <2> QED
    BY <1>1, <1>2, <1>3, <2>1, MarkBad, WorkKept, Types, SteadyStep
<1>4. CASE row' = [row EXCEPT ![m.tx] = Increment(@)] /\ UNCHANGED <<queue, status>>
  <2>1. row' \in [Txs -> Rows]
    BY <1>1, <1>4, Types, RowOperations
  <2> QED
    BY <1>2, <1>4, <2>1, WorkKept, Types, SteadyStep
<1> QED
  BY <1>3, <1>4 DEF ApplyMark

\* A block of another node passes Block.Check and is played.
LEMMA ForeignStep == ASSUME Inv, PlayForeign PROVE Inv'
<1>1. /\ pc = "idle" /\ Len(blocks) < MaxBlocks
      /\ UNCHANGED <<now, accepted, posting, gate, marks, pc, work>>
  BY DEF PlayForeign, inputs
<1>2. PICK txs \in SUBSET (Txs \ Malformed), time \in 0..now :
        /\ \A t \in txs : Check(t, time, FALSE) = "ok"
        /\ \E ok \in SUBSET txs : Play(txs, ok, {})
  BY DEF PlayForeign
<1>3. PICK ok \in SUBSET txs : Play(txs, ok, {})
  BY <1>2
<1>4. txs \in SUBSET Txs /\ txs \cap log = {}
  BY <1>2, CheckedIsFresh
<1>5. /\ ChainInv' /\ StatusIsTrue'
      /\ queue' \in [Txs -> {"none", "user", "gate"}]
      /\ row' \in [Txs -> Rows]
      /\ status' \in [Txs -> Statuses]
      /\ log' \subseteq Txs
      /\ blocks' \in Seq(BlockRows) /\ Len(blocks') <= MaxBlocks
  BY <1>1, <1>3, <1>4, PlayStep
<1>6. TypeOK'
  BY <1>1, <1>5, Types DEF TypeOK, Works
<1>7. WorkInv'
  BY <1>1 DEF Inv, WorkInv
<1> QED
  BY <1>5, <1>6, <1>7 DEF Inv

\* The process dies and starts again.
LEMMA CrashStep == ASSUME Inv, Crash PROVE Inv'
<1>1. /\ Release /\ posting' = {} /\ gate' = {} /\ marks' = {}
      /\ UNCHANGED <<now, queue, row, status, log, blocks, accepted>>
  BY DEF Crash, tables
<1> QED
  BY <1>1, Released, Types, SteadyStep

-----------------------------------------------------------------------------
(***************************************************************************)
(* The theorems.                                                           *)
(***************************************************************************)

\* The inductive invariant holds of the empty tables.
LEMMA InitInv == Init => Inv
<1> SUFFICES ASSUME Init PROVE Inv
  OBVIOUS
<1>1. blocks = << >> /\ log = {} /\ work = Idle /\ pc = "idle"
  BY DEF Init
<1>2. TypeOK
  <2>1. Idle \in Works
    BY DEF Idle, Works
  <2>2. status \in [Txs -> Statuses]
    <3>1. NoStatus \in Statuses
      BY TxPoolAssumption DEF Statuses, NoStatus
    <3> QED
      BY <3>1 DEF Init
  <2>3. row \in [Txs -> Rows]
    <3>1. NoRow \in Rows
      BY DEF NoRow, Rows
    <3> QED
      BY <3>1 DEF Init
  <2>4. blocks \in Seq(BlockRows) /\ Len(blocks) <= MaxBlocks
    BY <1>1, TxPoolAssumption
  <2>5. now \in 0..MaxTime
    BY TxPoolAssumption DEF Init
  <2> QED
    BY <2>1, <2>2, <2>3, <2>4, <2>5 DEF Init, TypeOK, Works
<1>3. ChainInv
  BY <1>1 DEF ChainInv
<1>4. WorkInv
  BY <1>1 DEF WorkInv, Idle
<1>5. StatusIsTrue
  BY DEF Init, StatusIsTrue, NoStatus
<1> QED
  BY <1>2, <1>3, <1>4, <1>5 DEF Inv

\* Every step keeps the inductive invariant.
LEMMA NextInv == Inv /\ [Next]_vars => Inv'
<1> SUFFICES ASSUME Inv, [Next]_vars PROVE Inv'
  OBVIOUS
<1>1. CASE Next
  BY <1>1, TickStep, ArrivalStep, StartStep, ParsingStep, GeneratingStep, MarkStep,
     ForeignStep, RollbackStep, CrashStep DEF Next
<1>2. CASE UNCHANGED vars
  <2>1. UNCHANGED <<now, queue, row, status, log, blocks, accepted, posting, gate, marks, pc, work>>
    BY <1>2 DEF vars
  <2> QED
    BY <2>1, WorkKept, Types, SteadyStep
<1> QED
  BY <1>1, <1>2

\* The inductive invariant holds in every reachable state.
THEOREM InvHolds == Spec => []Inv
<1>1. Init => Inv
  BY InitInv
<1>2. Inv /\ [Next]_vars => Inv'
  BY NextInv
<1> QED
  BY <1>1, <1>2, PTL DEF Spec

\* The tables, the requests under way and the locals of the holder of DBLock
\* keep their types.
THEOREM TypeCorrect == Spec => []TypeOK
<1>1. Inv => TypeOK
  BY DEF Inv
<1> QED
  BY <1>1, InvHolds, PTL

\* log_transactions is exactly what is in effect on the chain, and nothing takes
\* effect twice (Block.Play, rollbackBlock).
THEOREM LogMatchesChain == Spec => []LogIsChain
<1>1. Inv => LogIsChain
  BY InvImplies
<1> QED
  BY <1>1, InvHolds, PTL

\* The generator never builds a block with a transaction that is in effect
\* (processTransactions).
THEOREM FreshSelection == Spec => []SelectionIsFresh
<1>1. Inv => SelectionIsFresh
  BY InvImplies
<1> QED
  BY <1>1, InvHolds, PTL

\* The block id of a status is the block where the transaction took effect
\* (SetTransactionStatusBlockMsg, rollbackBlock).
THEOREM StatusTrue == Spec => []StatusIsTrue
<1>1. Inv => StatusIsTrue
  BY DEF Inv
<1> QED
  BY <1>1, InvHolds, PTL

-----------------------------------------------------------------------------
(***************************************************************************)
(* Nothing is lost on a node that takes transactions from its users only   *)
(* and is left alone: every table a transaction is removed from finds it   *)
(* in the next one, or its failure in transactions_status.                 *)
(***************************************************************************)

\* The conditions of the theorem: no relayed or announced transaction replaces
\* a row, no limiter holds one back, no block is rolled back, the process does
\* not die, and a row that was verified once is not taken for a looped one.
OneRoute == ~Gate /\ ~Relay /\ ~Limited /\ ~Rollbacks /\ ~Crashes /\ LoopLimit >= 1

\* The failure, or the result, of a transaction is there for the API to read.
Told(t) == status[t].text # ""

\* The holder of DBLock, or a goroutine of a selection, is at a step for t.
Held(t, steps) == pc \in steps /\ t \in work.list
Marked(t, steps) == \E m \in marks : m.tx = t /\ m.kind \in steps

\* A transaction that some table, some request or some daemon knows of.
Known(t) ==
  \/ queue[t] # "none" \/ row[t].exists
  \/ t \in work.todo \/ t \in work.list \/ Marked(t, BadSteps)
  \/ <<t, "api">> \in posting \/ t \in accepted

\* What is said of one transaction: it has a status, its row is a verified one,
\* a used row is one whose end is recorded or about to be, and it is deleted
\* from the queue as bad only after its error is recorded.
TxInv(t) ==
  /\ queue[t] # "gate"
  /\ Known(t) => status[t].exists
  /\ row[t].counter <= 1
  /\ row[t].exists = row[t].verified
  /\ ~row[t].exists => ~row[t].used /\ row[t].counter = 0
  /\ Held(t, {"dequeue"}) => row[t].exists
  /\ Held(t, {"delete"}) \/ Marked(t, {"delete"}) => Told(t)
  /\ row[t].used => Told(t) \/ t \in log \/ Held(t, {"error"}) \/ Marked(t, {"error"})
  /\ t \in accepted => \/ Told(t) \/ t \in log
                       \/ queue[t] # "none" \/ row[t].exists \/ InHand(t)

\* What is said of the requests, the marks and the holder of DBLock.
HandInv ==
  /\ gate = {} /\ posting \subseteq Txs \X {"api"}
  /\ \A m \in marks : m.kind \in BadSteps
  /\ pc \in BadSteps \cup {"create", "dequeue"} => \E t \in Txs : work.list = {t}
  /\ pc = "create" => work.counter <= 1

LossInv == HandInv /\ \A t \in Txs : TxInv(t)

\* A transaction whose rows a step leaves alone, and that the step does not take
\* out of the hands of a daemon, stays as it is.
LEMMA LeftAlone ==
  ASSUME NEW t, TxInv(t),
         queue'[t] = queue[t], row'[t] = row[t], status'[t] = status[t],
         t \in log => t \in log', t \in accepted' => t \in accepted,
         Known(t)' => Known(t),
         Held(t, {"dequeue"})' => Held(t, {"dequeue"}),
         Held(t, {"delete"})' => Held(t, {"delete"}),
         Marked(t, {"delete"})' => Marked(t, {"delete"}),
         Held(t, {"error"}) => Held(t, {"error"})',
         Marked(t, {"error"}) => Marked(t, {"error"})',
         InHand(t) => InHand(t)'
  PROVE  TxInv(t)'
  BY DEF TxInv, Told

\* The same when neither the marks nor the holder of DBLock move.
LEMMA HandsStill ==
  ASSUME NEW t, TxInv(t), UNCHANGED <<marks, pc, work>>,
         queue'[t] = queue[t], row'[t] = row[t], status'[t] = status[t],
         t \in log => t \in log', t \in accepted' => t \in accepted,
         <<t, "api">> \in posting' => <<t, "api">> \in posting
  PROVE  TxInv(t)'
<1>1. /\ Known(t)' => Known(t)
      /\ \A s : Held(t, s)' <=> Held(t, s)
      /\ \A s : Marked(t, s)' <=> Marked(t, s)
      /\ InHand(t)' <=> InHand(t)
  BY DEF Known, Held, Marked, InHand
<1> QED
  BY <1>1, LeftAlone

\* The API writes the status before it inserts into queue_tx.
LEMMA ArrivalLoss == ASSUME OneRoute, Inv, LossInv, Arrival PROVE LossInv'
<1>1. ASSUME NEW t \in Txs, SendTx(t) PROVE LossInv'
  <2>1. /\ status' = [status EXCEPT ![t] = [NoStatus EXCEPT !.exists = TRUE]]
        /\ posting' = posting \cup {<<t, "api">>} /\ ~status[t].exists
        /\ UNCHANGED <<now, queue, row, log, blocks, accepted, gate, marks, pc, work>>
    BY <1>1 DEF SendTx
  <2>2. HandInv'
    BY <2>1 DEF LossInv, HandInv
  <2>3. ASSUME NEW u \in Txs, u # t PROVE TxInv(u)'
    <3>1. status'[u] = status[u] /\ (<<u, "api">> \in posting' => <<u, "api">> \in posting)
      BY <2>1, <2>3, Types
    <3> QED
      BY <2>1, <3>1, HandsStill DEF LossInv
  <2>4. TxInv(t)'
    <3>1. TxInv(t) /\ ~Known(t)
      BY <2>1 DEF LossInv, TxInv
    <3>2. status'[t].exists
      BY <2>1, Types DEF NoStatus
    <3>3. Marked(t, {"delete"})' => Marked(t, BadSteps)
      BY <2>1 DEF Marked, BadSteps
    <3> QED
      BY <2>1, <3>1, <3>2, <3>3 DEF TxInv, Known, Held
  <2> QED
    BY <2>2, <2>3, <2>4 DEF LossInv
<1>2. ASSUME NEW t \in Txs, Type2(t) PROVE LossInv'
  BY <1>2 DEF OneRoute, Type2
<1>3. ASSUME NEW t \in Txs, CreateQueueTx(t, "relay") PROVE LossInv'
  BY <1>3 DEF CreateQueueTx, LossInv, HandInv
<1>4. ASSUME NEW t \in Txs, CreateQueueTx(t, "api") PROVE LossInv'
  <2>1. /\ <<t, "api">> \in posting /\ posting' = posting \ {<<t, "api">>}
        /\ accepted' \in {accepted, accepted \cup {t}}
        /\ UNCHANGED <<now, row, status, log, blocks, gate, marks, pc, work>>
    BY <1>4 DEF CreateQueueTx
  <2>2. HandInv'
    BY <2>1 DEF LossInv, HandInv
  <2>3. ASSUME NEW u \in Txs, u # t PROVE TxInv(u)'
    <3>1. queue'[u] = queue[u]
      BY <1>4, <2>3, Types DEF CreateQueueTx
    <3> QED
      BY <2>1, <2>3, <3>1, HandsStill DEF LossInv
  <2>4. TxInv(t)'
    <3>1. TxInv(t) /\ status'[t].exists
      BY <2>1 DEF LossInv, TxInv, Known
    <3>2. queue'[t] \notin {"gate", "none"}
      BY <1>4, <3>1, Types DEF CreateQueueTx, TxInv
    <3>3. \A s : (Held(t, s)' <=> Held(t, s)) /\ (Marked(t, s)' <=> Marked(t, s))
      BY <2>1 DEF Held, Marked
    <3> QED
      BY <2>1, <3>1, <3>2, <3>3 DEF TxInv, Told
  <2> QED
    BY <2>2, <2>3, <2>4 DEF LossInv
<1>5. ASSUME NEW announced \in SUBSET Txs, Type1(announced) PROVE LossInv'
  BY <1>5 DEF OneRoute, Type1
<1>6. ASSUME SaveNewTransactions PROVE LossInv'
  BY <1>6 DEF SaveNewTransactions, LossInv, HandInv
<1> QED
  BY <1>1, <1>2, <1>3, <1>4, <1>5, <1>6 DEF Arrival

\* QueueParserTx and the generator take DBLock; no row looks like a looped one.
LEMMA StartLoss == ASSUME OneRoute, Inv, LossInv, StartQueueParserTx \/ StartGenerator PROVE LossInv'
<1>1. row' = row
  <2>1. CASE StartQueueParserTx
    <3>1. \A t \in Txs : row[t].counter <= 1 /\ row[t].counter \in Nat
      BY Types DEF LossInv, TxInv, Rows
    <3>2. \A t \in Txs : WithoutLooped(row[t]) = row[t]
      BY <3>1, TxPoolAssumption DEF WithoutLooped, OneRoute
    <3> QED
      BY <2>1, <3>2, Types DEF StartQueueParserTx
  <2>2. CASE StartGenerator
    BY <2>2 DEF StartGenerator, tables
  <2> QED
    BY <2>1, <2>2
<1>2. /\ pc = "idle" /\ pc' = "parse"
      /\ UNCHANGED <<queue, status, log, accepted, posting, gate, marks>>
  BY DEF StartQueueParserTx, StartGenerator, inputs, tables
<1>3. work'.todo = Unverified(queue, row) /\ work'.list = {}
  BY <1>1 DEF StartQueueParserTx, StartGenerator, Idle
<1>4. HandInv'
  BY <1>2 DEF LossInv, HandInv, BadSteps
<1>5. ASSUME NEW t \in Txs PROVE TxInv(t)'
  <2>1. /\ \A s : Marked(t, s)' <=> Marked(t, s)
        /\ \A s : ~Held(t, s)'
        /\ ~Held(t, {"error"})
    BY <1>2, <1>3 DEF Held, Marked
  <2>2. Known(t)' => Known(t)
    BY <1>1, <1>2, <1>3, <2>1 DEF Known, Unverified
  <2>3. InHand(t) => InHand(t)'
    BY <1>2 DEF InHand
  <2> QED
    BY <1>1, <1>2, <2>1, <2>2, <2>3, LeftAlone DEF LossInv
<1> QED
  BY <1>4, <1>5 DEF LossInv

\* The statements of MarkTransactionBad for t: the transaction is told of before
\* its row of the queue goes, and a row that goes as well was not verified.
LEMMA BadLoss ==
  ASSUME Inv, NEW step \in BadSteps, NEW t \in Txs, TxInv(t), status[t].exists,
         step = "delete" => Told(t), MarkTransactionBad(step, t)
  PROVE  /\ \A u \in Txs : u # t => queue'[u] = queue[u] /\ row'[u] = row[u] /\ status'[u] = status[u]
         /\ queue'[t] # "gate" /\ status'[t].exists
         /\ step # "delete" => queue'[t] = queue[t]
         /\ row'[t].exists = row[t].exists /\ row'[t].verified = row[t].verified
         /\ row'[t].counter = row[t].counter
         /\ row'[t].used => row[t].exists
         /\ step # "mark" => row'[t].used = row[t].used
         /\ Told(t) => Told(t)'
         /\ step # "mark" => Told(t)'
<1>1. queue \in [Txs -> {"none", "user", "gate"}] /\ row \in [Txs -> Rows] /\ status \in [Txs -> Statuses]
  BY Types
<1>2. row[t] \in Rows /\ status[t] \in Statuses
  BY <1>1
<1>3. CASE step = "mark"
  <2>1. row' = [row EXCEPT ![t] = Used(row[t])] /\ UNCHANGED <<queue, status>>
    BY <1>3 DEF MarkTransactionBad
  <2> QED
    BY <1>1, <1>2, <1>3, <2>1 DEF TxInv, Used, Told, Rows
<1>4. CASE step = "error"
  <2>1. status' = [status EXCEPT ![t] = Failed(status[t])] /\ UNCHANGED <<queue, row>>
    BY <1>4 DEF MarkTransactionBad, TxInv
  <2> QED
    BY <1>1, <1>2, <1>4, <2>1 DEF TxInv, Failed, Told, Statuses
<1>5. CASE step = "delete"
  <2>1. /\ queue' = [queue EXCEPT ![t] = "none"]
        /\ row' = [row EXCEPT ![t] = WithoutUnverified(row[t])] /\ UNCHANGED status
    BY <1>5 DEF MarkTransactionBad
  <2>2. row'[t] = row[t] \/ (~row[t].exists /\ row'[t] = NoRow)
    BY <1>1, <2>1 DEF WithoutUnverified, TxInv
  <2>3. /\ row'[t].exists = row[t].exists /\ row'[t].verified = row[t].verified
        /\ row'[t].counter = row[t].counter /\ row'[t].used = row[t].used
        /\ row'[t].used => row[t].exists
    <3>1. NoRow.exists = FALSE /\ NoRow.verified = FALSE /\ NoRow.counter = 0 /\ NoRow.used = FALSE
      BY DEF NoRow
    <3>2. row[t].exists \in BOOLEAN /\ row[t].verified \in BOOLEAN /\ row[t].used \in BOOLEAN
      BY <1>2 DEF Rows
    <3> QED
      BY <2>2, <3>1, <3>2 DEF TxInv
  <2>4. queue'[t] = "none" /\ Told(t)' /\ status'[t] = status[t]
    BY <1>1, <1>5, <2>1 DEF Told
  <2>5. \A u \in Txs : u # t => queue'[u] = queue[u] /\ row'[u] = row[u] /\ status'[u] = status[u]
    BY <1>1, <2>1
  <2> QED
    BY <1>5, <2>3, <2>4, <2>5
<1> QED
  BY <1>3, <1>4, <1>5 DEF BadSteps

\* The holder of DBLock marks a transaction bad.
LEMMA RefuseLoss == ASSUME OneRoute, Inv, LossInv, RefuseTransaction PROVE LossInv'
<1>1. /\ pc \in BadSteps
      /\ UNCHANGED <<now, log, blocks, accepted, posting, gate, marks>>
  BY DEF RefuseTransaction, inputs
<1>2. PICK t \in Txs : work.list = {t}
  BY <1>1 DEF LossInv, HandInv
<1>3. MarkTransactionBad(pc, t)
  BY <1>2 DEF RefuseTransaction
<1>4. TxInv(t) /\ status[t].exists /\ (pc = "delete" => Told(t))
  BY <1>2 DEF LossInv, TxInv, Known, Held
<1>5. \/ pc = "delete" /\ pc' = "idle" /\ work'.todo = {} /\ work'.list = {}
      \/ pc = "mark" /\ pc' = "error" /\ work' = work
      \/ pc = "error" /\ pc' = "delete" /\ work' = work
  BY <1>1 DEF RefuseTransaction, Release, Idle, BadSteps, Following
<1>6. HandInv'
  BY <1>1, <1>5 DEF LossInv, HandInv, BadSteps
<1>7. ASSUME NEW u \in Txs, u # t PROVE TxInv(u)'
  <2>1. queue'[u] = queue[u] /\ row'[u] = row[u] /\ status'[u] = status[u]
    BY <1>1, <1>3, <1>4, <1>7, BadLoss
  <2>2. /\ \A s : Marked(u, s)' <=> Marked(u, s)
        /\ \A s : ~Held(u, s)' /\ ~Held(u, s)
    BY <1>1, <1>2, <1>5, <1>7 DEF Held, Marked
  <2>3. Known(u)' => Known(u)
    BY <1>1, <1>2, <1>5, <1>7, <2>1, <2>2 DEF Known
  <2>4. InHand(u) => InHand(u)'
    BY <1>1, <1>2, <1>7 DEF InHand
  <2> QED
    BY <1>1, <2>1, <2>2, <2>3, <2>4, LeftAlone DEF LossInv
<1>8. TxInv(t)'
  <2>1. \A s : Marked(t, s)' <=> Marked(t, s)
    BY <1>1 DEF Marked
  <2>2. /\ queue'[t] # "gate" /\ status'[t].exists
        /\ row'[t].exists = row[t].exists /\ row'[t].verified = row[t].verified
        /\ row'[t].counter = row[t].counter
        /\ row'[t].used => row[t].exists
        /\ pc # "mark" => row'[t].used = row[t].used
        /\ Told(t) => Told(t)'
        /\ pc # "mark" => Told(t)'
    BY <1>1, <1>3, <1>4, BadLoss
  <2>3. ~Held(t, {"dequeue"})' /\ (Held(t, {"delete"})' => pc = "error")
    BY <1>5 DEF Held
  <2>4. pc = "mark" => Held(t, {"error"})' /\ InHand(t)'
    BY <1>2, <1>5 DEF Held, InHand
  <2> QED
    BY <1>1, <1>4, <2>1, <2>2, <2>3, <2>4 DEF TxInv
<1> QED
  BY <1>6, <1>7, <1>8 DEF LossInv

\* Every mark is of a transaction with a status.
LEMMA MarksKnown ==
  ASSUME Inv, LossInv, NEW m \in marks
  PROVE  m.tx \in Txs /\ m.kind \in BadSteps /\ status[m.tx].exists
<1>1. m.tx \in Txs /\ m.kind \in BadSteps
  BY Types DEF Marks, LossInv, HandInv
<1>2. Known(m.tx)
  BY <1>1 DEF Known, Marked
<1> QED
  BY <1>1, <1>2 DEF LossInv, TxInv

\* A step at which the holder of DBLock has nothing in hand, before and after;
\* it may hand a mark to a goroutine.
LEMMA EmptyHands ==
  ASSUME OneRoute, Inv, LossInv,
         pc \in {"parse", "select", "play", "idle"}, pc' \in {"parse", "select", "play", "idle"},
         UNCHANGED <<queue, row, status, log, accepted, posting, gate>>,
         \A t \in Txs : t \in work'.todo \/ t \in work'.list => status[t].exists,
         \A m \in marks : \E n \in marks' : n.tx = m.tx /\ n.kind = m.kind,
         \A n \in marks' :
           \/ n.kind = "mark" /\ status[n.tx].exists
           \/ \E m \in marks : m.tx = n.tx /\ m.kind = n.kind
  PROVE  LossInv'
<1>1. \A n \in marks' : n.kind \in BadSteps /\ status[n.tx].exists
  BY MarksKnown DEF BadSteps
<1>2. HandInv'
  BY <1>1 DEF LossInv, HandInv, BadSteps
<1>3. ASSUME NEW t \in Txs PROVE TxInv(t)'
  <2>1. /\ Marked(t, {"error"}) => Marked(t, {"error"})'
        /\ Marked(t, {"delete"})' => Marked(t, {"delete"})
        /\ \A s \in {"dequeue", "delete", "error"} : ~Held(t, {s})' /\ ~Held(t, {s})
    BY DEF Held, Marked
  <2>2. Known(t)' => status[t].exists
    <3>1. Marked(t, BadSteps)' => status[t].exists
      BY <1>1 DEF Marked
    <3> QED
      BY <3>1 DEF Known, LossInv, TxInv
  <2>3. InHand(t) => InHand(t)'
    BY DEF InHand
  <2> QED
    BY <2>1, <2>2, <2>3 DEF LossInv, TxInv, Told
<1> QED
  BY <1>2, <1>3 DEF LossInv

\* A transaction without a row is in the hands of the holder of DBLock.
LEMMA TakenUp ==
  ASSUME NEW t,
         row'[t].exists = FALSE, row'[t].verified = FALSE,
         row'[t].used = FALSE, row'[t].counter = 0,
         InHand(t)', ~Held(t, {"dequeue"})', ~Held(t, {"delete"})',
         queue'[t] # "gate", status'[t].exists, Marked(t, {"delete"})' => Told(t)'
  PROVE  TxInv(t)'
<1>1. row'[t].counter <= 1
  BY SMT
<1>2. row'[t].exists = row'[t].verified /\ ~row'[t].exists /\ ~row'[t].used
  BY Zenon
<1> QED
  BY <1>1, <1>2, Zenon DEF TxInv

\* ProcessQueueTransaction verifies one transaction of the queue.  A row of
\* transactions would be verified and found a duplicate, so the counter of the
\* new row is 1.
LEMMA ProcessLoss ==
  ASSUME OneRoute, Inv, LossInv, NEW t \in Txs, ProcessQueueTransaction(t) PROVE LossInv'
<1> DEFINE result == IF t \in Malformed THEN "malformed" ELSE Check(t, now, TRUE)
<1>1. /\ pc = "parse" /\ t \in work.todo /\ work \in Works
      /\ UNCHANGED <<log, accepted, posting, gate, marks>>
  BY Types DEF ProcessQueueTransaction, inputs
<1>2. work.list = {} /\ TxInv(t) /\ status[t].exists
  BY <1>1 DEF Inv, WorkInv, LossInv, TxInv, Known
<1>3. \A u \in Txs : u \in work.todo => status[u].exists
  BY DEF LossInv, TxInv, Known
<1>4. ASSUME NEW u \in Txs
      PROVE  /\ \A s : Marked(u, s)' <=> Marked(u, s)
             /\ \A s : ~Held(u, s)
             /\ InHand(u) => InHand(u)'
  BY <1>1, <1>2 DEF Held, Marked, InHand
<1>5. CASE /\ work' = [work EXCEPT !.todo = @ \ {t}]
           /\ UNCHANGED <<queue, row, status, pc>>
  <2>1. work'.todo \subseteq work.todo /\ work'.list = {}
    BY <1>1, <1>2, <1>5 DEF Works
  <2> QED
    BY <1>1, <1>3, <1>5, <2>1, EmptyHands
<1>6. CASE /\ work' = [work EXCEPT !.list = {t}]
           /\ pc' = "mark"
           /\ UNCHANGED <<queue, row, status>>
  <2>1. work'.todo = work.todo /\ work'.list = {t}
    BY <1>1, <1>6 DEF Works
  <2>2. HandInv'
    BY <1>1, <1>6, <2>1 DEF LossInv, HandInv
  <2>3. ASSUME NEW u \in Txs PROVE TxInv(u)'
    <3>1. Known(u)' => Known(u)
      BY <1>1, <1>4, <1>6, <2>1 DEF Known
    <3>2. ~Held(u, {"dequeue"})' /\ ~Held(u, {"delete"})'
      BY <1>6 DEF Held
    <3> QED
      BY <1>1, <1>4, <1>6, <3>1, <3>2, LeftAlone DEF LossInv
  <2> QED
    BY <2>2, <2>3 DEF LossInv
<1>7. CASE /\ result = "ok"
           /\ row' = [row EXCEPT ![t] = NoRow]
           /\ work' = [work EXCEPT !.list = {t}, !.counter = row[t].counter + 1]
           /\ pc' = "create"
           /\ UNCHANGED <<queue, status>>
  <2>1. work'.todo = work.todo /\ work'.list = {t} /\ work'.counter = row[t].counter + 1
    BY <1>1, <1>7 DEF Works
  <2>2. ~row[t].verified
    BY <1>7 DEF Check, CheckLogTx
  <2>3. ~row[t].exists /\ ~row[t].used /\ row[t].counter = 0
    BY <1>2, <2>2 DEF TxInv
  <2>4. HandInv'
    BY <1>1, <1>7, <2>1, <2>3 DEF LossInv, HandInv
  <2>5. ASSUME NEW u \in Txs, u # t PROVE TxInv(u)'
    <3>1. row'[u] = row[u] /\ ~(u \in work'.list)
      BY <1>7, <2>1, <2>5, Types
    <3>2. \A s : ~Held(u, s)'
      BY <3>1 DEF Held
    <3>3. Known(u)' => Known(u)
      BY <1>1, <1>4, <1>7, <2>1, <3>1 DEF Known
    <3> QED
      BY <1>1, <1>4, <1>7, <3>1, <3>2, <3>3, LeftAlone DEF LossInv
  <2>6. TxInv(t)'
    <3>1. /\ row'[t].exists = FALSE /\ row'[t].verified = FALSE
          /\ row'[t].used = FALSE /\ row'[t].counter = 0
      BY <1>7, Types DEF NoRow
    <3>3. queue'[t] # "gate" /\ status'[t].exists /\ (Marked(t, {"delete"})' => Told(t)')
      BY <1>2, <1>4, <1>7 DEF TxInv, Told
    <3>2. InHand(t)' /\ ~Held(t, {"dequeue"})' /\ ~Held(t, {"delete"})'
      BY <1>7, <2>1 DEF InHand, Held
    <3> QED
      BY <3>1, <3>2, <3>3, TakenUp
  <2> QED
    BY <2>4, <2>5, <2>6 DEF LossInv
<1> QED
  BY <1>5, <1>6, <1>7 DEF ProcessQueueTransaction

\* The verified row is inserted before the row of queue_tx is deleted.
LEMMA CreateLoss == ASSUME OneRoute, Inv, LossInv, CreateTransaction PROVE LossInv'
<1> DEFINE new == [exists |-> TRUE, used |-> FALSE, verified |-> TRUE,
                   attempt |-> 0, counter |-> work.counter]
<1>1. /\ pc = "create" /\ pc' = "dequeue"
      /\ UNCHANGED <<queue, status, log, accepted, posting, gate, marks, work>>
  BY DEF CreateTransaction, inputs
<1>2. PICK t \in Txs : work.list = {t}
  BY <1>1 DEF LossInv, HandInv
<1>3. row' = [row EXCEPT ![t] = new]
  BY <1>2 DEF CreateTransaction
<1>4. HandInv'
  BY <1>1, <1>2 DEF LossInv, HandInv
<1>5. ASSUME NEW u \in Txs, u # t PROVE TxInv(u)'
  <2>1. row'[u] = row[u]
    BY <1>3, <1>5, Types
  <2>2. \A s : (Marked(u, s)' <=> Marked(u, s)) /\ ~Held(u, s)' /\ ~Held(u, s)
    BY <1>1, <1>2, <1>5 DEF Held, Marked
  <2>3. Known(u)' => Known(u)
    BY <1>1, <2>1, <2>2 DEF Known
  <2>4. InHand(u) => InHand(u)'
    BY <1>1 DEF InHand
  <2> QED
    BY <1>1, <2>1, <2>2, <2>3, <2>4, LeftAlone DEF LossInv
<1>6. TxInv(t)'
  <2>1. row'[t] = new
    BY <1>3, Types
  <2>2. row'[t].exists = TRUE /\ row'[t].verified = TRUE /\ row'[t].used = FALSE
        /\ row'[t].counter = work.counter
    BY <2>1
  <2>3. work.counter <= 1 /\ status[t].exists /\ queue[t] # "gate"
    BY <1>1, <1>2 DEF LossInv, HandInv, TxInv, Known
  <2>4. (Marked(t, {"delete"})' <=> Marked(t, {"delete"})) /\ ~Held(t, {"delete"})'
    BY <1>1 DEF Marked, Held
  <2> QED
    BY <1>1, <2>2, <2>3, <2>4 DEF TxInv, Told, LossInv
<1> QED
  BY <1>4, <1>5, <1>6 DEF LossInv

\* The row of queue_tx is deleted when the transaction has a row.
LEMMA DequeueLoss == ASSUME OneRoute, Inv, LossInv, DeleteQueueTx PROVE LossInv'
<1>1. /\ pc = "dequeue" /\ pc' = "parse" /\ work \in Works
      /\ queue' = [t \in Txs |-> IF t \in work.list THEN "none" ELSE queue[t]]
      /\ UNCHANGED <<row, status, log, accepted, posting, gate, marks>>
  BY Types DEF DeleteQueueTx, inputs
<1>2. work'.todo \subseteq work.todo /\ work'.list = {}
  BY <1>1 DEF DeleteQueueTx, Works
<1>3. HandInv'
  BY <1>1 DEF LossInv, HandInv, BadSteps
<1>4. ASSUME NEW u \in Txs PROVE TxInv(u)'
  <2>1. \A s : (Marked(u, s)' <=> Marked(u, s)) /\ ~Held(u, s)'
    BY <1>1, <1>2 DEF Held, Marked
  <2>2. CASE u \in work.list
    <3>1. row[u].exists /\ queue'[u] = "none" /\ status[u].exists
      BY <1>1, <2>2 DEF LossInv, TxInv, Known, Held
    <3>2. ~Held(u, {"error"})
      BY <1>1 DEF Held
    <3> QED
      BY <1>1, <2>1, <3>1, <3>2 DEF LossInv, TxInv, Told
  <2>3. CASE u \notin work.list
    <3>1. queue'[u] = queue[u] /\ \A s : ~Held(u, s)
      BY <1>1, <2>3 DEF Held
    <3>2. (Known(u)' => Known(u)) /\ (InHand(u) => InHand(u)')
      BY <1>1, <1>2, <2>1, <2>3, <3>1 DEF Known, InHand
    <3> QED
      BY <1>1, <2>1, <3>1, <3>2, LeftAlone DEF LossInv
  <2> QED
    BY <2>2, <2>3
<1> QED
  BY <1>3, <1>4 DEF LossInv

\* The queue is verified; the goroutines of the last selection are old now.
LEMMA ProcessedLoss == ASSUME OneRoute, Inv, LossInv, QueueProcessed PROVE LossInv'
<1>1. /\ pc = "parse" /\ pc' \in {"idle", "select"} /\ work.list = {} /\ work \in Works
      /\ UNCHANGED <<queue, row, status, log, accepted, posting, gate>>
  BY Types DEF QueueProcessed, Release, tables, inputs, Inv, WorkInv
<1>2. work'.list = {} /\ \A t \in work'.todo : t \in Txs => row[t].exists
  <2>1. CASE Release
    BY <2>1 DEF Release, Idle
  <2>2. CASE \E trs \in SUBSET { t \in Txs : row[t].exists /\ ~row[t].used } :
               work' = [work EXCEPT !.todo = trs]
    BY <1>1, <2>2 DEF Works
  <2> QED
    BY <2>1, <2>2 DEF QueueProcessed
<1>3. \A t \in Txs : row[t].exists => status[t].exists
  BY DEF LossInv, TxInv, Known
<1>4. /\ \A m \in marks : \E n \in marks' : n.tx = m.tx /\ n.kind = m.kind
      /\ \A n \in marks' : \E m \in marks : m.tx = n.tx /\ m.kind = n.kind
  <2>1. marks \subseteq Marks /\ marks' = { [m EXCEPT !.old = TRUE] : m \in marks }
    BY Types DEF QueueProcessed
  <2>2. \A m \in Marks : [m EXCEPT !.old = TRUE].tx = m.tx /\ [m EXCEPT !.old = TRUE].kind = m.kind
    BY DEF Marks
  <2>3. ASSUME NEW m \in marks PROVE \E n \in marks' : n.tx = m.tx /\ n.kind = m.kind
    <3>1. [m EXCEPT !.old = TRUE] \in marks' /\ m \in Marks
      BY <2>1
    <3> QED
      BY <2>2, <3>1, Zenon
  <2>4. ASSUME NEW n \in marks' PROVE \E m \in marks : m.tx = n.tx /\ m.kind = n.kind
    <3>1. PICK m \in marks : n = [m EXCEPT !.old = TRUE]
      BY <2>1
    <3>2. m \in Marks
      BY <2>1
    <3> QED
      BY <2>2, <3>1, <3>2, Zenon
  <2> QED
    BY <2>3, <2>4
<1> QED
  BY <1>1, <1>2, <1>3, <1>4, EmptyHands

\* One transaction of the loop of processTransactions: it is kept, or its mark
\* is handed to a goroutine.
LEMMA SelectLoss == ASSUME OneRoute, Inv, LossInv, NEW t \in Txs, SelectTransaction(t) PROVE LossInv'
<1>1. /\ pc = "select" /\ pc' = pc /\ t \in work.todo /\ work \in Works
      /\ UNCHANGED <<queue, row, status, log, accepted, posting, gate>>
  BY Types DEF SelectTransaction, tables, inputs
<1>2. \A u \in Txs : u \in work.todo \/ u \in work.list => status[u].exists
  BY DEF LossInv, TxInv, Known
<1>3. work'.todo \subseteq work.todo /\ work'.list \subseteq work.list \cup {t}
  <2>1. CASE work' = [work EXCEPT !.todo = @ \ {t}, !.list = @ \cup {t}]
    <3>1. \A todo, list : [work EXCEPT !.todo = todo, !.list = list].todo = todo
                          /\ [work EXCEPT !.todo = todo, !.list = list].list = list
      BY <1>1 DEF Works
    <3> QED
      BY <2>1, <3>1
  <2>2. CASE work' = [work EXCEPT !.todo = @ \ {t}]
    BY <1>1, <2>2 DEF Works
  <2> QED
    BY <2>1, <2>2 DEF SelectTransaction
<1>4. marks' = marks \/ marks' = marks \cup {[kind |-> "mark", tx |-> t, old |-> FALSE]}
  BY DEF SelectTransaction, OneRoute, Handed
<1>5. /\ \A m \in marks : \E n \in marks' : n.tx = m.tx /\ n.kind = m.kind
      /\ \A n \in marks' : \/ n.kind = "mark" /\ status[n.tx].exists
                           \/ \E m \in marks : m.tx = n.tx /\ m.kind = n.kind
  BY <1>1, <1>2, <1>4
<1>6. \A u \in Txs : u \in work'.todo \/ u \in work'.list => status[u].exists
  BY <1>1, <1>2, <1>3
<1> QED
  BY <1>1, <1>5, <1>6, EmptyHands

\* A late mark, whoever holds DBLock by then.
LEMMA MarkLoss == ASSUME OneRoute, Inv, LossInv, NEW m \in marks, ApplyMark(m) PROVE LossInv'
<1>1. m.tx \in Txs /\ m.kind \in BadSteps /\ status[m.tx].exists /\ TxInv(m.tx) /\ m \in Marks
  BY MarksKnown, Types DEF LossInv
<1>2. m.kind = "delete" => Told(m.tx)
  BY <1>1 DEF TxInv, Marked
<1>3. MarkTransactionBad(m.kind, m.tx) /\ UNCHANGED <<log, accepted, posting, gate, pc, work>>
  BY <1>1 DEF ApplyMark, inputs, BadSteps
<1>4. /\ \A n \in marks : n # m => n \in marks'
      /\ \A n \in marks' : n \in marks \/ /\ m.kind # "delete" /\ n.tx = m.tx
                                          /\ n.kind = Following[m.kind]
      /\ m.kind # "delete" => \E n \in marks' : n.tx = m.tx /\ n.kind = Following[m.kind]
  <2>1. DOMAIN Following = {"mark", "error"}
    BY DEF Following
  <2>2. \A k : [m EXCEPT !.kind = k].tx = m.tx /\ [m EXCEPT !.kind = k].kind = k
    BY <1>1 DEF Marks
  <2> DEFINE next == [m EXCEPT !.kind = Following[m.kind]]
  <2>3. next.tx = m.tx /\ next.kind = Following[m.kind]
    BY <2>2
  <2>4. marks' = (marks \ {m}) \cup (IF m.kind \in DOMAIN Following THEN {next} ELSE {})
    BY DEF ApplyMark
  <2>5. m.kind \in DOMAIN Following <=> m.kind # "delete"
    BY <1>1, <2>1 DEF BadSteps
  <2> HIDE DEF next
  <2> QED
    BY <2>3, <2>4, <2>5
<1>5. Following["mark"] = "error" /\ Following["error"] = "delete"
  BY DEF Following
<1>6. HandInv'
  BY <1>1, <1>3, <1>4, <1>5 DEF LossInv, HandInv, BadSteps
<1>7. ASSUME NEW u \in Txs, u # m.tx PROVE TxInv(u)'
  <2>1. queue'[u] = queue[u] /\ row'[u] = row[u] /\ status'[u] = status[u]
    BY <1>1, <1>2, <1>3, <1>7, BadLoss
  <2>2. /\ \A s : Marked(u, s)' <=> Marked(u, s)
        /\ \A s : Held(u, s)' <=> Held(u, s)
    BY <1>3, <1>4, <1>7 DEF Held, Marked
  <2>3. (Known(u)' => Known(u)) /\ (InHand(u) => InHand(u)')
    BY <1>3, <1>4, <1>7, <2>1, <2>2 DEF Known, InHand
  <2> QED
    BY <1>3, <2>1, <2>2, <2>3, LeftAlone DEF LossInv
<1>8. TxInv(m.tx)'
  <2> DEFINE t == m.tx
  <2>1. /\ queue'[t] # "gate" /\ status'[t].exists
        /\ m.kind # "delete" => queue'[t] = queue[t]
        /\ row'[t].exists = row[t].exists /\ row'[t].verified = row[t].verified
        /\ row'[t].counter = row[t].counter
        /\ row'[t].used => row[t].exists
        /\ m.kind # "mark" => row'[t].used = row[t].used
        /\ Told(t) => Told(t)'
        /\ m.kind # "mark" => Told(t)'
    BY <1>1, <1>2, <1>3, BadLoss
  <2>2. \A s : Held(t, s)' <=> Held(t, s)
    BY <1>3 DEF Held
  <2>3. m.kind = "mark" => Marked(t, {"error"})' /\ InHand(t)'
    BY <1>4, <1>5 DEF Marked, InHand
  <2>4. Marked(t, {"delete"})' => Told(t)'
    <3>1. CASE m.kind = "mark"
      <4>1. Marked(t, {"delete"})' => Marked(t, {"delete"})
        BY <1>4, <1>5, <3>1 DEF Marked
      <4> QED
        BY <1>1, <2>1, <4>1 DEF TxInv
    <3>2. CASE m.kind # "mark"
      BY <2>1, <3>2
    <3> QED
      BY <3>1, <3>2
  <2> HIDE DEF t
  <2>5. TxInv(t) /\ t = m.tx
    BY <1>1 DEF t
  <2>6. TxInv(t)'
    BY <1>3, <2>1, <2>2, <2>3, <2>4, <2>5 DEF TxInv
  <2> QED
    BY <2>6 DEF t
<1> QED
  BY <1>6, <1>7, <1>8 DEF LossInv

\* A row as this node makes them: it was verified once.
OneWay(r) ==
  /\ r.counter <= 1
  /\ r.exists = r.verified
  /\ ~r.exists => ~r.used /\ r.counter = 0

\* What Block.Play does to a row leaves it such a row.
LEMMA OneWayRows ==
  ASSUME NEW r \in Rows, OneWay(r)
  PROVE  OneWay(Used(r)) /\ OneWay(Increment(r)) /\ OneWay(WithoutUsed(r))
<1>1. OneWay(Used(r))
  BY DEF OneWay, Used, Rows
<1>2. OneWay(Increment(r))
  <2>1. ASSUME NEW n, NEW u PROVE /\ [r EXCEPT !.attempt = n, !.used = u].counter = r.counter
                                  /\ [r EXCEPT !.attempt = n, !.used = u].exists = r.exists
                                  /\ [r EXCEPT !.attempt = n, !.used = u].verified = r.verified
    BY DEF Rows
  <2>2. CASE r.exists
    <3> DEFINE q == [r EXCEPT !.attempt = @ + 1, !.used = (r.attempt >= MaxAttempt - 1)]
    <3>1. Increment(r) = q
      BY <2>2 DEF Increment
    <3>2. q.counter = r.counter /\ q.exists = r.exists /\ q.verified = r.verified
      BY <2>1, Zenon
    <3> HIDE DEF q
    <3> QED
      BY <2>2, <3>1, <3>2, Zenon DEF OneWay
  <2>3. CASE ~r.exists
    BY <2>3 DEF Increment
  <2> QED
    BY <2>2, <2>3
<1>3. OneWay(WithoutUsed(r))
  <2>1. NoRow.exists = FALSE /\ NoRow.verified = FALSE /\ NoRow.used = FALSE /\ NoRow.counter = 0
    BY DEF NoRow
  <2>2. NoRow.counter <= 1
    BY <2>1, SMT
  <2>3. OneWay(NoRow)
    BY <2>1, <2>2, Zenon DEF OneWay
  <2> QED
    BY <2>3 DEF WithoutUsed
<1> QED
  BY <1>1, <1>2, <1>3

\* A block is played: what is in effect is logged, what failed is told of, and
\* the used rows that go were told of or are being told of.
LEMMA PlayLoss ==
  ASSUME Inv, LossInv, pc \in {"idle", "play"}, pc' = "idle",
         NEW txs \in SUBSET Txs, NEW ok \in SUBSET txs, Play(txs, ok, {}),
         UNCHANGED <<accepted, posting, gate, marks>>,
         work' = work \/ (work'.todo = {} /\ work'.list = {})
  PROVE  LossInv'
<1>1. HandInv'
  BY DEF LossInv, HandInv, BadSteps
<1>2. ASSUME NEW t \in Txs PROVE TxInv(t)'
  <2>1. TxInv(t) /\ row[t] \in Rows /\ status[t] \in Statuses
    BY Types DEF LossInv
  <2>2. /\ row'[t] = PlayedRow(t, txs, ok, {})
        /\ status'[t] = PlayedStatus(t, txs, ok)
        /\ queue'[t] = (IF t \in txs \ ok THEN "none" ELSE queue[t])
        /\ log' = log \cup ok
    BY DEF Play
  <2>3. /\ \A s : Marked(t, s)' <=> Marked(t, s)
        /\ ~Held(t, {"dequeue"})' /\ ~Held(t, {"delete"})' /\ ~Held(t, {"error"})'
        /\ ~Held(t, {"error"})
        /\ InHand(t) => InHand(t)'
        /\ Marked(t, {"error"}) => InHand(t)'
    BY DEF Held, Marked, InHand
  <2>4. /\ status'[t].exists = status[t].exists
        /\ Told(t) => Told(t)'
        /\ t \in txs \ ok /\ status[t].exists => Told(t)'
    BY <2>1, <2>2 DEF PlayedStatus, Failed, Told, TxInv, Statuses
  <2>5. row'[t].exists => row[t].exists
    BY <2>1, <2>2 DEF PlayedRow, WithoutUsed, Used, Increment, NoRow, Rows
  <2>6. Known(t)' => Known(t)
    BY <2>2, <2>3, <2>5 DEF Known
  <2>7. /\ row'[t].counter <= 1
        /\ row'[t].exists = row'[t].verified
        /\ ~row'[t].exists => ~row'[t].used /\ row'[t].counter = 0
    <3>1. OneWay(row[t])
      BY <2>1 DEF TxInv, OneWay
    <3>2. OneWay(PlayedRow(t, txs, ok, {}))
      BY <2>1, <3>1, OneWayRows, RowOperations DEF PlayedRow
    <3> QED
      BY <2>2, <3>2 DEF OneWay
  <2>8. row'[t].used => row'[t].exists /\ (t \in txs \/ row[t].used)
    BY <2>1, <2>2 DEF PlayedRow, WithoutUsed, Used, Increment, NoRow, Rows, TxInv
  <2>9. row[t].exists => row'[t].exists \/ row[t].used
    BY <2>1, <2>2 DEF PlayedRow, WithoutUsed, Used, Increment, NoRow, Rows
  <2>10. row'[t].used => Told(t)' \/ t \in log' \/ Marked(t, {"error"})'
    BY <2>1, <2>2, <2>3, <2>4, <2>5, <2>8 DEF TxInv, Known
  <2>11. t \in accepted' => \/ Told(t)' \/ t \in log'
                            \/ queue'[t] # "none" \/ row'[t].exists \/ InHand(t)'
    BY <2>1, <2>2, <2>3, <2>4, <2>9 DEF TxInv, Known
  <2>12. queue'[t] # "gate" /\ (Known(t)' => status'[t].exists)
         /\ (Marked(t, {"delete"})' => Told(t)')
    BY <2>1, <2>2, <2>3, <2>4, <2>6 DEF TxInv
  <2> QED
    BY <2>3, <2>7, <2>10, <2>11, <2>12 DEF TxInv
<1> QED
  BY <1>1, <1>2 DEF LossInv

\* The rest of a selection, and the block that comes of it.
LEMMA GeneratingLoss == ASSUME OneRoute, Inv, LossInv, Generating PROVE LossInv'
<1>1. CASE \E t \in Txs : SelectTransaction(t)
  BY <1>1, SelectLoss
<1>2. CASE SelectionDone \/ GenerationFails
  <2>1. /\ pc \in {"select", "play"} /\ pc' \in {"idle", "play"}
        /\ UNCHANGED <<queue, row, status, log, accepted, posting, gate, marks>>
    BY <1>2 DEF SelectionDone, GenerationFails, Release, tables, inputs
  <2>2. work' = work \/ (work'.todo = {} /\ work'.list = {})
    BY <1>2 DEF SelectionDone, GenerationFails, Release, Idle
  <2>3. \A t \in Txs : t \in work'.todo \/ t \in work'.list => status[t].exists
    BY <2>2 DEF LossInv, TxInv, Known
  <2> QED
    BY <2>1, <2>3, EmptyHands
<1>3. CASE PlayGenerated
  <2>1. /\ pc = "play" /\ pc' = "idle" /\ work'.todo = {} /\ work'.list = {}
        /\ UNCHANGED <<accepted, posting, gate, marks>>
    BY <1>3 DEF PlayGenerated, Release, Idle, inputs
  <2>2. PICK ok \in SUBSET work.list : Play(work.list, ok, {})
    BY <1>3 DEF PlayGenerated, OneRoute
  <2>3. work.list \in SUBSET Txs
    BY Types DEF Works
  <2> QED
    BY <2>1, <2>2, <2>3, PlayLoss
<1>4. CASE PlayNothing
  BY <1>4 DEF PlayNothing, OneRoute
<1> QED
  BY <1>1, <1>2, <1>3, <1>4 DEF Generating

\* A block of another node is played between two iterations.
LEMMA ForeignLoss == ASSUME OneRoute, Inv, LossInv, PlayForeign PROVE LossInv'
<1>1. /\ pc = "idle" /\ pc' = "idle" /\ UNCHANGED <<accepted, posting, gate, marks, work>>
  BY DEF PlayForeign, inputs
<1>2. PICK txs \in SUBSET (Txs \ Malformed) : \E ok \in SUBSET txs : Play(txs, ok, {})
  BY DEF PlayForeign
<1>3. PICK ok \in SUBSET txs : Play(txs, ok, {})
  BY <1>2
<1>4. txs \in SUBSET Txs
  BY <1>2
<1> QED
  BY <1>1, <1>3, <1>4, PlayLoss

\* Every step keeps what is said of the way of the transactions.
LEMMA NextLoss == OneRoute /\ Inv /\ LossInv /\ [Next]_vars => LossInv'
<1> SUFFICES ASSUME OneRoute, Inv, LossInv, [Next]_vars PROVE LossInv'
  OBVIOUS
<1>1. ASSUME Tick \/ UNCHANGED vars PROVE LossInv'
  <2>1. UNCHANGED <<queue, row, status, log, accepted, posting, gate, marks, pc, work>>
    BY <1>1 DEF Tick, vars, tables, inputs
  <2>2. HandInv'
    BY <2>1 DEF LossInv, HandInv
  <2> QED
    BY <2>1, <2>2, HandsStill DEF LossInv
<1>2. ASSUME Parsing PROVE LossInv'
  BY <1>2, ProcessLoss, RefuseLoss, CreateLoss, DequeueLoss, ProcessedLoss DEF Parsing
<1>3. ASSUME RollbackBlock \/ Crash PROVE LossInv'
  BY <1>3 DEF RollbackBlock, Crash, OneRoute
<1> QED
  BY <1>1, <1>2, <1>3, ArrivalLoss, StartLoss, GeneratingLoss, MarkLoss, ForeignLoss DEF Next

\* The tables are empty at first.
LEMMA InitLoss == Init => LossInv
<1> SUFFICES ASSUME Init PROVE LossInv
  OBVIOUS
<1>1. HandInv
  BY DEF Init, HandInv, BadSteps
<1>2. ASSUME NEW t \in Txs PROVE TxInv(t)
  <2>1. /\ row[t].exists = FALSE /\ row[t].verified = FALSE /\ row[t].used = FALSE
        /\ row[t].counter = 0 /\ queue[t] = "none"
    BY DEF Init, NoRow
  <2>2. row[t].counter <= 1
    BY <2>1, SMT
  <2>3. t \notin accepted /\ t \notin work.todo /\ t \notin work.list /\ posting = {}
    BY DEF Init, Idle
  <2>4. \A s : ~Marked(t, s) /\ ~Held(t, s)
    BY <2>3 DEF Init, Marked, Held
  <2>5. ~Known(t)
    BY <2>1, <2>3, <2>4 DEF Known
  <2>6. row[t].exists = row[t].verified /\ ~row[t].exists /\ ~row[t].used
    BY <2>1, Zenon
  <2>7. queue[t] # "gate"
    BY <2>1
  <2> QED
    BY <2>1, <2>2, <2>3, <2>4, <2>5, <2>6, <2>7, Zenon DEF TxInv
<1> QED
  BY <1>1, <1>2 DEF LossInv

\* A transaction that the API accepted is never lost in silence by a node that is
\* left alone (SendTx, ProcessQueueTransaction, MarkTransactionBad, Block.Play):
\* however late the marks of its selections are, and whichever blocks of other
\* nodes come between.
THEOREM NothingLost == OneRoute /\ Spec => []NoSilentLoss
<1>1. Init => LossInv
  BY InitLoss
<1>2. OneRoute /\ Inv /\ LossInv /\ [Next]_vars => LossInv'
  BY NextLoss
<1>3. Inv /\ LossInv => NoSilentLoss
  <2> SUFFICES ASSUME Inv, LossInv, NEW t \in accepted,
                      status[t] = [exists |-> TRUE, block |-> 0, text |-> ""]
               PROVE  queue[t] # "none" \/ row[t].exists \/ InHand(t) \/ t \in log
    BY DEF NoSilentLoss
  <2>1. ~Told(t)
    <3>1. status[t].text = [exists |-> TRUE, block |-> 0, text |-> ""].text
      BY Zenon
    <3> QED
      BY <3>1 DEF Told
  <2>2. TxInv(t)
    BY Types DEF LossInv
  <2> QED
    BY <2>1, <2>2 DEF TxInv
<1>4. ASSUME OneRoute PROVE Spec => []NoSilentLoss
  BY <1>1, <1>2, <1>3, <1>4, InvHolds, PTL DEF Spec
<1> QED
  BY <1>4
=============================================================================
