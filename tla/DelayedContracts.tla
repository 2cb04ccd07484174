-------------------------- MODULE DelayedContracts --------------------------
(***************************************************************************)
(* Contracts that the nodes call by themselves at certain blocks           *)
(* (packages/daemons/block_generator_tx.go and the contract                *)
(* CallDelayedContract of the first ecosystem).  Whoever generates the     *)
(* block that a row waits for makes a transaction of its own; it may be    *)
(* left over by the limits of the block, and is then sent to others, or    *)
(* played later.  The nodes have one chain here; see ChainSync for how     *)
(* they come to it.                                                        *)
(***************************************************************************)
EXTENDS Integers, Sequences, FiniteSets

CONSTANTS
  Makers,     \* the nodes that generate blocks
  Delayed,    \* the rows of 1_delayed_contracts
  Fallible,   \* those of them whose contract may fail
  FirstBlock, \* block_id of a row at first
  EveryBlock, \* its every_block
  CallLimit,  \* its limit, 0 for none
  MaxHeight,  \* bound on the chain
  MaxMade,    \* bound on the transactions that are made
  MaxUndone   \* bound on the blocks that are undone

VARIABLES
  delayed,    \* block_id and counter of the rows
  chainOf,    \* blocks: transactions, those of them that were not in error, the rows before them
  unused,     \* the table transactions of a node: rows with used = 0
  used,       \* and with used = 1
  madeTxs,    \* transactions made so far
  undone,     \* blocks undone so far
  given       \* history: rows whose call failed, or whose transaction was deleted before its block was undone

delayedVars == <<delayed, chainOf, unused, used, madeTxs, undone, given>>

Height == Len(chainOf)
Logged == UNION {chainOf[b].calls : b \in 1..Height}

Init ==
  /\ delayed = [d \in Delayed |-> [block_id |-> FirstBlock[d], counter |-> 0]]
  /\ chainOf = <<>>
  /\ unused = [n \in Makers |-> {}] /\ used = [n \in Makers |-> {}]
  /\ madeTxs = 0 /\ undone = 0 /\ given = {}

-----------------------------------------------------------------------------
\* A slip: the rows that wait for the block before.
DueBefore(blockID) == {d \in Delayed : delayed[d].block_id = blockID - 1}

GetAllDelayedContractsForBlockID(blockID) == {d \in Delayed : delayed[d].block_id = blockID}

\* RunForBlockID and createTx: the hash has the second, the row and the node.
RunForBlockID(n, blockID) == {[id |-> d, by |-> n, no |-> madeTxs + 1] : d \in GetAllDelayedContractsForBlockID(blockID)}

\* CallDelayedContract
Conditions(d, block) ==
  /\ block >= delayed[d].block_id
  /\ CallLimit[d] > 0 => delayed[d].counter < CallLimit[d]

Called(d, block) ==
  LET counter == delayed[d].counter + 1
  IN  [counter |-> counter,
       block_id |-> IF CallLimit[d] = 0 \/ CallLimit[d] > counter THEN block + EveryBlock[d] ELSE block]

\* Block.Play of txs by every node; fails are the contracts whose call ends in
\* an error.  Of the transactions for a row the first changes it, and the others
\* find it changed; the database does not say which is first.
PlayBlock(txs, fails) ==
  LET block == Height + 1
      called == {d \in Delayed \ fails : Conditions(d, block) /\ \E t \in txs : t.id = d}
  IN
  /\ \E calls \in SUBSET txs :
       /\ \A d \in Delayed : Cardinality({t \in calls : t.id = d}) = IF d \in called THEN 1 ELSE 0
       /\ chainOf' = Append(chainOf, [txs |-> txs, calls |-> calls, before |-> delayed])
  /\ delayed' = [d \in Delayed |-> IF d \in called THEN Called(d, block) ELSE delayed[d]]
  /\ given' = given \cup {t.id : t \in {u \in txs : u.id \in fails /\ Conditions(u.id, block)}}

\* BlockGenerator: high rates come first, so a block with other transactions
\* only is one before which nothing was due; what the limits or the time leave
\* out stays in the table. The other nodes play the block too.
Generate(n, chosen, fails) ==
  LET made == RunForBlockID(n, Height + 1)
      txs == {t \in unused[n] \cup made : t.id \in chosen /\ t \notin Logged}
      have(m) == unused[m] \cup IF m = n THEN made ELSE {}
  IN
  /\ Height < MaxHeight
  /\ made # {} => madeTxs < MaxMade
  /\ madeTxs' = madeTxs + (IF made = {} THEN 0 ELSE 1)
  /\ chosen \subseteq {t.id : t \in unused[n] \cup made}
  /\ have(n) # {} => txs # {}
  /\ PlayBlock(txs, fails)
  /\ used' = [m \in Makers |-> have(m) \cap txs]
  /\ unused' = [m \in Makers |-> have(m) \ txs]
  /\ UNCHANGED undone

\* The time ends before the first transaction is taken.
TimeIsOver(n) ==
  LET made == RunForBlockID(n, Height + 1)
  IN
  /\ made # {} /\ madeTxs < MaxMade /\ madeTxs' = madeTxs + 1
  /\ unused' = [unused EXCEPT ![n] = @ \cup made]
  /\ UNCHANGED <<delayed, chainOf, used, undone, given>>

\* Disseminator, and the queue of the other node.
Disseminate(n, m, t) ==
  /\ n # m /\ t \in unused[n] \cup used[n]
  /\ t \notin unused[m] \cup used[m] \cup Logged
  /\ unused' = [unused EXCEPT ![m] = @ \cup {t}]
  /\ UNCHANGED <<delayed, chainOf, used, madeTxs, undone, given>>

\* The last block is undone; what is in the table no more does not come back.
RollbackBlock ==
  LET b == chainOf[Height]
      back(n) == used[n] \cap b.txs
      gone == {t \in b.txs : \A n \in Makers : t \notin back(n)}
  IN
  /\ Height > 0 /\ undone < MaxUndone /\ undone' = undone + 1
  /\ chainOf' = SubSeq(chainOf, 1, Height - 1) /\ delayed' = b.before
  /\ unused' = [n \in Makers |-> unused[n] \cup back(n)]
  /\ used' = [n \in Makers |-> used[n] \ b.txs]
  /\ given' = given \cup {t.id : t \in gone}
  /\ UNCHANGED madeTxs

Next ==
  \/ \E n \in Makers : \E chosen \in SUBSET Delayed : \E fails \in SUBSET (chosen \cap Fallible) : Generate(n, chosen, fails)
  \/ \E n \in Makers : TimeIsOver(n)
  \/ \E n, m \in Makers : \E t \in unused[n] \cup used[n] : Disseminate(n, m, t)
  \/ RollbackBlock

-----------------------------------------------------------------------------
CallsOf(d) == {b \in 1..Height : \E t \in chainOf[b].calls : t.id = d}

\* However many transactions the generators have made for it, and in whatever
\* block they are played, a delayed contract is called no more often than its
\* limit allows and with every_block blocks in between (CallDelayedContract).
CallsAreSpaced ==
  \A d \in Delayed :
    /\ CallLimit[d] > 0 => Cardinality(CallsOf(d)) <= CallLimit[d]
    /\ \A b, c \in CallsOf(d) : b < c => c - b >= EveryBlock[d]

\* A row that is not at its limit waits for a block to come, or some node has a
\* transaction for it in its table: nothing else would ever call it, since only
\* the rows of exactly the next block are looked for. Not so once its call has
\* failed, or its transaction was deleted before its block was undone
\* (RunForBlockID, GetAllDelayedContractsForBlockID, CallDelayedContract).
WillBeCalled ==
  \A d \in Delayed \ given :
    \/ CallLimit[d] > 0 /\ delayed[d].counter >= CallLimit[d]
    \/ delayed[d].block_id > Height
    \/ \E n \in Makers : \E t \in unused[n] : t.id = d

\* A delayed contract is called neither too often nor never again
\* (CallDelayedContract, RunForBlockID).
CallsAreKept == CallsAreSpaced /\ WillBeCalled
=============================================================================
