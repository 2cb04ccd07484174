----------------------------- MODULE ChainSync -----------------------------
(***************************************************************************)
(* One node's chain: generating blocks, following the chain of a host      *)
(* (packages/daemons/blocks_collection.go), switching to a fork, rolling   *)
(* back (packages/rollback), and crashing between two database commits.    *)
(*                                                                         *)
(* The database is what survives a crash: the rows of block_chain, the row *)
(* of info_block, and `applied', the transactions whose effects are in the *)
(* tables, in the order they were played (one log_transactions row and the *)
(* rollback_tx rows of each).  An action that changes several of these is  *)
(* one database transaction of the code.  DBLock makes the steps of the    *)
(* generator, of the collector and of the queue parser exclude each other, *)
(* so one program counter serves all of them.                              *)
(*                                                                         *)
(* Time is counted in slots (GenerationQueue shows that the query of       *)
(* BlockForTimeExists is exactly a slot).  A hash is the history it        *)
(* commits to, so it is collision free.                                    *)
(***************************************************************************)
EXTENDS Integers, Sequences, FiniteSets

CONSTANTS
  Hosts,             \* the other full nodes, which are also block authors
  Me,                \* this node as an author
  Txs,               \* transaction hashes
  Failing,           \* transactions whose contract fails when played
  TxLists,           \* the transaction lists a block may carry
  RollbackBlocks,    \* syspar.GetRbBlocks1()
  BlocksPerRequest,  \* network.BlocksPerRequest
  MaxSlot,           \* bound on time
  MaxHeight,         \* bound on the length of chains
  Regenerate,        \* may an author generate twice in a slot, on two forks?
  Switching,         \* may a host switch to another chain while it serves us?
  Lossy,             \* may a connection break in the middle of an answer?
  Crashes            \* may the process die, and the rollback command be run?

ASSUME ChainAssumption ==
  /\ Hosts # {} /\ Me \notin Hosts
  /\ Failing \subseteq Txs
  /\ TxLists \subseteq Seq(Txs)
  /\ RollbackBlocks \in Nat
  /\ BlocksPerRequest \in Nat \ {0}
  /\ MaxSlot \in Nat \ {0}
  /\ MaxHeight \in Nat \ {0}
  /\ Regenerate \in BOOLEAN
  /\ Switching \in BOOLEAN
  /\ Lossy \in BOOLEAN
  /\ Crashes \in BOOLEAN

VARIABLES
  slot,     \* the clock
  hosts,    \* the chains of the other nodes
  turn,     \* the last slot in which each author generated a block
  chain,    \* rows of block_chain; the id of a row is its index
  info,     \* the row of info_block: block id and hash
  applied,  \* for a block id, its transactions whose effects are in the tables
  pc,       \* where the holder of DBLock is
  task,     \* its local variables
  command   \* the argument of an unfinished "rollback" command, or 0

env == <<slot, hosts, turn>>
db == <<chain, info, applied>>
vars == <<slot, hosts, turn, chain, info, applied, pc, task, command>>

-----------------------------------------------------------------------------
(***************************************************************************)
(* Blocks.                                                                 *)
(***************************************************************************)

Authors == Hosts \cup {Me}
Ids == 1..MaxHeight
Contents == Authors \X (0..MaxSlot) \X Seq(Txs)
Blocks == [author : Authors, time : 0..MaxSlot, txs : Seq(Txs), prev : Seq(Contents)]

\* The hash of a block (ForSha) covers the hash of the block before it, which
\* is also what its signature covers (ForSign), and the rest of the block.
Hash(b) == Append(b.prev, <<b.author, b.time, b.txs>>)

\* The block id in the header.
Id(b) == Len(b.prev) + 1

FirstBlock == [author |-> Me, time |-> 0, txs |-> << >>, prev |-> << >>]

Last(c) == c[Len(c)]
TxSet(b) == { b.txs[i] : i \in DOMAIN b.txs }
NoDuplicates(txs) == \A i, j \in DOMAIN txs : txs[i] = txs[j] => i = j

\* The transactions of a block that take effect when it is played.  A failing
\* transaction stays in the block but is marked bad and leaves no effect.
Effective(b) == TxSet(b) \ Failing

\* log_transactions.
Logged(a) == UNION { a[k] : k \in Ids }

\* A plausible slip: it is not checked what the block was built on.
CheckHashIgnored(b, prev) == TRUE

\* CheckHash: the signature of b was made over the hash of the block before b.
CheckHash(b, prev) == b.prev = prev

\* A plausible slip: the log of played transactions is not consulted.
CheckLogTxIgnored(b, a) == TRUE

\* CheckLogTx, for all transactions of a block.
CheckLogTx(b, a) == TxSet(b) \cap Logged(a) = {}

\* readPreviousBlockFromBlockchainTable: our block before b, if there is one.
HasPrevious(b) == Id(b) - 1 \in DOMAIN chain
HashBefore(b) == Hash(chain[Id(b) - 1])

BlockForTimeExists(b, c) ==
  \E k \in DOMAIN c : c[k].author = b.author /\ c[k].time = b.time

\* Block.Check for b over prev, the hash of the block that precedes it.  The
\* queries go to the committed tables, not to an open database transaction.
Check(b, prev) ==
  /\ b.time <= slot
  /\ ~BlockForTimeExists(b, chain)
  /\ NoDuplicates(b.txs)
  /\ CheckLogTx(b, applied)
  /\ CheckHash(b, prev)

\* Block.Play, UpdBlockInfo and InsertIntoBlockchain for the block b.
Played(a, b) == [a EXCEPT ![Id(b)] = @ \cup Effective(b)]
InfoOf(b) == [id |-> Id(b), hash |-> Hash(b)]
Inserted(c, b) == IF Id(b) \in DOMAIN c THEN [c EXCEPT ![Id(b)] = b] ELSE Append(c, b)

\* Block.PlaySafe: one database transaction.
PlaySafe(b) ==
  /\ applied' = Played(applied, b)
  /\ info' = InfoOf(b)
  /\ chain' = Inserted(chain, b)

\* A plausible slip: the effects are left in the tables.
RolledBackNothing(a, b) == a

\* rollbackBlock: the transactions of b are undone and leave the log, whatever
\* block they took effect in.
RolledBack(a, b) == [k \in Ids |-> a[k] \ TxSet(b)]

-----------------------------------------------------------------------------
(***************************************************************************)
(* The other nodes.  They run the same program, and are abstracted to what *)
(* they answer: a chain that passes the checks of a block.                 *)
(***************************************************************************)

MayGenerate(author, c) ==
  /\ \A k \in DOMAIN c : ~(c[k].author = author /\ c[k].time = slot)
  /\ Regenerate \/ turn[author] < slot

ValidChain(c) ==
  \A i, j \in DOMAIN c : i # j =>
    /\ <<c[i].author, c[i].time>> # <<c[j].author, c[j].time>>
    /\ Effective(c[i]) \cap Effective(c[j]) = {}

Tick ==
  /\ slot < MaxSlot
  /\ slot' = slot + 1
  /\ UNCHANGED <<hosts, turn, db, pc, task, command>>

HostGenerate(h) ==
  /\ Len(hosts[h]) < MaxHeight
  /\ MayGenerate(h, hosts[h])
  /\ \E txs \in TxLists :
       LET b == [author |-> h, time |-> slot, txs |-> txs, prev |-> Hash(Last(hosts[h]))]
       IN  /\ ValidChain(Append(hosts[h], b))
           /\ hosts' = [hosts EXCEPT ![h] = Append(@, b)]
  /\ turn' = [turn EXCEPT ![h] = slot]
  /\ UNCHANGED <<slot, db, pc, task, command>>

\* The host an update is under way with.
Serving(h) == pc \notin {"idle", "down", "command"} /\ task.host = h

\* A host follows a longer chain: ours or that of another host.
HostFollow(h) ==
  /\ Switching \/ ~Serving(h)
  /\ \E c \in {chain} \cup { hosts[g] : g \in Hosts } :
       /\ Len(c) > Len(hosts[h])
       /\ ValidChain(c)
       /\ hosts' = [hosts EXCEPT ![h] = c]
  /\ UNCHANGED <<slot, turn, db, pc, task, command>>

\* The operator of a host rolls it back.
HostRollback(h) ==
  /\ Crashes
  /\ \E n \in 1..(Len(hosts[h]) - 1) :
       hosts' = [hosts EXCEPT ![h] = SubSeq(@, 1, n)]
  /\ UNCHANGED <<slot, turn, db, pc, task, command>>

-----------------------------------------------------------------------------
(***************************************************************************)
(* This node.                                                              *)
(***************************************************************************)

NoTask == [host |-> CHOOSE h \in Hosts : TRUE, target |-> 0, next |-> 0,
           stream |-> << >>, fork |-> << >>, low |-> 0, undo |-> 0]

Init ==
  /\ slot = 1
  /\ hosts = [h \in Hosts |-> <<FirstBlock>>]
  /\ turn = [a \in Authors |-> 0]
  /\ chain = <<FirstBlock>>
  /\ info = InfoOf(FirstBlock)
  /\ applied = [k \in Ids |-> {}]
  /\ pc = "idle"
  /\ task = NoTask
  /\ command = 0

\* The end of an iteration of a daemon, by success or by an error: DBUnlock.
Release == pc' = "idle" /\ task' = NoTask

\* A plausible slip: info_block is trusted, and the row it names is not read.
GenerateOnInfo ==
  /\ pc \in {"idle", "wait"}
  /\ info.id < MaxHeight
  /\ MayGenerate(Me, chain)
  /\ \E txs \in TxLists :
       LET b == [author |-> Me, time |-> slot, txs |-> txs, prev |-> info.hash]
       IN  Check(b, info.hash) /\ PlaySafe(b)
  /\ turn' = [turn EXCEPT ![Me] = slot]
  /\ UNCHANGED <<slot, hosts, pc, task, command>>

\* BlockGenerator.  The new block is built on info_block and checked against
\* block_chain.  A limit that stops the generation cuts the list of the block
\* to the transactions played so far, which is another list of TxLists.
Generate ==
  /\ pc \in {"idle", "wait"}
  /\ info.id < MaxHeight
  /\ info.id \in DOMAIN chain
  /\ MayGenerate(Me, chain)
  /\ \E txs \in TxLists :
       LET b == [author |-> Me, time |-> slot, txs |-> txs, prev |-> info.hash]
       IN  /\ Check(b, Hash(chain[info.id]))
           /\ PlaySafe(b)
  /\ turn' = [turn EXCEPT ![Me] = slot]
  /\ UNCHANGED <<slot, hosts, pc, task, command>>

\* The hosts are asked all at once, and the first of the highest answers is
\* taken; every host answers here, one that does not later: ConnectionFails.
HostWithMaxBlock(h) == \A g \in Hosts : Len(hosts[g]) <= Len(hosts[h])

\* blocksCollection before DBLock: the host with the longest chain is chosen,
\* and the height it reports is kept while the lock is awaited.
StartCollection(h) ==
  /\ pc = "idle"
  /\ HostWithMaxBlock(h)
  /\ info.id < Len(hosts[h])
  /\ pc' = "wait"
  /\ task' = [NoTask EXCEPT !.host = h, !.target = Len(hosts[h])]
  /\ UNCHANGED <<env, db, command>>

\* A plausible slip: the update starts with the block we already have.
LockForCollectionOffByOne ==
  /\ pc = "wait"
  /\ pc' = "request"
  /\ task' = [task EXCEPT !.next = info.id]
  /\ UNCHANGED <<env, db, command>>

\* UpdateChain reads info_block again, under the lock.
LockForCollection ==
  /\ pc = "wait"
  /\ pc' = "request"
  /\ task' = [task EXCEPT !.next = info.id + 1]
  /\ UNCHANGED <<env, db, command>>

\* QueueParserBlocks: a host announced its last block, and the announced block
\* is above ours by no more than rollback_blocks.
StartQueueParser(h) ==
  /\ pc = "idle"
  /\ Len(hosts[h]) > info.id
  /\ Len(hosts[h]) <= info.id + RollbackBlocks
  /\ pc' = "request"
  /\ task' = [NoTask EXCEPT !.host = h, !.target = Len(hosts[h]), !.next = info.id + 1]
  /\ UNCHANGED <<env, db, command>>

\* Type7 of the host: the blocks from an id upwards.
Answer(c, from) ==
  SubSeq(c, from, IF Len(c) < from + BlocksPerRequest
                  THEN Len(c) ELSE from + BlocksPerRequest - 1)

\* GetBlocksBodies, once per BlocksPerRequest blocks.  A broken connection
\* ends the stream early without an error.
Request ==
  /\ pc = "request"
  /\ task.next <= task.target
  /\ LET answer == Answer(hosts[task.host], task.next)
     IN  /\ answer # << >>
         /\ \E n \in (IF Lossy THEN 0..Len(answer) ELSE {Len(answer)}) :
              task' = [task EXCEPT !.stream = SubSeq(answer, 1, n)]
  /\ pc' = "play"
  /\ UNCHANGED <<env, db, command>>

\* The host has no block to send: GetBlocksBodies returns a nil channel and no
\* error, and the range over a nil channel never ends.  DBLock is kept.
RequestNothing ==
  /\ pc = "request"
  /\ task.next <= task.target
  /\ Answer(hosts[task.host], task.next) = << >>
  /\ pc' = "hung"
  /\ UNCHANGED <<env, db, task, command>>

RequestsDone ==
  /\ pc = "request"
  /\ task.next > task.target
  /\ Release
  /\ UNCHANGED <<env, db, command>>

StreamEnd ==
  /\ pc = "play"
  /\ task.stream = << >>
  /\ pc' = "request"
  /\ task' = [task EXCEPT !.next = @ + BlocksPerRequest]
  /\ UNCHANGED <<env, db, command>>

Raw == Head(task.stream)

\* playRawBlock up to the comparison with our chain.
PlayRaw ==
  /\ pc = "play"
  /\ task.stream # << >>
  /\ IF HasPrevious(Raw)
     THEN /\ pc' = IF CheckHash(Raw, HashBefore(Raw)) THEN "insert" ELSE "fork"
          /\ UNCHANGED task
     ELSE Release
  /\ UNCHANGED <<env, db, command>>

\* The end of playRawBlock: Check against the chain as it is now, PlaySafe.
InsertRaw ==
  /\ pc = "insert"
  /\ IF Check(Raw, HashBefore(Raw))
     THEN /\ PlaySafe(Raw)
          /\ pc' = "play"
          /\ task' = [task EXCEPT !.stream = Tail(@), !.fork = << >>, !.low = 0, !.undo = 0]
     ELSE /\ Release
          /\ UNCHANGED db
  /\ UNCHANGED <<env, command>>

\* getBlocks: the blocks of the host from `top' downwards, until the first one
\* built on a block of ours, or until one of the limits is reached.  The list
\* is returned in either case.
StopsAt(c, top, k) ==
  \/ CheckHash(c[k], HashBefore(c[k]))
  \/ top - k + 1 = RollbackBlocks + 1
  \/ top - k + 1 = BlocksPerRequest
  \/ k = 2

Lowest(c, top) ==
  CHOOSE k \in 2..top : /\ StopsAt(c, top, k)
                        /\ \A j \in (k + 1)..top : ~StopsAt(c, top, j)

\* The ids at which the received list may end; top + 1 is the empty list.
Received(c, top) ==
  { k \in 2..(top + 1) :
      IF k = top + 1 THEN Lossy \/ top < 2
      ELSE Len(c) >= top /\ k >= Lowest(c, top) /\ (Lossy \/ k = Lowest(c, top)) }

\* GetBlocks up to the rollback.  A host that has become shorter answers with
\* a block that was not asked for, which is an error.  With no block received
\* the rollback starts with the block before the one that did not match.
FetchFork ==
  /\ pc = "fork"
  /\ LET c   == hosts[task.host]
         top == Id(Raw) - 1
     IN  \/ /\ Len(c) < top
            /\ Release
         \/ \E k \in Received(c, top) :
              /\ pc' = "undo"
              /\ task' = [task EXCEPT !.fork = SubSeq(c, k, top),
                                      !.low = IF k > top THEN top ELSE k,
                                      !.undo = Len(chain)]
  /\ UNCHANGED <<env, db, command>>

\* The connection is refused or breaks before the answer starts: an error.
ConnectionFails ==
  /\ Lossy
  /\ \/ pc = "request" /\ task.next <= task.target
     \/ pc = "fork"
  /\ Release
  /\ UNCHANGED <<env, db, command>>

\* A plausible slip: our blocks are rolled back in ascending order.
UndoBlockAscending ==
  /\ pc = "undo"
  /\ task.undo >= task.low
  /\ applied' = RolledBack(applied, chain[task.low + Len(chain) - task.undo])
  /\ task' = [task EXCEPT !.undo = @ - 1]
  /\ UNCHANGED <<env, chain, info, pc, command>>

\* RollbackBlock(data, false) for one of our blocks: a database transaction of
\* its own.  The row of the block stays.
UndoBlock ==
  /\ pc = "undo"
  /\ task.undo >= task.low
  /\ applied' = RolledBack(applied, chain[task.undo])
  /\ task' = [task EXCEPT !.undo = @ - 1]
  /\ UNCHANGED <<env, chain, info, pc, command>>

\* processBlocks accepts the list: each block passes Check over the previous
\* one of the list, and no transaction is logged twice.
ForkAccepted(f) ==
  /\ \A i \in DOMAIN f :
       Check(f[i], IF i = 1 THEN HashBefore(f[1]) ELSE Hash(f[i - 1]))
  /\ \A i, j \in DOMAIN f : i # j => Effective(f[i]) \cap Effective(f[j]) = {}

\* A plausible slip: info_block is updated for the first block of the list.
FirstOfFork(f) == f[1]

\* The block of the list that info_block is updated to.
HeadOfFork(f) == f[Len(f)]

\* processBlocks: the list is played and replaces our blocks in one database
\* transaction, or the transaction is rolled back and the update ends.
ProcessBlocks ==
  /\ pc = "undo"
  /\ task.undo < task.low
  /\ LET f == task.fork
     IN  IF ForkAccepted(f)
         THEN /\ chain' = [k \in DOMAIN chain |->
                             IF k >= task.low /\ k < task.low + Len(f)
                             THEN f[k - task.low + 1] ELSE chain[k]]
              /\ applied' = [k \in Ids |->
                               IF k >= task.low /\ k < task.low + Len(f)
                               THEN applied[k] \cup Effective(f[k - task.low + 1])
                               ELSE applied[k]]
              /\ info' = IF f = << >> THEN info ELSE InfoOf(HeadOfFork(f))
              /\ pc' = "insert"
              /\ UNCHANGED task
         ELSE /\ Release
              /\ UNCHANGED db
  /\ UNCHANGED <<env, command>>

-----------------------------------------------------------------------------
(***************************************************************************)
(* Crashes, and the "rollback" command, which runs while the node is down. *)
(***************************************************************************)

Crash ==
  /\ Crashes
  /\ pc # "down"
  /\ pc' = "down"
  /\ task' = NoTask
  /\ UNCHANGED <<env, db, command>>

Restart ==
  /\ pc = "down"
  /\ pc' = "idle"
  /\ UNCHANGED <<env, db, task, command>>

RollbackCommand ==
  /\ pc = "down"
  /\ \E n \in DOMAIN chain : command' = n
  /\ pc' = "command"
  /\ UNCHANGED <<env, db, task>>

\* ToBlockID, one block: RollbackBlock(data, true), a transaction of its own.
ToBlockIDStep ==
  /\ pc = "command"
  /\ Len(chain) > command
  /\ applied' = RolledBack(applied, Last(chain))
  /\ chain' = SubSeq(chain, 1, Len(chain) - 1)
  /\ UNCHANGED <<env, info, pc, task, command>>

\* The end of ToBlockID: info_block is updated.
ToBlockIDEnd ==
  /\ pc = "command"
  /\ Len(chain) = command
  /\ info' = InfoOf(Last(chain))
  /\ command' = 0
  /\ pc' = "down"
  /\ UNCHANGED <<env, chain, applied, task>>

Environment ==
  \/ Tick
  \/ \E h \in Hosts : HostGenerate(h) \/ HostFollow(h) \/ HostRollback(h)

Collector ==
  \/ \E h \in Hosts : StartCollection(h) \/ StartQueueParser(h)
  \/ LockForCollection \/ Request \/ RequestNothing \/ RequestsDone \/ ConnectionFails
  \/ StreamEnd \/ PlayRaw \/ InsertRaw \/ FetchFork \/ UndoBlock \/ ProcessBlocks

Failures == Crash \/ Restart \/ RollbackCommand \/ ToBlockIDStep \/ ToBlockIDEnd

Next == Environment \/ Generate \/ Collector \/ Failures

Spec == Init /\ [][Next]_vars

\* Every daemon runs again and again (daemonLoop), and a step it has begun is
\* carried to its end, so the collection of blocks is weakly fair; so is the
\* restart of a node.
FairSpec == Spec /\ WF_vars(Collector) /\ WF_vars(Restart)

-----------------------------------------------------------------------------
(***************************************************************************)
(* Properties.                                                             *)
(***************************************************************************)

AtRest == pc \in {"idle", "wait", "down"}

TypeOK ==
  /\ slot \in 0..MaxSlot
  /\ hosts \in [Hosts -> Seq(Blocks)]
  /\ \A h \in Hosts : Len(hosts[h]) \in Ids
  /\ turn \in [Authors -> 0..MaxSlot]
  /\ chain \in Seq(Blocks) /\ Len(chain) \in Ids
  /\ info \in [id : Ids, hash : Seq(Contents)]
  /\ applied \in [Ids -> SUBSET Txs]
  /\ pc \in {"idle", "wait", "request", "play", "insert", "fork", "undo", "hung",
             "down", "command"}
  /\ task \in [host : Hosts, target : 0..MaxHeight, next : Nat, stream : Seq(Blocks),
               fork : Seq(Blocks), low : 0..MaxHeight, undo : 0..MaxHeight]
  /\ command \in 0..MaxHeight

\* Every row of block_chain was signed over the hash of the row before it, at
\* every commit point, whatever the hosts answer and wherever a crash falls.
Linked ==
  /\ chain[1] = FirstBlock
  /\ \A k \in DOMAIN chain : k > 1 => chain[k].prev = Hash(chain[k - 1])

\* info_block is never behind block_chain, and is its last row except between
\* the commits of an unfinished rollback command (rollback.go:44).
InfoIsTop ==
  /\ info.id >= Len(chain)
  /\ command = 0 => info.id = Len(chain)
  /\ info.id = Len(chain) => info.hash = Hash(Last(chain))

\* What is in the tables was put there by rows of block_chain: a transaction in
\* effect under a block id is one of the row with that id.
AppliedInChain ==
  \A k \in Ids : applied[k] \subseteq (IF k \in DOMAIN chain THEN Effective(chain[k]) ELSE {})

\* No transaction takes effect twice, even when blocks are undone, re-played or
\* replaced by a fork that carries the same transactions.
NoDoubleEffect ==
  \A j, k \in Ids : j # k => applied[j] \cap applied[k] = {}

\* Effects are undone from the newest block to the oldest: rollback_tx holds
\* the previous values of rows, so undoing under a later change corrupts them.
UndoFromTop ==
  [][\A k \in Ids : ~(applied[k] \subseteq applied'[k])
       => \A m \in Ids : m > k => applied'[m] = {}]_vars

\* A node whose info_block is ahead of its block_chain (an interrupted rollback
\* command) builds nothing on the gap: only the command changes its rows.
GapIsNotBuiltOn ==
  [][info.id > Len(chain) /\ pc # "command" => UNCHANGED <<chain, info>>]_vars

\* Between two iterations of the daemons the tables hold the effects of the
\* whole chain and of nothing else.  queue_parser_blocks.go:51 says of a fork
\* that fails: "if there are errors, then roll back to the former data".
StateIsChain ==
  AtRest /\ command = 0 =>
    \A k \in Ids : applied[k] = (IF k \in DOMAIN chain THEN Effective(chain[k]) ELSE {})

\* The node catches up: from some time on no host has a longer chain than its
\* own (the hosts stop growing at the bounds of the model).
CatchesUp == <>[](\A h \in Hosts : Len(hosts[h]) <= info.id)
=============================================================================
