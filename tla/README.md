# Verification of go-apla

TLA+ models of the node of go-apla, a blockchain whose blocks are generated in
turn by a fixed list of full nodes. Every node keeps its chain, the state the
chain produces and its pools of transactions in one PostgreSQL database of its
own. All sources named below are under `src/packages/`.

The models are about what holds the node together: whose turn it is, how a
chain is followed and undone, how a transaction travels from a sender into a
block, whether all nodes apply a block in the same way, what a contract computes
and writes and how that is taken back, and the services around these.

## 1. The system

### Parts, their state and their operations

| Part | State | Operations | Talks to |
|---|---|---|---|
| Generation queue (`protocols/generation-queue.go`) | none; reads `block_chain`, system parameters and the clock | `queue`, `RangeByTime`, `BlockForTimeExists`, `TimeToGenerate`, `nextTime` | block generator, `Block.Check` |
| Block generator (`daemons/block_generator.go`) | locals, two goroutines per selection | `BlockGenerator`, `processTransactions`, delayed contracts | pool, limiters, block |
| Block (`block/block.go`, `block/db.go`) | `block_chain`, `info_block` | `Check`, `CheckHash`, `Play`, `PlaySafe`, `UpdBlockInfo`, `InsertIntoBlockchain` | pool, limiters, rollback, contracts |
| Block limiters (`block/limits.go`) | counters of one block | `NewLimits`, `CheckLimit`, six limiters in three modes | generator, block |
| Chain synchronisation (`daemons/blocks_collection.go`, `daemons/queue_parser_blocks.go`) | the chain, the tasks under way | `UpdateChain`, `GetBlocks`, `processBlocks`, `QueueParserBlocks` | TCP client, block, rollback, ban service |
| Rollback (`rollback/`) | `rollback_tx`, `log_transactions` | `RollbackBlock`, `ToBlockID` (command line), undo of rows | synchronisation |
| Transaction pool (`transaction/db.go`, `model/transaction.go`, `model/queue_tx.go`, `model/transaction_status.go`) | `queue_tx`, `transactions`, `transactions_status`, `log_transactions` | `ProcessTransactionsQueue`, `MarkTransactionBad`, `CheckLogTx`, attempts, clean-up | API, TCP server, generator, block, rollback |
| TCP server and client (`network/`) | number of connections | requests of types 1 to 10, answers | every other node |
| HTTP API (`api/`) | tokens; reads the database | sending transactions, `txstatus`, reads | pool |
| Dissemination (`daemons/disseminator.go`) | `sent` flags | announcing transactions and blocks | TCP client |
| Confirmations (`daemons/confirmations.go`) | `confirmations` | asking other nodes for the hash of a block | TCP client |
| Services (`service/`) | pause of the node, bans | pausing, relevance, local and global bans | daemons, TCP server |
| System parameters (`conf/syspar/`) | a cache behind an RWMutex | `SysUpdate`, getters | everything |
| Daemons (`daemons/common.go`, `daemons/locking.go`) | `DBLock`, contexts, return channel | `daemonLoop`, start and stop | all daemons |
| Contracts (`smart/`, `script/`) | the compiled contracts (VM), `rollback_tx` | running a contract, flushing new ones | block |
| Parsed transactions (`transaction/transaction_cache.go`) | a map from hashes to parsed transactions | parsing, emptying at `DBUnlock` | all daemons, API |
| Encodings (`converter/`, `network/protocol.go`, `block/serialization.go`) | none | writing and reading of numbers, blocks and messages | TCP server and client |
| Languages (`language/`) | a cache of the texts | loading, editing, looking up | contracts, pages |
| Scheduler, notifications, VDE manager (`scheduler/`, `notificator/`, `vdemanager/`) | their own maps | tasks, counters, child processes | API, block |

`PROJECT.json` lists every part under `components` with what is modelled of it.

### How they interact

Three things couple the parts: the database, the mutex `DBLock` and messages.

* The daemons `BlockGenerator`, `BlocksCollection`, `QueueParserBlocks` and
  `QueueParserTx` hold `DBLock` for the part of an iteration that writes. The
  API, the TCP server and the goroutines that a selection leaves behind write
  to the same tables **without** it.
* A block is played in one database transaction (`PlaySafe`), but the undoing
  of several blocks is one transaction per block, and the pool is changed by
  single statements outside of any transaction.
* A node asks other nodes for their height and their blocks. It may be told
  one thing by one request and another by the next one.

### What is hard

* *State read before a wait and used after it*: the turn of the generator, the
  height of a host, the system parameters of a block.
* *Interleaving*: three routes into `queue_tx`, marks that are applied late,
  statements of two writers between each other.
* *Crashes* between two commits of one logical operation.
* *Boundaries*: whole seconds against slots, the first transaction of a block,
  the last attempt, the counters of three sets of limiters.
* *Progress*: an iteration that ends at the first error, a lock held by a loop
  that never ends.

`PROJECT.json` lists these as `hazards`, each at its line, with the property
that would catch it or the reason why none does. The list is of the forty that
bite hardest; section 4 has more.

### What makes the parts correct

* Generation queue: a node has at most one block in a slot; the SQL query by
  range and the arithmetic of slots agree.
* Chain: blocks are linked, `info_block` is the top, the effects in the tables
  are those of the blocks, no transaction takes effect twice, undoing goes from
  the top, a crash never leads to building on a gap, a node catches up.
* Pool: `log_transactions` is what is in effect, a generated block is fresh,
  the reported status is true, nothing accepted disappears in silence, the
  queue drains.
* Limiters: all nodes apply a block in the same way, what is selected passes
  the check of blocks, no transaction is held back for ever.
* Contracts: a run of the bytecode does what the source says; the rows, the
  tables and the compiled contracts go back exactly when a block is undone;
  payments balance; who changes a row has the rights for it.
* Caches (system parameters, parsed transactions, texts, notifications): what is
  read is what a node that starts now would read, or the ways in which it is not
  are all named.
* Services: a pause ends and comes as the heights of the network say, reports ban
  once and bans end, a stop ends the process, what is marked sent was taken.
* Encodings: what is read is what was written.

## 2. The modules

| Module | Models | Proofs | Instance |
|---|---|---|---|
| `GenerationQueue` | slots, turns and the time checks of a block | `GenerationQueue_proofs` | `MCGenerationQueue` |
| `ChainSync` | one node's chain among other nodes, with faults | `ChainSync_proofs` | `MCChainSync` |
| `TxPool` | the life of transactions on one node | `TxPool_proofs` | `MCTxPool` |
| `BlockLimits` | the limits of a block on its generator and a peer | `BlockLimits_proofs` | `MCBlockLimits` |
| `TxCache` | the cache of parsed transactions | `MCWork_proofs` | `MCWork` |
| `RowStore` | rows, tables and the records that undo them; refines `UndoStack` | `RowStore_proofs` | `MCRowStore` |
| `UndoStack` | abstract: a stack of databases | | `MCRowStore` |
| `ScriptCompiler`, `ScriptVM`, `Script` | words to bytecode, its run, the meaning of the language | | `MCScript` |
| `Relevance`, `Bans`, `Confirmations`, `Lifecycle`, `SysParams`, `Dissemination` | the services and daemons of one node | `MCNode_proofs` | `MCNode` |
| `ContractStore`, `Rights`, `Importing`, `Payments`, `DelayedContracts`, `Languages` | what contracts do besides writing rows | `MCWork_proofs`, `MCWorkRows_proofs` | `MCWork` |
| `Scheduler`, `VDEManager`, `Notificator`, `TokenMovement`, `Wire` | services and encodings | `MCWork_proofs` | `MCWork` |

`MCNode` and `MCWork` are sums: their parts share no state, and each behaviour
runs the one that `machine` names from the start. What the parts share in the
program (the lock, the clock, the chain) is in each of them as far as the part
reads it.

`map` in `PROJECT.json` gives the lines of every definition. Definitions whose
comment starts with "A plausible slip" or "A slip" are not part of the model: they are
variants of the definition that follows, used to show that a property would
notice the slip.

### GenerationQueue

Time is in milliseconds; a block header holds whole seconds. `queue`,
`RangeStart`/`RangeEnd`, `InRange` (the SQL comparison of `GetNodeBlocksAtTime`)
and `nextTime` translate the arithmetic. The state is the clock, the rows of
`block_chain` and whether the generator is between its check of the turn and the
stamping of the header. `StartGenerate`, `FinishGenerate` and `GiveUp` are the
generator; `AcceptBlock` is a single block of a peer that passes `Block.Check`;
`processBlocks` is the list of a fork, all of whose blocks are checked against the
committed rows before one is committed. A block may be written over a row that is
there: `info_block` is below the last row after a fork that failed half-way. The
older calculators in `utils` are not used by the node and are left out.

### ChainSync

The state that survives a crash is `chain` (rows of `block_chain`), `info`
(`info_block`) and `applied` (what is in effect, per block: `log_transactions`
and `rollback_tx`). `pc` and `task` are the program counter and locals of the
holder of `DBLock`. One action is one database transaction or one exchange with
a host. `StartCollection`, `LockForCollection`, `Request`, `PlayRaw`,
`InsertRaw` are `blocksCollection` and `UpdateChain`; `FetchFork`, `UndoBlock`,
`ProcessBlocks` are `GetBlocks` and `processBlocks`; `StartQueueParser` is
`QueueParserBlocks`; `Generate` is the generator; `RollbackCommand`,
`ToBlockIDStep`, `ToBlockIDEnd` are the command line rollback, which runs while
the node is down. Hosts run the same program and are abstracted to the chain
they serve; they generate, follow longer chains and may be rolled back. Time is
counted in slots, which `GenerationQueue` justifies. A hash is the history it
commits to, so two different chains never have the same hash.

The refusal of a fork that is deeper than `rollback_blocks`, the lists that are
cut by a broken connection and the empty answer are all in the model; the ban of
a host that sent a bad block is not (it changes only whom the node asks next).

### TxPool

The four tables are functions from hashes to rows. Every statement that the code
executes outside of a database transaction is a step of its own (the parts of
`MarkTransactionBad` are `"mark"`, `"error"` and `"delete"`; the parts of
`ProcessQueueTransaction` are `"parse"`, `"create"` and `"dequeue"`); two
statements are one step only where nothing between them could tell. `SendTx` and
`CreateQueueTx` are the API, `Type1`/`SaveNewTransactions` the announcement of a
full node, `Type2`/`CreateQueueTx` the relay of another node. `marks` holds what
a selection has handed to its goroutines, which nobody waits for. What a
contract does is left open: a transaction takes effect or fails, and may do one
in one block and the other in a later one. A limiter may hold back anything.

### BlockLimits

One round is one block: `SelectTransaction` is the loop of `processTransactions`
with the limiters of `letPreprocess`, `CheckBlock` the count of `Block.Check`
after the size of the whole block (`CheckSize`; a peer measures it too, and the
second measure of `ParseBlockHeader`, of two bytes less, never refuses more),
`PlayTransaction` the loop of `Block.Play` on the generator with those of
`letGenBlock` (the time may be over at any transaction), `Commit` the cut and
the commit, `PlayOnPeer` the same loop on a peer with those of `letParsing`. The
limit of an ecosystem is read from the committed parameters by the selection and
from inside the block by the peer. Marks are applied at once here, because
`TxPool` already shows what their delay can do. System parameters do not change
inside a block in this model; `SysParams` is about that.

### RowStore and UndoStack

A database is the columns of each table and the rows under their ecosystem and
id. `DBInsert`, `DBUpdateExt`, `SetPubKey`, `CreateTable`, `CreateColumn`,
`DelColumn`, `DelTable`, `PermColumn` and `CreateEcosystem` write to the database
of the block and append a record to `rollback_tx`, with the old value as the
record keeps it (bytes as hex). `RollbackBlock` undoes the records of the last
block backwards in one transaction; a statement that the database refuses ends
it. `UndoStack` says what this promises: a commit pushes the former database, a
rollback pops it. `RollbackIsExact` is the refinement under the mapping
`past <- the databases before each block`. The constants `ManyRows` and `Rekey`
name two uses of updates with which it fails (section 4). Two of the assumptions
on the constants say that a table that is not there (`NoTable`) and a record
without data (`NoData`) are told from those that are there.

### Script

`ScriptCompiler` is the automaton of `CompileBlock` over words (its states and
the functions `fX`), with `compileEval` and its buffer of operators;
`ScriptVM` runs the bytecode with stack, variables, blocks, the calls of
functions and contracts and the budget. `Script` gives programs as trees, writes
them down as words, and compares the run with `Meaning`, a definition by
recursion over the tree that knows no bytecode, stack or offsets.

### The parts of MCNode

* `Relevance`: the goroutine of `NodeRelevanceService.Run`, the channel without
  a buffer over which a collection wakes it, the pause of `StopNetwork`, and the
  generator that looks at the pause once.
* `Bans`: `RegisterBadBlock` and `localBan`, the contract `NewBadBlock`, and
  `UpdateNodesBan`, which counts committed rows and marks those it has used.
* `Confirmations`: the daemon without a lock, which asks the hosts that are not
  banned (`FilterBannedHosts`; an unknown host ends the iteration), the answers at different times, and
  `ConfirmResponse` as it is written and as it is read.
* `Lifecycle`: `StartDaemons`, `daemonLoop`, `WaitDB`, the two stoppers that
  receive from one channel, and the closing of the database.
* `SysParams`: the cache against the parameters of the transaction, the block
  and the database. `tainted` marks the three ways in which the cache is left
  behind (section 4).
* `Dissemination`: `Disseminator` with one goroutine per host, `Type1` and
  `Type2` on the other side, bodies that are asked for, and the marks.

### The parts of MCWork

* `ContractStore`: rows of `1_contracts` and the children of the virtual machine:
  creating, editing, activating, failing, undoing, restarting.
* `TxCache`: who parses what, when, with which contracts; the API reads blocks,
  parses their transactions without filling, and caches them, in steps of their
  own and without `DBLock`.
* `DelayedContracts`: rows of `delayed_contracts`, the generators' transactions,
  what the time of a block leaves over, dissemination and rollback.
* `Rights`: one row of one table; `AccessTable`, `AccessColumns`,
  `RowConditions`, the editing contracts of the first ecosystem and of a VDE, and
  the functions that write a row without `AccessTable`: `BndWallet`, `UnbndWallet`,
  `NewMoney` and `SetPubKey` (`NewUser`), `payContract`, `UpdateSysParam`. `who` is
  the key, contract and function of the last write.
* `Payments`: `CallContract` and `payContract` with missing and equal wallets,
  transfers inside the block, other payers, a commission of any size, and the
  commit.
* `Importing`: `ImportUpload` and the pieces that the page `import_app` sends. That the next
  piece can be compiled is said of files that have each contract after those it
  calls (`CallsAreEarlier`): `Import` takes the contracts in their order, and a
  contract that calls a later one is refused.
* `Languages`: the rows, the cache, a loading that is cut in two, the look-up.
* `VDEManager`: the steps of `CreateVDE` with its cancel functions, `DeleteVDE`,
  start and stop, the supervisor; `DROP ROLE` may fail, which is only logged.
* `Scheduler`: rows of `cron`, `UpdateTask`, the hourly loading.
* `Notificator`, `TokenMovement`: what users and the operator are told, with
  restarts, and for the notifications with blocks that are undone.
* `Wire`: the encodings, as bytes, and the messages made of them.

## 3. What is checked

A run with a violated property is a *finding*: the property states what a
comment or a test of the repository says.

| Run | Properties | Result |
|---|---|---|
| `generation_queue` | `OnePerNodeAndSlot`, `NextTimeIsNextTurn` | hold |
| `chain_faults` | `Linked`, `InfoIsTop`, `AppliedInChain`, `NoDoubleEffect`, `UndoFromTop`, `GapIsNotBuiltOn` | hold |
| `chain_honest` | `StateIsChain`, `CatchesUp` | hold |
| `fork_failure` | `StateIsChain` | violated |
| `tx_routes` | `LogIsChain`, `SelectionIsFresh`, `StatusIsTrue` | hold |
| `tx_pool` | `NoSilentLoss`, `QueueDrains` | hold |
| `block_limits` | `PeersAgree`, `CheckPasses`, `Decided` | hold |
| `rows` | `RollbackIsExact` | hold |
| `script` | `RunsAsMeant`, `CompilesAsWritten` | hold |
| `node` | `PauseFollowsHeights`, `BansAreRight`, `TopIsChecked`, `StopsCleanly`, `CacheFollowsState`, `SendingIsTrue` | hold |
| `confirmed` | `CountsTheSame` | violated |
| `work` | `CompiledIsStored`, `RowsAreGuarded`, `ImportArrives`, `NothingLeftOver`, `RowsAreScheduled`, `ShownIsTrue`, `ExcessIsMailed`, `PaymentsAreRight`, `PlayedAsItIsNow`, `WireIsFaithful`, `CallsAreKept`, `TextIsTheStored` | hold |

Several properties are conjunctions of named parts, which their modules state
one by one (`CallsAreKept` is `CallsAreSpaced` and `WillBeCalled`, and so on).
The type invariants of the modules with proofs are proved and not run.

### Bounds, and why they are enough

* `generation_queue`: two nodes, a slot of 2.5 s and steps of 0.5 s, so that
  ends of slots fall on and between whole seconds, four slots, so that the turn
  comes back to each node, and three blocks, so that two compete for a slot
  after one of another node, also in a list of two. The bounds are `MaxTime`,
  `MaxBlocks`, `MaxList` and `MaxWrites`.
* `chain_faults`: one host, chains of four blocks in two slots after that
  of the first block, two transactions that succeed and one that fails when
  played, one block of fork (`rollback_blocks` = 1), two blocks per request, lost answers, crashes and rollback commands. A host may
  change its chain while it serves, by a rollback and new blocks; that it adopts
  another chain in one step (`Switching`) is on in `fork_failure`, and the
  proofs cover it. A fork can thus be accepted, refused, too
  deep, cut by the connection, and interrupted by a crash at each commit; a
  rollback command can be interrupted and repeated. `chain_honest` has two hosts
  with chains of their own and deeper forks, and no faults, because
  `StateIsChain` does not survive them (`fork_failure`). The bounds are
  `MaxSlot` and `MaxHeight`.
* `tx_routes`: one transaction with everything on. The properties compare a
  transaction only with itself and with the blocks it is in; the routes, marks
  and blocks that meet are those of one hash. Two blocks and two marks under way
  let a mark outlive a rollback and a second selection. `tx_pool` has two
  transactions, because there one refusal ends the iteration for the other one,
  and leaves out the routes and limiters with which `NoSilentLoss` fails
  (section 4). The bounds are `MaxTime`, `MaxBlocks`,
  `MaxCounter` and `MaxLate`.
* `block_limits`: five transactions, of which four fit in a selection, with
  every limiter reachable: two users, two ecosystems, a size and a fuel that
  stop a block, header and prefixes of one byte with which a block is exactly
  full or too large although `txMaxSize` let it pass, a contract that fails and one that lowers the limit of its
  ecosystem, two attempts. The bound is `MaxAttempt`, which is a constant of the
  code (10).
* `rows`: two blocks of up to four records, two ecosystems, a table that is
  created, altered and dropped, so that a record of every kind meets a record of
  every other in one block, and a block is undone on top of another.
* `script`: some 4000 programs: all expressions of up to three operators, two
  branches or loops inside each other with `break`, `continue` and `return`,
  functions and contracts that call each other, contracts that set variables of
  the system, with two budgets, one of which is
  too small. A deeper nesting repeats the same transitions of the automaton.
* `node`: `Relevance` has heights up to 2 and a gap of 1; `Bans` three nodes of
  which one is suspect, four reports and four days; `Confirmations` two hosts and
  two changes of chains; `Lifecycle` two daemons and one stopper (`OneStop`);
  `SysParams` three blocks of two transactions; `Dissemination` two hosts of
  which one is dead, two transactions.
* `work`: each part has two or three of everything that it compares (users,
  names, rows, contracts, transactions, versions) and between two and five
  operations, so that an operation meets another one in each of its states; the
  messages of `Wire` have the lengths and numbers at which an encoding changes
  its form (127, 128, 255, 256, 65535, 65536), two after another. The commissions
  of `Payments` are one that leaves a rest and one of more than 100 percent;
  three transactions in up to two commits let a payment be made from a wallet that
  has spent meanwhile. `Clean` cuts
  the behaviours in which the virtual machine is known to be wrong, for which the
  property says nothing.

Deadlock is not checked: at the bounds of the models nothing is left to do.

### Fairness

* `ChainSync`: weak fairness of the collector and of the restart. `daemonLoop`
  runs a daemon again after every iteration, whatever it returned, and a step
  that has begun is carried to its end by the process or a crash.
* `TxPool`: weak fairness of the steps of the holder of `DBLock` and of the
  clock; strong fairness of the start of `QueueParserTx`, because other daemons
  take `DBLock` in between. Go's mutex hands the lock to the longest waiter
  after a millisecond of starvation, and every iteration gives it back.
* `BlockLimits`: weak fairness of the generator; strong fairness of selecting
  a transaction, because a slot may end before any is selected, but a slot that
  always ended before the first one would be a misconfiguration and no schedule.

* `MCNode`: weak fairness of the goroutines of `Relevance`, of blocks and of the
  delayed contract that lifts bans, of the confirmations daemon and of the hosts
  it asks (every question has a time limit); in `Lifecycle` of what the process
  does by itself, strong where a daemon's `select` chooses between the timer and
  the context; in `Dissemination` of the daemon and of hosts that are not dead,
  strong because connections come and go. The liveness of `Relevance` is stated
  for a service that has not ended by an error, and a network that is reachable,
  or not, from some time on.

Neither hosts nor users are assumed to do anything else.

## 4. Findings and observations

1. `fork_failure`: own blocks are undone, each in its own commit, before the
   fork is checked; when the fork is then refused their rows stay in
   `block_chain` without their effects. `chain_faults` shows that this is
   repaired as far as safety goes: later synchronisation undoes them again
   without a double effect.
2. `confirmed`: `ConfirmResponse` is written with a length and read without one.
   No host is ever counted as having our hash, whereas `confirmations.go:48`
   says that this is what the daemon counts.

The models also show the following. Properties that these would refute are
stated with the exception, which is a variable or a constant of the module.

* Turn and pool. A header may be stamped in another node's slot, because the turn
  is checked earlier (`block_generator.go:136`). An answer without blocks leaves
  `UpdateChain` waiting for ever on a nil channel, with `DBLock` held. A user's
  transaction that also arrives through the gate is refused as its own duplicate
  and vanishes without an error; so does one that limiters hold back
  `MaxTXAttempt` times (constants of `TxPool`). After `ErrLimitStop` the
  selection goes on, and every later transaction pays with an attempt. A block
  that lowers `max_tx_block_per_user` splits the nodes (`SetsLimit`).
* Rows. An update of several rows records one of them, and a column of bytes is
  restored as the text of its hex; with `ManyRows` or `Rekey` a rollback is not
  exact. `PermColumn` writes to the tables of that name in all ecosystems.
* Compiled contracts (`dirty`). A transaction that fails after it has created an
  ecosystem leaves the contracts of that ecosystem in the virtual machine, and a
  block that is given up half-way leaves what it flushed.
* Parsed transactions (`forked`). The blocks of a fork are parsed before the own
  ones are undone and keep the contracts of the branch that is left; one that the
  API has parsed meanwhile is not filled. The API reads the rows of blocks
  (`api/block.go:103`) and parses their transactions one after the other later: when
  a collector has undone the block and emptied the cache in between, an unfilled
  transaction is cached that a later block plays (`stray`).
* Child nodes (`undropped`). A role whose `DROP ROLE` fails is only logged; it stays,
  and a later `CreateVDE` with that user is refused, since the role exists.
* Notifications (`stale`). What a client was sent last is in memory only: after a
  restart the closing of the last open notification compares nothing with nothing
  (`notificator.go:131`), and the client goes on to show it. Nobody is told of the
  notifications of a block that is undone, or that came with others in one
  collection.
* Payments (`negative`). `commission_size` has no upper bound (`smart_p.go:186`).
  Above 100 percent the maker of the block pays instead of earning; when the wallet
  of the commission is missing besides, the sum of the payer is negative, and
  `amount=amount--5` is read by the database as `amount=amount` and a comment: the
  maker has lost what nobody got.
* Rights (`who`). `wallet_id` of a contract has a right of its own
  (`ContractAccess("BindWallet", "UnbindWallet")`), which `BndWallet` and
  `UnbndWallet` never ask for; and `BindWallet` asks for the wallet that the contract
  has, which is 0 for a contract made by `NewContract`, so that only who is bound
  can bind. What `payContract`, `SetPubKey` and `UpdateSysParam` write asks for no
  right of the table either.
* The language. Two operators of one operand in a row (`!-x`, constant
  `BareUnary`) are applied in the order of the text.
* System parameters (`tainted`). A block that a limit has cut forgets that it
  changed parameters; a rollback does not refresh the cache; an empty list of
  nodes leaves the former one in use.
* Delayed contracts (`given`). A row whose call has failed, and a row whose
  transaction was deleted with the following block before both were undone, is
  never called again, because only the rows of exactly the next block are looked
  for.
* Texts (`astray`). The first edit after a start hides all other texts; the cache
  keeps texts of failed and undone blocks; a loading may pass an edit.
* Services. The relevance service clears the pause of a stopped network. After
  the first announcement `info_block` stays marked as sent, because gorm skips
  zero fields of an update (`block/db.go:85`). A host with a wrong address hangs
  the confirmations daemon (`BadHosts`). Two stoppers share the names of the
  daemons, and then neither ends (`OneStop`). A daemon that asks the ban service
  before it exists ends the process (`EarlyHandlers`).
* Others. A row of `cron` loaded by the daemon and written by a contract has two
  tasks, because the ids differ. Members of roles are looked for in a table that
  other ecosystems do not have, so they are not notified. The position of an
  author has one byte in a header, the id of an announced block three.
* `txMaxSize` counts the data of the transactions, and
  `ProcessBlockWherePrevFromBlockchainTable` the block with its header and the
  prefixes of its transactions, both against `max_block_size`. A selection
  between the two is refused with no transaction marked, and may be selected again
  in the next slot, and in all: `Decided` says that a transaction waits for ever
  for no other reason.
* `processBlocks` checks and inserts the blocks of a fork in one database
  transaction, and `BlockForTimeExists` reads outside it: a fork with two blocks of
  one node in one slot is accepted, though the same blocks are refused one by one.
  `OnePerNodeAndSlot` says that this is the only way.
* `protocols/block_time_counter_test.go:63` expects a slot to start 1 ms after its
  boundary; `RangeByTime` adds a second. The model follows the code.

## 5. What is proved

TLAPS checks the theorems below for all values of the constants; the bounds of
the models are constants too, so they are proved for every bound. The only
assumptions are the named ones of the modules (`QueueAssumption`,
`BoundAssumption`, `ChainAssumption`, `TxPoolAssumption`, `LimitsAssumption`,
`SysparAssumption`, `RowAssumption`, `ListsAreFinite` of `MCNode`, and those of
`MCWork` below): types of the constants, finite lists of hosts and daemons, and limits
above 0, which `DBUpdateSysParam` enforces. The assumptions of `MCWork` are of
the same kind. A day has hours; a name of a user is not the word for nobody, and
no key is the word for "whoever edits"; the rows of `cron` and of
`delayed_contracts` are finitely many; a delayed contract waits for at least one
block, as those that a migration inserts do; the pieces of an import hold at
least one item (`$limit` is 10) and its files have items for the rows there may
be; there are finitely many wallets, and no commission is negative, which
`UpdateSysParam` refuses (`smart_p.go:186`). Where a property fails in
general (section 4 says how), the theorem has a hypothesis on the constants of the
model that names the circumstances (`OneRoute`, `Honest`, `Exact`, `OneStop`); the instance
that TLC checks satisfies it.

* `GenerationQueue_proofs`: `RangeIsSlotOfTime` is the arithmetic fact: the
  whole seconds that the SQL query selects for a time are exactly those numbered
  like it, for every start and duration; it rests on `DivIsSlot`, the meaning of
  an integer division. `OneBlockPerSlot` follows from it because a block is
  committed only if the query over the rows before the write is empty, which says
  nothing of two blocks of one write. Also `TypeCorrect`.
  `NextTurn`: the second that `nextTime` leads to is in the next slot of the
  position. `SlotOfSecond` finds the slot of that second and `TurnDistance` shows
  that of the slots up to it only the last one has the position; durations below
  a second are left out, since a slot may then hold no whole second.
* `ChainSync_proofs`: `ChainLinked`, `InfoTop`, `EffectsOfChain`, `EffectOnce`,
  `TypeCorrect`, and the action properties `UndoneFromTop` and `GapStays`. None
  is inductive alone. The invariant `Inv` adds what the holder of `DBLock`
  knows: the blocks of the stream are consecutive and above `info_block`
  (`StreamAhead`), the block being played is the next one (`RawIsNext`), a fork
  fits exactly between the block it is built on and our top while nothing is in
  effect above the block being undone (`ForkFits`); and about the tables, that a
  transaction in effect is in no later block (`NotLater`). Without `NotLater`,
  undoing a block, which removes its transactions from the log whatever block
  they took effect in, could remove the effect of a lower one.
* `ChainSync_proofs` also has `ForksAreTakenWhole` and `StateMatchesChain`, that is
  `StateIsChain`: whenever `DBLock` is free the tables hold the effects of the
  whole chain. `GetBlocks` undoes our blocks, commits each undo, and only then
  checks the list, so the theorem is that the checks cannot fail then. `Honest`
  excludes what makes them fail: hosts that change their chain between two
  requests, authors who make two blocks in a turn, lists cut by a broken
  connection, a crash, and a block with a transaction twice. `ShallowForks`
  says that a fork that is met is within `rollback_blocks` and one request;
  beyond, the list is refused before anything is undone, or does not reach down
  to the common block. It is a temporal hypothesis (`[]ShallowForks`), and
  `StateMatchesChain` replaces it by one on the bounds: no chain is longer than
  the two limits. The invariant `HonestInv` says that a block commits to the
  content of every block before it (`ChainsInv`), that blocks of one author and
  time are one block (`TurnsInv`), that what is still to be played is the host's
  (`ServedInv`), that our chain and the host's agree exactly below the lowest
  block of the list (`ForkInv`), and that what is not undone is in effect
  (`FullInv`). That the chains part at one point and never meet again is an
  argument about the least such block.
* `TxPool_proofs`: `LogMatchesChain`, `FreshSelection`, `StatusTrue`,
  `TypeCorrect`. The invariant is `TypeOK /\ ChainInv /\ WorkInv /\
  StatusIsTrue`. `ChainInv` says that nothing a block carries, not even what
  failed in it, is in effect in an earlier block; this is what makes
  `log \ txs` exact when a block is rolled back. `WorkInv` keeps the selection
  disjoint from the log while `DBLock` is held. `NothingLost` is `NoSilentLoss`
  under `OneRoute`: transactions come from the API only, no limiter holds one
  back, nothing is rolled back, the process does not die, and a row that was
  verified once is not yet a looped one. Section 4 says how a transaction
  vanishes when it also comes through the gate or is held back too often. The
  invariant
  `LossInv` says for each transaction that it has a status as soon as any table
  knows it, that a used row is one whose end is recorded or about to be by the
  holder of `DBLock` or by a late mark, and that it leaves the queue as bad only
  after the error is written (`TxInv`); and that each step of a mark is about
  one transaction (`HandInv`).
* `BlockLimits_proofs`: `SelectionPassesCheck`, `TypeCorrect` and
  `PeersAlwaysAgree`. The invariant of the first two
  is `TypeOK /\ PoolInv /\ CountInv`: while transactions are selected, the
  counter of `txUserLimit` is at least the number of the user's transactions in
  the list and at most the limit (`CountInv`; here the limit must be above 0,
  because the first transaction of a user is never refused); and what is still
  to be selected or played is unused and in the list once (`PoolInv`), so that a
  row is never given more attempts than there are. `PeersAlwaysAgree` compares
  three sets of counters: those of the selection, which have counted refused
  transactions too, those of the generator's playing and those of a peer. The
  invariant `AgreeInv` keeps for every place of the list counters that the
  selection had reached there, within its limits (`SelectedInv`), and says that
  the peer's are never above them (`PeerInv`), so a peer refuses nothing for
  size, number or user; the fuel is counted alike by both (`PlayInv`). `SizeInv`
  adds that it does not refuse the bytes of the block either: `CutSize` shows, by
  the least counterexample of the recursion, that a cut block is no larger.
* `MCWork_proofs`: a theorem for each service around the contracts.
  * `AlwaysPlayedAsItIsNow`, from `CacheInvariant`. The cache may well hold
    stale entries; the invariant says of which transactions. `CacheIsFresh`:
    outside of forks they are in the chain already, unless a generator is about
    to unlock, or the API put them there late (`stray`); a collector's cache holds,
    besides these, only what it has in hand. Of what a request of
    the API has parsed and not yet cached only the type is needed (`RequestOK`). `ChainIsMarked` (a transaction is in one block) and `HandIsOutside`
    (what is in hand is not in the chain, or only in the block that will go)
    keep the two apart.
  * `ExcessIsAlwaysMailed`: `MoveInv` says that a mail is never older than the
    event it is about, so that an event that is not looked at was mailed within
    the day; a restart forgets the events and not the mails.
  * `TextIsAlwaysTheStored`: the cache, once there is one, has the rows that the
    block sees, which are the stored ones outside of blocks (`LangInv`), for
    every name that is not `astray`.
  * `NothingIsLeftOver`: `Consistent` says what there is of a child node at each
    step of its creation, of its cancelling and of its deletion, and
    `RolesAreHeld` that a role belongs to one name, so that what one request
    cancels is nothing of another's. A role that could not be dropped is in
    `undropped` for good, and no later child node gets it.
  * `RowsAreAlwaysScheduled`: a row that the daemon has read and that has not
    changed since has its task, or is in the list that is being handed over
    (`TasksAreLoaded`); entries of contracts have another id and never take its
    place.
  * `ShownIsAlwaysTrue`: what a user sees is what was sent last or the count of
    now, and all three are one unless he is still to be told (`Right`), or a block
    was undone or the node restarted since.
  * `CallsAreAlwaysKept`: `DelayedInv` speaks of the rows as they are and as every
    block of the chain found them, since an undo brings those back. In each of
    them the counter is the number of the blocks with a call, and the row waits
    for `every_block` blocks after the last one, or a transaction for it is in a
    table or in a later block.
* `MCWorkRows_proofs`: what the contracts keep in rows.
  * `PaymentsAreAlwaysRight`: every key has what it began with and what
    `1_history` says it got and gave, in the block and as it is committed
    (`Balanced`), as long as no payer had to pay a negative sum; the commission is
    any natural number (`ShareIs`, `PercentBound`). The amounts are sums over all
    keys; that such a sum changes by what one entry changes by is shown in the first
    section of the module.
  * `RowsAreAlwaysGuarded` is an action property: each step that changes the row
    is made by a key that has the rights at that moment, and says what the five
    functions that do not ask `AccessTable` require instead and may change. It follows from the
    guards of the editing contracts and of `AccessTable`, `AccessColumns` and
    `RowConditions`, one lemma for each route to a row. The proof corrected the
    property: once the right to update the table and the right over its column
    `name` have both been changed, a key that has them may rename the binary of
    another member, which the bound of one change of rights hides from TLC. The
    property now speaks of what a binary holds, while the right over that column
    is still the editors'.
  * `CompiledIsAlwaysStored`: the invariant `ContractInv` says that there is a
    history: for every length of `rollback_tx` the rows, the ecosystems and the
    contracts of the virtual machine at that point (`History`), such that undoing
    a record leads from one point to the one before, in the rows
    (`RowsLeadBack`) and in the virtual machine (`CodeLeadsBack`), which differ
    between the two records that one change makes. In a block the notes of
    `FlushContract` lead back to the savepoint of the transaction (`Noted`), so a
    transaction that fails takes its contracts along; during an undo the virtual
    machine is at the point of the records left (`InUndo`). `LoadAll` shows what
    `LoadContracts` compiles from rows with different names.
  * `ImportAlwaysArrives`: rows only grow by an import (`Grows`), so what a piece
    has brought stays (`ImportInv`), whoever imports what later. `SlicesAre` is
    about the cutting: every item is in a piece, for any length of the file and
    any `$limit`, and the contracts are all in the last one, in the order of the
    file; `Along` follows the items of a piece. The proof found two arms of
    `ImportItem` that were both open for a table that exists; the code's order
    of the tests decides, and so does the model now.
* `RowStore_proofs`: `RollbacksAreExact`, the refinement of `UndoStack`, for any
  tables, columns, ids, ecosystems, and any length of a block and of the chain.
  `Exact` is the hypothesis: a write addresses one row, since its record keeps
  one; a wallet gets its public key once, since an old key is restored as hex;
  keys are put into ecosystems that exist, since the undo of an ecosystem deletes
  all its rows; a database transaction holds one block, since the columns of a
  dropped table are asked of another connection; and tables have different
  names, since `PermColumn` writes to every row with the name. The invariant
  `RowInv` says that there is a history `D`: a database for every length of
  `rollback_tx`, with those of the starts of the blocks being what the chain
  remembers, such that undoing a record leads from the rows of one database to
  the rows of the one before (`LeadsBack`; one lemma for each kind of record).
  The schema is not led back exactly: a table that the block altered and then
  dropped is re-created with the columns it had before the block. `Explained`
  says that each column that is wrong then is one that a record further down, but
  above the start of the block, creates or drops, so at the start of the block
  nothing is left to explain and the database is the one of the history. That an
  undo restores an insert needs that the id was new (`NextIDIsNew`, from the
  greatest id in use) and rows that are identified as records identify them
  (`KeysInv`); that dropping a column loses nothing needs `SchemaInv`.
* `MCNode_proofs`: a safety theorem for each of five services, each from an
  invariant of its own that the steps of the other machines leave alone.
  `CacheAlwaysFollows` is `CacheFollowsState`; `CacheInv` adds that the cache is
  the transaction's view also after it has changed a parameter, and that a
  transaction without the flag still sees its savepoint, so that a failed one
  needs no reload. `ReportsNeverCountTwice`: the check counts reports in the
  committed table and marks them in the block's, so within a block it may count a
  report again; `SpentIsMarked` says that a counted report is marked for the
  block, and is in no committed table of a later one, and `CommittedIsRow` that a
  mark always finds its row. `SentMeansTaken`: `ConIsTrue` says what the goroutine
  of a host stands for in each of its states, so that one that is done and not in
  error is the host that the marking needs. `ClosedUnderNobody`, under `OneStop`:
  a stopper has at most as many names as daemons have ended (`NamesAreGone`), all
  daemons are counted before anybody can stop them (`StopAfterStart`), and hence
  none is left when the database is closed; without `OneStop` a row in
  `stop_daemons` that is written during `Start` closes it under a daemon that is
  not yet counted. `HostsAreCountedOnce`: of the hosts that
  were not banned when they were asked, the answers counted and the hosts waited
  for are together all hosts. The last four are the safety parts of
  `BansAreRight`, `SendingIsTrue`, `StopsCleanly` and `TopIsChecked`.

### Only model-checked

The properties of `script`, `WireIsFaithful`, and what is said under the hypotheses
above when they do not hold, are model-checked.
`CatchesUp`, `QueueDrains`, `Decided`, `TopIsChecked` and the liveness parts of
`PauseFollowsHeights`, `BansAreRight`, `StopsCleanly` and `SendingIsTrue` rest on
fairness, which is outside of what the prover does.
`Meaning`, the compiler and the machine are recursive over programs: what they
compute for every program is outside of it too, since the provers cannot
instantiate the induction theorems with a formula. Where the recursion is over
numbers the proofs argue about a least counterexample instead, which needs no
such formula (`LeastNumber`): so for the ids, the forks, the sums of payments,
the contracts of a list of rows, the notes of a flush and the pieces of an
import. `WireIsFaithful` would need that for each of the nested encodings, whose
interesting lengths the run enumerates.

## 6. What is not modelled

* Pages (`template/`): a page is computed for one request from the committed
  database and kept nowhere.
* The read-only handlers of the API, and functions of contracts that only compute
  (strings, dates, JSON, lists).
* Hashes and signatures, which are assumed unique and right; sockets, deadlines
  and the limit of connections of the TCP server.
* The read lock of the system parameters, which `GetNodeHostByPosition` takes
  twice (`syspar.go:268`), and data races on maps without a lock
  (`tcpclient/pools.go:60`, `token_movements.go:90`): what they do is decided by
  the runtime of Go.
* The characters of the lexer, the conversions of types, index expressions
  (`a[i]` and assignments to them, `compile.go:1127`, `setIndex`), calls of a
  function that a `$` variable names (`$f()`, `compile.go:1307`), and the named and optional parameters of
  the language.
* Changes of rows that no transaction makes (an undone block restores them) and the
  rows of a new ecosystem, in `Rights`; the system parameters of a VDE, whose table
  has no row of permissions.
* The tables and pages that migrations create; third-party code.
* Database errors other than a crash or a refused statement end an operation
  like any other refusal and are not modelled one by one. A database transaction
  that `PlaySafe` leaves open (`block.go:91`) is not modelled.

## 7. Plan

1. *Proofs*: `WireIsFaithful`, encoding by encoding.
2. *Refinement*: a chain as a sequence of committed blocks that `ChainSync`
   implements when hosts keep their chain; a pool as a set of undecided
   transactions that `TxPool` implements when only users send.
3. *Compositions*: `Dissemination` with the receiving side of `TxPool`,
   `SysParams` with `BlockLimits`.
4. *The language*: named and optional parameters, conversions of types.
