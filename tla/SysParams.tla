------------------------------ MODULE SysParams ------------------------------
(***************************************************************************)
(* The system parameters: the table 1_system_parameters and the cache of   *)
(* packages/conf/syspar that the whole node reads.                         *)
(*                                                                         *)
(* A transaction that changes a parameter loads the cache from its own     *)
(* uncommitted state.  The flag SysUpdate of the transaction and of the    *)
(* block says who has to load it again.                                    *)
(***************************************************************************)
EXTENDS Integers, Sequences

CONSTANTS
  ListValues,   \* well-formed values of full_nodes
  GapValues,    \* values of gap_between_blocks, good and bad
  MaxGap,       \* 86400
  MaxTx,        \* bound on the transactions of a block
  MaxBlocks     \* bound on the blocks

VARIABLES
  dbC,        \* the parameters that other connections see
  dbT,        \* those that the transaction of the block sees
  sp,         \* the last savepoint
  log,        \* the parameters before each block: what its rollback restores
  cache,      \* syspar.cache
  nodes,      \* syspar.nodesByPosition
  phase,      \* "idle", "block" between transactions, or "tx"
  route,      \* PlaySafe of a generated block or of a received one, processBlocks
  txFlag, blockFlag,  \* Transaction.SysUpdate, Block.SysUpdate
  ntx, nblocks,
  tainted     \* history: a change was undone without a look at the flags

sysVars == <<dbC, dbT, sp, log, cache, nodes, phase, route, txFlag, blockFlag, ntx, nblocks, tainted>>

NoList == "none"
FirstBlockNode == "first block"
Names == {"full_nodes", "gap_between_blocks"}
Zero == [full_nodes |-> NoList, gap_between_blocks |-> 1]

Init ==
  /\ dbC = Zero /\ dbT = Zero /\ sp = Zero /\ log = <<>> /\ cache = Zero /\ nodes = FirstBlockNode
  /\ phase = "idle" /\ route = "none" /\ txFlag = FALSE /\ blockFlag = FALSE
  /\ ntx = 0 /\ nblocks = 0 /\ tainted = FALSE

-----------------------------------------------------------------------------
\* SysUpdate and updateNodes: an empty full_nodes leaves the nodes as they are.
SysUpdate(params) ==
  /\ cache' = params
  /\ nodes' = IF params.full_nodes # NoList THEN params.full_nodes ELSE nodes

\* FullNode.UnmarshalJSON and Validate; the list has a node at least.
WellFormed(value) == value \in ListValues

\* The checks of UpdateSysParam.
Valid(name, value) ==
  CASE name = "full_nodes" -> WellFormed(value)
    [] name = "gap_between_blocks" -> value > 0 /\ value < MaxGap

BeginBlock(r) ==
  /\ phase = "idle" /\ nblocks < MaxBlocks
  /\ phase' = "block" /\ route' = r /\ dbT' = dbC /\ sp' = dbC /\ blockFlag' = FALSE /\ ntx' = 0
  /\ nblocks' = nblocks + 1
  /\ UNCHANGED <<dbC, log, cache, nodes, txFlag, tainted>>

BeginTx ==
  /\ phase = "block" /\ ntx < MaxTx
  /\ phase' = "tx" /\ sp' = dbT /\ txFlag' = FALSE /\ ntx' = ntx + 1
  /\ UNCHANGED <<dbC, dbT, log, cache, nodes, route, blockFlag, nblocks, tainted>>

\* A slip: the transaction does not say that it has changed a parameter.
UpdateSysParamUnsaid(name, value) ==
  /\ phase = "tx" /\ Valid(name, value)
  /\ dbT' = [dbT EXCEPT ![name] = value]
  /\ SysUpdate(dbT')
  /\ UNCHANGED <<dbC, sp, log, phase, route, txFlag, blockFlag, ntx, nblocks, tainted>>

\* UpdateSysParam: an invalid value is an error, and then TxFails follows.
UpdateSysParam(name, value) ==
  /\ phase = "tx" /\ Valid(name, value)
  /\ dbT' = [dbT EXCEPT ![name] = value]
  /\ SysUpdate(dbT')
  /\ txFlag' = TRUE
  /\ UNCHANGED <<dbC, sp, log, phase, route, blockFlag, ntx, nblocks, tainted>>

\* The rest of Play for a transaction.
TxDone ==
  /\ phase = "tx"
  /\ phase' = "block" /\ blockFlag' = (blockFlag \/ txFlag) /\ txFlag' = FALSE
  /\ UNCHANGED <<dbC, dbT, sp, log, cache, nodes, route, ntx, nblocks, tainted>>

TxFails ==
  /\ phase = "tx"
  /\ phase' = "block" /\ dbT' = sp /\ txFlag' = FALSE
  /\ IF txFlag THEN SysUpdate(sp) ELSE UNCHANGED <<cache, nodes>>
  /\ UNCHANGED <<dbC, sp, log, route, blockFlag, ntx, nblocks, tainted>>

\* A limit cuts a generated block before this transaction.  PlaySafe parses the
\* shorter block, and with it the flag is lost.
LimitStop ==
  /\ phase = "tx" /\ route = "generate" /\ ntx > 1
  /\ phase' = "idle" /\ dbC' = sp /\ dbT' = sp /\ log' = Append(log, dbC)
  /\ txFlag' = FALSE /\ blockFlag' = FALSE
  /\ tainted' = (tainted \/ cache # sp)
  /\ UNCHANGED <<sp, cache, nodes, route, ntx, nblocks>>

-----------------------------------------------------------------------------
\* The end of PlaySafe: the commit, then the cache.
PlaySafe ==
  /\ phase = "block" /\ route \in {"generate", "receive"}
  /\ phase' = "idle" /\ dbC' = dbT /\ log' = Append(log, dbC)
  /\ IF blockFlag THEN SysUpdate(dbT) /\ tainted' = FALSE ELSE UNCHANGED <<cache, nodes, tainted>>
  /\ UNCHANGED <<dbT, sp, route, txFlag, blockFlag, ntx, nblocks>>

\* processBlocks: the cache after every block, the commit after the last one.
EndOfBlock ==
  /\ phase = "block" /\ route = "process" /\ ntx > 0
  /\ IF blockFlag THEN SysUpdate(dbT) /\ tainted' = FALSE ELSE UNCHANGED <<cache, nodes, tainted>>
  /\ \/ phase' = "idle" /\ dbC' = dbT /\ log' = Append(log, dbC) /\ UNCHANGED <<ntx, blockFlag, nblocks>>
     \/ nblocks < MaxBlocks /\ ntx' = 0 /\ blockFlag' = FALSE /\ nblocks' = nblocks + 1 /\ UNCHANGED <<phase, dbC, log>>
  /\ UNCHANGED <<dbT, sp, route, txFlag>>

\* A block that fails: the rollback of the database transaction.
Abort ==
  /\ phase = "block"
  /\ phase' = "idle" /\ dbT' = dbC
  /\ tainted' = (tainted \/ cache # dbC)
  /\ UNCHANGED <<dbC, sp, log, cache, nodes, route, txFlag, blockFlag, ntx, nblocks>>

\* RollbackBlock puts the rows back and leaves the cache alone.
RollbackBlock ==
  /\ phase = "idle" /\ log # <<>>
  /\ dbC' = log[Len(log)] /\ dbT' = dbC' /\ log' = SubSeq(log, 1, Len(log) - 1)
  /\ tainted' = (tainted \/ cache # dbC')
  /\ UNCHANGED <<sp, cache, nodes, phase, route, txFlag, blockFlag, ntx, nblocks>>

\* RunAllDaemons of a restarted process.
Restart ==
  /\ nblocks < MaxBlocks /\ phase = "idle"
  /\ nblocks' = nblocks + 1
  /\ cache' = dbC /\ tainted' = FALSE
  /\ nodes' = IF dbC.full_nodes # NoList THEN dbC.full_nodes ELSE FirstBlockNode
  /\ UNCHANGED <<dbC, dbT, sp, log, phase, route, txFlag, blockFlag, ntx>>

Next ==
  \/ \E r \in {"generate", "receive", "process"} : BeginBlock(r)
  \/ BeginTx
  \/ \E v \in ListValues \cup {"bad"} : UpdateSysParam("full_nodes", v)
  \/ \E v \in GapValues : UpdateSysParam("gap_between_blocks", v)
  \/ TxDone \/ TxFails \/ LimitStop \/ PlaySafe \/ EndOfBlock \/ Abort \/ RollbackBlock \/ Restart

-----------------------------------------------------------------------------
\* Unless a cut block, a failed one or a rollback left it behind, the cache is
\* what the transactions of the block, or between blocks the database, say
\* (UpdateSysParam, Play, PlaySafe, processBlocks).
CacheFollowsState ==
  ~tainted =>
    /\ phase = "block" => cache = dbT
    /\ phase = "idle" => cache = dbC
    /\ phase = "tx" /\ ~txFlag => cache = dbT
=============================================================================
