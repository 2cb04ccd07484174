-------------------------------- MODULE Bans --------------------------------
(***************************************************************************)
(* Bad blocks and bans (packages/service/node_ban.go,                      *)
(* packages/model/bad_blocks.go, the function UpdateNodesBan and the       *)
(* contracts NewBadBlock, CheckNodesBan and CallDelayedContract).          *)
(*                                                                         *)
(* A node that receives a bad block bans the producer for itself and       *)
(* reports the block in a transaction.  A delayed contract counts the      *)
(* reports in the committed table and bans a node for everybody.           *)
(***************************************************************************)
EXTENDS Integers, FiniteSets

CONSTANTS
  Nodes,          \* the keys of full_nodes
  Me,             \* this node
  Suspects,       \* the nodes that bad blocks are reported of
  BadIds,         \* the ids of bad blocks
  PerDay,         \* incorrect_blocks_per_day
  NodeBanTime,    \* node_ban_time
  LocalBanTime,   \* node_ban_time_local
  Day,            \* 24 hours
  EveryBlock,     \* every_block of the delayed contract CheckNodesBan
  MaxTime,        \* bound on the blocks
  MaxReports      \* bound on the reports

VARIABLES
  now,        \* the number of the block that is being played, and its time
  nextCheck,  \* delayed_contracts.block_id of CheckNodesBan
  unban,      \* FullNode.UnbanTime in full_nodes, 0: not banned
  local,      \* localBannedNodes: LocalUnBanTime, -1: no entry
  txs,        \* reports of this node that no block holds yet
  rows,       \* 1_bad_blocks as the transactions of the block see it
  committed,  \* 1_bad_blocks as other connections see it
  spent       \* history: the rows on which a ban was based

banVars == <<now, nextCheck, unban, local, txs, rows, committed, spent>>

Row == [producer : Nodes, consumer : Nodes, id : BadIds, time : Nat, deleted : BOOLEAN]

Init ==
  /\ now = 1 /\ nextCheck = 1
  /\ unban = [n \in Nodes |-> 0] /\ local = [n \in Nodes |-> -1]
  /\ txs = {} /\ rows = {} /\ committed = {} /\ spent = {}

-----------------------------------------------------------------------------
\* IsBanned: a local entry hides the global ban, and an expired one is
\* dropped with the answer no.
IsBanned(n) == IF local[n] # -1 THEN now < local[n] ELSE unban[n] # 0

AfterIsBanned(ns) == [n \in Nodes |-> IF n \in ns /\ ~IsBanned(n) THEN -1 ELSE local[n]]

\* localBan and newBadBlock: the entry and the transaction.
LocalBan(p, b) ==
  /\ local' = [local EXCEPT ![p] = now + LocalBanTime]
  /\ txs' = txs \cup {[producer |-> p, consumer |-> Me, id |-> b, time |-> now, deleted |-> FALSE]}

RegisterBadBlock(p, b) ==
  /\ Cardinality(txs) + Cardinality(rows) < MaxReports
  /\ IF IsBanned(p)
     THEN UNCHANGED <<local, txs>>
     ELSE LocalBan(p, b)
  /\ UNCHANGED <<now, nextCheck, unban, rows, committed, spent>>

\* FilterBannedHosts, before the hosts are asked for blocks.
FilterBannedHosts ==
  /\ local' = AfterIsBanned(Nodes \ {Me})
  /\ UNCHANGED <<now, nextCheck, unban, txs, rows, committed, spent>>

\* The contract NewBadBlock, for a report of this node or of another one.
NewBadBlock(r) ==
  /\ r \notin rows /\ [r EXCEPT !.deleted = TRUE] \notin rows
  /\ \/ r \in txs /\ txs' = txs \ {r}
     \/ /\ r.consumer # Me /\ r.consumer # r.producer /\ r.time = now
        /\ Cardinality(txs) + Cardinality(rows) < MaxReports
        /\ UNCHANGED txs
  /\ rows' = rows \cup {r}
  /\ UNCHANGED <<now, nextCheck, unban, local, committed, spent>>

-----------------------------------------------------------------------------
\* block_time > now::date - interval '24 hours' AND deleted = 0.
Recent(t) == {r \in committed : ~r.deleted /\ r.time > t - (t % Day) - Day}

\* GetNeedToBanNodes: the consumers that reported enough blocks of p.
Complainants(p, t) ==
  {c \in Nodes :
     Cardinality({r.id : r \in {x \in Recent(t) : x.producer = p /\ x.consumer = c}}) >= PerDay}

NeedToBan(p, t) ==
  Complainants(p, t) # {} /\ Cardinality(Complainants(p, t)) >= (Cardinality(Nodes) \div 2) + 1

\* GetNodeBlocks
NodeBlocks(p, t) == {r \in Recent(t) : r.producer = p}

MarkDeleted(ps, t) ==
  {IF \E p \in ps : r \in NodeBlocks(p, t) THEN [r EXCEPT !.deleted = TRUE] ELSE r : r \in rows}

\* A slip: a ban that has passed is not lifted.
UnbanTimeKept(p, t) == IF NeedToBan(p, t) THEN t + NodeBanTime ELSE unban[p]

\* The new UnbanTime of p: a passed ban is lifted, a request bans anew.
UnbanTime(p, t) ==
  IF NeedToBan(p, t) THEN t + NodeBanTime
  ELSE IF unban[p] > 0 /\ t > unban[p] THEN 0 ELSE unban[p]

\* UpdateNodesBan and, with it, the new value of full_nodes.
UpdateNodesBan(t) ==
  LET banned == {p \in Nodes : NeedToBan(p, t)} IN
  /\ unban' = [p \in Nodes |-> UnbanTime(p, t)]
  /\ rows' = MarkDeleted(banned, t)
  /\ spent' = spent \cup {<<r, now>> : r \in UNION {NodeBlocks(p, t) : p \in banned}}

\* CallDelayedContract without a limit, for CheckNodesBan.
CallDelayedContract ==
  /\ now >= nextCheck
  /\ nextCheck' = now + EveryBlock
  /\ UpdateNodesBan(now)
  /\ UNCHANGED <<now, local, txs, committed>>

\* The block is committed and the next one begins.
EndBlock ==
  /\ now < MaxTime
  /\ committed' = rows
  /\ now' = now + 1
  /\ UNCHANGED <<nextCheck, unban, local, txs, rows, spent>>

Next ==
  \/ \E p \in Suspects, b \in BadIds : RegisterBadBlock(p, b)
  \/ FilterBannedHosts
  \/ \E p \in Suspects, c \in Nodes, b \in BadIds, t \in 1..MaxTime :
       NewBadBlock([producer |-> p, consumer |-> c, id |-> b, time |-> t, deleted |-> FALSE])
  \/ CallDelayedContract
  \/ EndBlock

-----------------------------------------------------------------------------
\* A report counts towards one ban only: the blocks that led to a ban are
\* marked in the table that the next check counts (UpdateNodesBan).
ReportsCountOnce == \A x, y \in spent : x[1] = y[1] => x[2] = y[2]

\* A ban whose time has passed is lifted in the end (UpdateNodesBan).
BansEnd == []<>(\A n \in Nodes : unban[n] = 0 \/ now <= unban[n])

\* Reports ban once, and every ban ends (UpdateNodesBan).
BansAreRight == []ReportsCountOnce /\ BansEnd
=============================================================================
