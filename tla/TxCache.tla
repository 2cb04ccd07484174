------------------------------ MODULE TxCache ------------------------------
(***************************************************************************)
(* The cache of parsed transactions (packages/transaction).  A parsed      *)
(* transaction holds the compiled contract that it found and the fields    *)
(* that it filled; whoever parses the same hash again gets the same        *)
(* object.  The daemons parse under DBLock and DBUnlock empties the cache; *)
(* the HTTP API parses blocks that it has read from the chain, without     *)
(* filling, when it likes and without that lock.                           *)
(***************************************************************************)
EXTENDS Integers, Sequences, FiniteSets

CONSTANTS
  CTxs,       \* transactions; each calls the contract
  Editors,    \* those of them that also change its code
  MaxVersion, \* bound on the versions of the code
  MaxPages    \* bound on the requests to the API

VARIABLES
  code,       \* the version of the compiled contract
  newest,     \* the versions made so far
  where,      \* where a transaction is: "queue", "pool" or "chain"
  blocks,     \* the chain: the transactions of a block and the code before it
  parsedTxs,  \* the cache: a set of parsed transactions, at most one of each
  locked,     \* the daemon that holds the mutex, "ready" a generator that has made its block
  hand,       \* the parsed blocks of that daemon, in the order of playing
  forked,     \* the fork that it has found: "no", "found", "read" or "undone"
  inEffect,   \* history: the transactions of the last block as they were played, and the code before it
  request,    \* of the API: the transactions of the block still to be parsed, and the one parsed
  pages       \* requests to the API

cacheVars == <<code, newest, where, blocks, parsedTxs, locked, hand, forked, inEffect, request, pages>>

Nobody == "nobody"
NoRequest == [left |-> {}, parsed |-> {}]

Init ==
  /\ code = 1 /\ newest = 1
  /\ where = [t \in CTxs |-> "queue"] /\ blocks = <<>> /\ parsedTxs = {}
  /\ locked = Nobody /\ hand = <<>> /\ forked = "no"
  /\ inEffect = [code |-> 1, txs |-> {}, forked |-> "no"]
  /\ request = NoRequest /\ pages = 0

-----------------------------------------------------------------------------
\* parseFromContract; stray is history: the API has put it into the cache when
\* it was in no block.
Parse(t, fillData) == [tx |-> t, code |-> code, filled |-> fillData, stray |-> FALSE]

InCache(t) == \E p \in parsedTxs : p.tx = t

\* UnmarshallTransaction: the cached one or a new one.
Unmarshall(t, fillData) ==
  IF InCache(t) THEN CHOOSE p \in parsedTxs : p.tx = t ELSE Parse(t, fillData)

UnmarshallBlock(txs, fillData) == {Unmarshall(t, fillData) : t \in txs}

Cached(ps) == parsedTxs \cup ps
CleanCache == {}

InChain == {t \in CTxs : where[t] = "chain"}

DBLock(d) ==
  /\ locked = Nobody /\ locked' = d
  /\ UNCHANGED <<code, newest, where, blocks, parsedTxs, hand, forked, inEffect, request, pages>>

\* A slip: the cache outlives the lock.
DBUnlockKeeping ==
  /\ locked # Nobody /\ locked' = Nobody /\ hand' = <<>> /\ forked' = "no"
  /\ forked = "undone" => hand = <<>>
  /\ UNCHANGED <<code, newest, where, blocks, parsedTxs, inEffect, request, pages>>

\* At the end of an iteration, whatever came of it; for a fork that fails after
\* the own block was undone see ChainSync.
DBUnlock ==
  /\ locked # Nobody /\ locked' = Nobody /\ hand' = <<>> /\ forked' = "no"
  /\ forked = "undone" => hand = <<>>
  /\ parsedTxs' = CleanCache
  /\ UNCHANGED <<code, newest, where, blocks, inEffect, request, pages>>

\* ProcessQueueTransaction, of the parser of the queue and of the generator.
ProcessQueueTransaction(t) ==
  /\ locked \in {"parser", "generator"} /\ hand = <<>> /\ where[t] = "queue"
  /\ parsedTxs' = Cached({Unmarshall(t, TRUE)})
  /\ where' = [where EXCEPT ![t] = "pool"]
  /\ UNCHANGED <<code, newest, blocks, locked, hand, forked, inEffect, request, pages>>

\* processTransactions, and the block of what it has selected.
GenerateBlock(txs) ==
  /\ locked = "generator" /\ hand = <<>>
  /\ txs # {} /\ \A t \in txs : where[t] = "pool"
  /\ LET ps == UnmarshallBlock({t \in CTxs : where[t] = "pool"}, TRUE)
     IN  parsedTxs' = Cached(ps) /\ hand' = <<{p \in ps : p.tx \in txs}>>
  /\ UNCHANGED <<code, newest, where, blocks, locked, forked, inEffect, request, pages>>

\* A block of another node that follows the own ones.
ReceiveBlock(txs) ==
  /\ locked = "collector" /\ hand = <<>> /\ txs # {} /\ txs \cap InChain = {}
  /\ LET ps == UnmarshallBlock(txs, TRUE) IN parsedTxs' = Cached(ps) /\ hand' = <<ps>>
  /\ UNCHANGED <<code, newest, where, blocks, locked, forked, inEffect, request, pages>>

\* One whose hash does not match: playRawBlock has parsed it and cleans the
\* cache.
ReceiveFork(txs) ==
  /\ locked = "collector" /\ hand = <<>> /\ forked = "no" /\ blocks # <<>> /\ txs # {}
  /\ txs \cap InChain \subseteq blocks[Len(blocks)].txs
  /\ hand' = <<UnmarshallBlock(txs, TRUE)>>
  /\ parsedTxs' = CleanCache /\ forked' = "found"
  /\ UNCHANGED <<code, newest, where, blocks, locked, inEffect, request, pages>>

\* getBlocks parses the blocks of the host (one here, in the place of the last
\* own one); GetBlocks cleans the cache again and takes back what is verified.
GetBlocks(txs) ==
  /\ forked = "found" /\ txs # {} /\ txs \cap {p.tx : p \in hand[1]} = {}
  /\ txs \cap InChain \subseteq blocks[Len(blocks)].txs
  /\ hand' = <<UnmarshallBlock(txs, TRUE)>> \o hand
  /\ parsedTxs' = CleanCache /\ forked' = "read"
  /\ where' = [t \in CTxs |-> IF where[t] = "pool" THEN "queue" ELSE where[t]]
  /\ UNCHANGED <<code, newest, blocks, locked, inEffect, request, pages>>

RollbackBlock ==
  LET b == blocks[Len(blocks)]
  IN
  /\ forked = "read" /\ forked' = "undone"
  /\ parsedTxs' = Cached(UnmarshallBlock(b.txs, TRUE))
  /\ blocks' = SubSeq(blocks, 1, Len(blocks) - 1) /\ code' = b.code
  /\ where' = [t \in CTxs |-> IF t \in b.txs THEN "queue" ELSE where[t]]
  /\ UNCHANGED <<newest, locked, hand, inEffect, request, pages>>

\* Block.Play with its commit.
PlayBlock ==
  LET txs == {p.tx : p \in Head(hand)}
      edits == txs \cap Editors # {}
  IN
  /\ hand # <<>> /\ forked \in {"no", "undone"}
  /\ edits => newest < MaxVersion
  /\ inEffect' = [code |-> code, txs |-> Head(hand), forked |-> forked]
  /\ blocks' = Append(blocks, [txs |-> txs, code |-> code])
  /\ newest' = IF edits THEN newest + 1 ELSE newest
  /\ code' = IF edits THEN newest + 1 ELSE code
  /\ where' = [t \in CTxs |-> IF t \in txs THEN "chain" ELSE where[t]]
  /\ hand' = Tail(hand)
  /\ locked' = IF locked = "generator" THEN "ready" ELSE locked
  /\ UNCHANGED <<parsedTxs, forked, request, pages>>

\* getBlocksTxInfo, getBlocksDetailedInfo: a request reads a block from the
\* database, and takes no lock for what follows.
GetBlocksInfo(b) ==
  /\ pages < MaxPages /\ pages' = pages + 1
  /\ request = NoRequest /\ request' = [left |-> blocks[b].txs, parsed |-> {}]
  /\ UNCHANGED <<code, newest, where, blocks, parsedTxs, locked, hand, forked, inEffect>>

\* Then, for one transaction after the other, it looks into the cache and parses
\* what is not there,
ParseForPage(t) ==
  /\ t \in request.left /\ request.parsed = {}
  /\ request' = [left |-> request.left \ {t}, parsed |-> IF InCache(t) THEN {} ELSE {Parse(t, FALSE)}]
  /\ UNCHANGED <<code, newest, where, blocks, parsedTxs, locked, hand, forked, inEffect, pages>>

\* and puts it into the cache, in the place of what may be there by now.
CacheForPage(p) ==
  /\ p \in request.parsed /\ request' = [request EXCEPT !.parsed = {}]
  /\ parsedTxs' = {q \in parsedTxs : q.tx # p.tx} \cup {[p EXCEPT !.stray = where[p.tx] # "chain"]}
  /\ UNCHANGED <<code, newest, where, blocks, locked, hand, forked, inEffect, pages>>

Next ==
  \/ \E d \in {"parser", "generator", "collector"} : DBLock(d)
  \/ \E t \in CTxs : ProcessQueueTransaction(t)
  \/ \E txs \in SUBSET CTxs : GenerateBlock(txs) \/ ReceiveBlock(txs) \/ ReceiveFork(txs) \/ GetBlocks(txs)
  \/ \E b \in DOMAIN blocks : GetBlocksInfo(b)
  \/ \E t \in request.left : ParseForPage(t)
  \/ \E p \in request.parsed : CacheForPage(p)
  \/ RollbackBlock \/ PlayBlock \/ DBUnlock

Spec == Init /\ [][Next]_cacheVars

-----------------------------------------------------------------------------
\* A transaction is played with the contract as it is when its block begins and
\* with filled fields, although the parser of the queue, the generator and the
\* API have parsed it before, under other contracts or without filling.  Except
\* where a fork is replaced, and but for one that the API has read from a block
\* and cached after that block was undone (UnmarshallTransaction, DBUnlock).
PlayedAsItIsNow ==
  inEffect.forked = "no" => \A p \in inEffect.txs : p.stray \/ (p.filled /\ p.code = inEffect.code)
=============================================================================
