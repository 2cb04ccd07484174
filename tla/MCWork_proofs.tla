---------------------------- MODULE MCWork_proofs ----------------------------
(***************************************************************************)
(* Proofs about contracts and the services around them (MCWork).  Each     *)
(* machine has an inductive invariant of its own; a step of another one    *)
(* leaves its variables alone.                                             *)
(***************************************************************************)
EXTENDS MCWork, FiniteSetTheorems, TLAPS

-----------------------------------------------------------------------------
(***************************************************************************)
(* The cache of parsed transactions.  It may hold stale entries: of        *)
(* transactions that are in the chain already, and of any when a fork is   *)
(* being replaced or a generator is about to unlock.  CacheIsFresh says    *)
(* that it holds no others but for what the API has put there too late,    *)
(* and the rest of the invariant is what keeps the transactions of the     *)
(* chain apart from those still to be played.                              *)
(***************************************************************************)
Parsed == [tx : CTxs, code : Int, filled : BOOLEAN, stray : BOOLEAN]
Blocks == [txs : SUBSET CTxs, code : Int]
TxsIn(ps) == {p.tx : p \in ps}

CacheTypeOK ==
  /\ code \in Int /\ newest \in Int
  /\ where \in [CTxs -> {"queue", "pool", "chain"}]
  /\ blocks \in Seq(Blocks)
  /\ parsedTxs \in SUBSET Parsed
  /\ locked \in {"nobody", "parser", "generator", "collector", "ready"}
  /\ hand \in Seq(SUBSET Parsed)
  /\ forked \in {"no", "found", "read", "undone"}

\* Which daemon may have what at hand.
CacheStages ==
  /\ locked # "collector" => forked = "no"
  /\ locked \in {"nobody", "parser", "ready"} => hand = <<>>
  /\ forked = "no" => Len(hand) <= 1
  /\ forked = "found" => Len(hand) = 1
  /\ forked \in {"found", "read"} => blocks # <<>>

\* A transaction is in one block, and marked so.
ChainIsMarked ==
  /\ \A b \in DOMAIN blocks : \A t \in blocks[b].txs : where[t] = "chain"
  /\ \A b, c \in DOMAIN blocks : b # c => blocks[b].txs \cap blocks[c].txs = {}

\* What is at hand is not in the chain, or only in the block that will go.
HandIsOutside ==
  /\ \A i \in DOMAIN hand : \A p \in hand[i] :
       where[p.tx] = "chain" => forked \in {"found", "read"} /\ p.tx \in blocks[Len(blocks)].txs
  /\ \A i, j \in DOMAIN hand : i # j => TxsIn(hand[i]) \cap TxsIn(hand[j]) = {}

IsFresh(p) == p.stray = TRUE \/ (p.filled = TRUE /\ p.code = code)

CacheIsFresh ==
  forked = "no" =>
    /\ locked # "ready" => \A p \in parsedTxs : where[p.tx] = "chain" \/ IsFresh(p)
    /\ locked = "nobody" => \A p \in parsedTxs : where[p.tx] = "chain" \/ p.stray = TRUE
    /\ locked = "collector" => \A p \in parsedTxs : where[p.tx] = "chain" \/ p.stray = TRUE \/ \E i \in DOMAIN hand : p.tx \in TxsIn(hand[i])
    /\ \A i \in DOMAIN hand : \A p \in hand[i] : IsFresh(p)

\* The request of the API.
RequestOK == request \in [left : SUBSET CTxs, parsed : SUBSET Parsed]

CacheInv == CacheTypeOK /\ CacheStages /\ ChainIsMarked /\ HandIsOutside /\ CacheIsFresh /\ X!PlayedAsItIsNow

-----------------------------------------------------------------------------
\* A parsed transaction is the cached one, or one of the contracts of now.
LEMMA UnmarshallIs ==
  ASSUME CacheTypeOK, NEW t \in CTxs, NEW f \in BOOLEAN
  PROVE  /\ X!Unmarshall(t, f) \in Parsed
         /\ X!Unmarshall(t, f).tx = t
         /\ X!Unmarshall(t, f) \in parsedTxs \/ X!Unmarshall(t, f) = [tx |-> t, code |-> code, filled |-> f, stray |-> FALSE]
<1>1. CASE \E p \in parsedTxs : p.tx = t
  <2>1. X!Unmarshall(t, f) = CHOOSE p \in parsedTxs : p.tx = t
    BY <1>1 DEF X!Unmarshall, X!InCache
  <2>2. X!Unmarshall(t, f) \in parsedTxs /\ X!Unmarshall(t, f).tx = t
    BY <1>1, <2>1
  <2>3. QED
    BY <2>2 DEF CacheTypeOK
<1>2. CASE ~\E p \in parsedTxs : p.tx = t
  <2>1. X!Unmarshall(t, f) = [tx |-> t, code |-> code, filled |-> f, stray |-> FALSE]
    BY <1>2 DEF X!Unmarshall, X!InCache, X!Parse
  <2>2. QED
    BY <2>1 DEF CacheTypeOK, Parsed
<1>3. QED
  BY <1>1, <1>2

\* The same for a block: it has the transactions that were asked for.
LEMMA UnmarshallBlockIs ==
  ASSUME CacheTypeOK, NEW txs \in SUBSET CTxs, NEW f \in BOOLEAN
  PROVE  /\ X!UnmarshallBlock(txs, f) \in SUBSET Parsed
         /\ TxsIn(X!UnmarshallBlock(txs, f)) = txs
         /\ \A p \in X!UnmarshallBlock(txs, f) :
              p \in parsedTxs \/ p = [tx |-> p.tx, code |-> code, filled |-> f, stray |-> FALSE]
<1>1. \A t \in txs : /\ X!Unmarshall(t, f) \in Parsed
                     /\ X!Unmarshall(t, f).tx = t
                     /\ X!Unmarshall(t, f) \in parsedTxs \/ X!Unmarshall(t, f) = [tx |-> t, code |-> code, filled |-> f, stray |-> FALSE]
  BY UnmarshallIs
<1>2. \A p \in X!UnmarshallBlock(txs, f) : \E t \in txs : p = X!Unmarshall(t, f)
  BY DEF X!UnmarshallBlock
<1>3. \A t \in txs : X!Unmarshall(t, f) \in X!UnmarshallBlock(txs, f)
  BY DEF X!UnmarshallBlock
<1>4. X!UnmarshallBlock(txs, f) \in SUBSET Parsed
  BY <1>1, <1>2
<1>5. TxsIn(X!UnmarshallBlock(txs, f)) = txs
  BY <1>1, <1>2, <1>3 DEF TxsIn
<1>6. \A p \in X!UnmarshallBlock(txs, f) : p \in parsedTxs \/ p = [tx |-> p.tx, code |-> code, filled |-> f, stray |-> FALSE]
  BY <1>1, <1>2
<1>7. QED
  BY <1>4, <1>5, <1>6

\* Outside of a fork, what is not in the chain is parsed under the contracts of
\* now, whether the cache had it or not.
LEMMA FreshBlock ==
  ASSUME CacheTypeOK, CacheIsFresh, forked = "no", locked # "ready",
         NEW txs \in SUBSET CTxs, \A t \in txs : where[t] # "chain"
  PROVE  \A p \in X!UnmarshallBlock(txs, TRUE) : IsFresh(p)
<1>1. ASSUME NEW p \in X!UnmarshallBlock(txs, TRUE) PROVE IsFresh(p)
  <2>0. /\ TxsIn(X!UnmarshallBlock(txs, TRUE)) = txs
        /\ p \in parsedTxs \/ p = [tx |-> p.tx, code |-> code, filled |-> TRUE, stray |-> FALSE]
    BY <1>1, UnmarshallBlockIs
  <2>1. p.tx \in txs
    BY <1>1, <2>0 DEF TxsIn
  <2>2. CASE p \in parsedTxs
    BY <2>1, <2>2 DEF CacheIsFresh
  <2>3. CASE p = [tx |-> p.tx, code |-> code, filled |-> TRUE, stray |-> FALSE]
    BY <2>3 DEF IsFresh
  <2>4. QED
    BY <2>0, <2>2, <2>3
<1>2. QED
  BY <1>1

\* Every block has transactions of CTxs.
LEMMA BlocksAre ==
  ASSUME CacheTypeOK
  PROVE  \A c \in DOMAIN blocks : blocks[c] \in Blocks /\ blocks[c].txs \in SUBSET CTxs /\ blocks[c].code \in Int
<1>1. \A c \in DOMAIN blocks : blocks[c] \in Blocks
  BY DEF CacheTypeOK
<1>2. QED
  BY <1>1 DEF Blocks

\* All but the last of a sequence.
LEMMA FrontIs ==
  ASSUME NEW A, NEW s \in Seq(A), s # <<>>
  PROVE  /\ Len(s) \in Nat /\ Len(s) \in DOMAIN s
         /\ SubSeq(s, 1, Len(s) - 1) \in Seq(A)
         /\ \A c \in DOMAIN SubSeq(s, 1, Len(s) - 1) :
              c \in DOMAIN s /\ c # Len(s) /\ SubSeq(s, 1, Len(s) - 1)[c] = s[c]
OBVIOUS

\* A sequence of one behind another of one.
LEMMA PairIs ==
  ASSUME NEW A, NEW s \in Seq(A), Len(s) = 1, NEW x \in A
  PROVE  /\ <<x>> \o s \in Seq(A) /\ DOMAIN (<<x>> \o s) = {1, 2}
         /\ (<<x>> \o s)[1] = x /\ (<<x>> \o s)[2] = s[1]
<1>1. <<x>> \in Seq(A) /\ Len(<<x>>) = 1 /\ <<x>>[1] = x
  OBVIOUS
<1>2. <<x>> \o s \in Seq(A) /\ Len(<<x>> \o s) = 2
  BY <1>1, SMTT(30)
<1>3. DOMAIN (<<x>> \o s) = 1..2
  BY <1>2
<1>4. \A i \in 1..2 : (<<x>> \o s)[i] = IF i <= Len(<<x>>) THEN <<x>>[i] ELSE s[i - Len(<<x>>)]
  BY <1>1, <1>2
<1>5. (<<x>> \o s)[1] = x
  BY <1>1, <1>4
<1>6. (<<x>> \o s)[2] = s[1]
  BY <1>1, <1>4
<1>7. QED
  BY <1>2, <1>3, <1>5, <1>6

-----------------------------------------------------------------------------
\* It holds at the start.
LEMMA CacheInvInit == X!Init => CacheInv
BY DEF X!Init, CacheInv, CacheTypeOK, CacheStages, ChainIsMarked, HandIsOutside, CacheIsFresh, X!PlayedAsItIsNow, X!Nobody

\* Whoever takes the mutex finds only transactions of the chain in the cache.
LEMMA DBLockInv ==
  ASSUME CacheInv, NEW d \in {"parser", "generator", "collector"}, X!DBLock(d)
  PROVE  CacheInv'
<1>1. hand = <<>> /\ forked = "no"
  BY DEF X!DBLock, X!Nobody, CacheInv, CacheStages
<1>2. CacheTypeOK' /\ CacheStages' /\ ChainIsMarked' /\ HandIsOutside' /\ X!PlayedAsItIsNow'
  BY <1>1 DEF X!DBLock, X!Nobody, CacheInv, CacheTypeOK, CacheStages, ChainIsMarked, HandIsOutside, X!PlayedAsItIsNow
<1>3. CacheIsFresh'
  BY <1>1 DEF X!DBLock, X!Nobody, CacheInv, CacheIsFresh, IsFresh
<1>4. QED
  BY <1>2, <1>3 DEF CacheInv

\* The emptied cache.
LEMMA DBUnlockInv ==
  ASSUME CacheInv, X!DBUnlock
  PROVE  CacheInv'
BY DEF X!DBUnlock, X!CleanCache, X!Nobody, CacheInv, CacheTypeOK, CacheStages, ChainIsMarked, HandIsOutside, CacheIsFresh, X!PlayedAsItIsNow

\* What the queue gives is parsed now, or was since the mutex was taken.
LEMMA ProcessQueueTransactionInv ==
  ASSUME CacheInv, NEW t \in CTxs, X!ProcessQueueTransaction(t)
  PROVE  CacheInv'
<1>1. forked = "no" /\ hand = <<>> /\ locked # "ready" /\ locked # "nobody" /\ locked # "collector" /\ where[t] = "queue"
  BY DEF X!ProcessQueueTransaction, CacheInv, CacheStages
<1>2. parsedTxs' = parsedTxs \cup {X!Unmarshall(t, TRUE)}
  BY DEF X!ProcessQueueTransaction, X!Cached
<1>3. /\ X!Unmarshall(t, TRUE) \in Parsed /\ X!Unmarshall(t, TRUE).tx = t
      /\ X!Unmarshall(t, TRUE) \in parsedTxs \/ X!Unmarshall(t, TRUE) = [tx |-> t, code |-> code, filled |-> TRUE, stray |-> FALSE]
  BY UnmarshallIs DEF CacheInv
<1>4. /\ code' = code /\ newest' = newest /\ blocks' = blocks /\ locked' = locked /\ hand' = hand /\ forked' = forked
      /\ inEffect' = inEffect /\ where' = [where EXCEPT ![t] = "pool"] /\ where \in [CTxs -> {"queue", "pool", "chain"}]
  BY DEF X!ProcessQueueTransaction, CacheInv, CacheTypeOK
<1>5. CacheTypeOK'
  BY <1>2, <1>3, <1>4 DEF CacheInv, CacheTypeOK
<1>6. \A u \in CTxs : where[u] = "chain" <=> where'[u] = "chain"
  BY <1>1, <1>4
<1>7. CacheStages' /\ HandIsOutside' /\ X!PlayedAsItIsNow'
  BY <1>1, <1>4 DEF CacheInv, CacheStages, HandIsOutside, X!PlayedAsItIsNow
<1>8. ChainIsMarked'
  BY <1>4, <1>6, BlocksAre DEF CacheInv, ChainIsMarked
<1>9. CacheIsFresh'
  <2>1. ASSUME NEW p \in parsedTxs' PROVE where'[p.tx] = "chain" \/ IsFresh(p)'
    <3>1. CASE p \in parsedTxs
      BY <1>1, <1>4, <1>6, <3>1 DEF CacheInv, CacheTypeOK, Parsed, CacheIsFresh, IsFresh
    <3>2. CASE p = [tx |-> t, code |-> code, filled |-> TRUE, stray |-> FALSE]
      BY <1>4, <3>2 DEF IsFresh
    <3>3. QED
      BY <1>2, <1>3, <2>1, <3>1, <3>2
  <2>2. QED
    BY <1>1, <1>4, <2>1 DEF CacheIsFresh
<1>10. QED
  BY <1>5, <1>7, <1>8, <1>9 DEF CacheInv

\* A generator parses all that waits, and takes some of it in hand.
LEMMA GenerateBlockInv ==
  ASSUME CacheInv, NEW txs \in SUBSET CTxs, X!GenerateBlock(txs)
  PROVE  CacheInv'
<1> DEFINE waiting == {t \in CTxs : where[t] = "pool"}
           ps == X!UnmarshallBlock(waiting, TRUE)
           mine == {p \in ps : p.tx \in txs}
<1>1. forked = "no" /\ locked = "generator" /\ hand = <<>>
  BY DEF X!GenerateBlock, CacheInv, CacheStages
<1>2. parsedTxs' = parsedTxs \cup ps /\ hand' = <<mine>>
  BY DEF X!GenerateBlock, X!Cached
<1>3. UNCHANGED <<code, newest, where, blocks, locked, forked, inEffect>>
  BY DEF X!GenerateBlock
<1>4. waiting \in SUBSET CTxs /\ \A t \in waiting : where[t] # "chain"
  OBVIOUS
<1>5. ps \in SUBSET Parsed /\ TxsIn(ps) = waiting
  BY <1>4, UnmarshallBlockIs DEF CacheInv
<1>6. \A p \in ps : IsFresh(p)
  BY <1>1, <1>4, FreshBlock DEF CacheInv
<1>7. \A p \in ps : p.tx \in CTxs /\ where[p.tx] # "chain"
  BY <1>4, <1>5 DEF TxsIn
<1> HIDE DEF ps
<1>8. mine \in SUBSET ps
  OBVIOUS
<1> HIDE DEF mine
<1>9. DOMAIN hand' = {1} /\ hand'[1] = mine /\ Len(hand') = 1 /\ hand' \in Seq(SUBSET Parsed)
  BY <1>2, <1>5, <1>8
<1>10. CacheTypeOK'
  BY <1>2, <1>3, <1>5, <1>9 DEF CacheInv, CacheTypeOK
<1>11. CacheStages' /\ ChainIsMarked' /\ X!PlayedAsItIsNow'
  BY <1>1, <1>3, <1>9 DEF CacheInv, CacheStages, ChainIsMarked, X!PlayedAsItIsNow
<1>12. HandIsOutside'
  BY <1>3, <1>7, <1>8, <1>9 DEF HandIsOutside
<1>13. \A p \in parsedTxs' : where'[p.tx] = "chain" \/ IsFresh(p)'
  BY <1>1, <1>2, <1>3, <1>6 DEF CacheInv, CacheIsFresh, IsFresh
<1>14. \A i \in DOMAIN hand' : \A p \in hand'[i] : IsFresh(p)'
  BY <1>3, <1>6, <1>8, <1>9 DEF IsFresh
<1>15. CacheIsFresh'
  BY <1>1, <1>3, <1>13, <1>14 DEF CacheIsFresh
<1>16. QED
  BY <1>10, <1>11, <1>12, <1>15 DEF CacheInv

\* A collector's cache is that of its block, and what the API has put there.
LEMMA ReceiveBlockInv ==
  ASSUME CacheInv, NEW txs \in SUBSET CTxs, X!ReceiveBlock(txs)
  PROVE  CacheInv'
<1> DEFINE ps == X!UnmarshallBlock(txs, TRUE)
<1>1. locked = "collector" /\ hand = <<>> /\ txs \cap X!InChain = {}
  BY DEF X!ReceiveBlock
<1>2. parsedTxs' = parsedTxs \cup ps /\ hand' = <<ps>>
  BY DEF X!ReceiveBlock, X!Cached
<1>3. UNCHANGED <<code, newest, where, blocks, locked, forked, inEffect>>
  BY DEF X!ReceiveBlock
<1>4. \A t \in txs : where[t] # "chain"
  BY <1>1 DEF X!InChain
<1>5. ps \in SUBSET Parsed /\ TxsIn(ps) = txs
  BY UnmarshallBlockIs DEF CacheInv
<1>6. forked = "no" => \A p \in ps : IsFresh(p)
  BY <1>1, <1>4, FreshBlock DEF CacheInv
<1>7. \A p \in ps : p.tx \in CTxs /\ where[p.tx] # "chain"
  BY <1>4, <1>5 DEF TxsIn
<1> HIDE DEF ps
<1>9. DOMAIN hand' = {1} /\ hand'[1] = ps /\ Len(hand') = 1 /\ hand' \in Seq(SUBSET Parsed)
  BY <1>2, <1>5
<1>10. CacheTypeOK'
  BY <1>2, <1>3, <1>5, <1>9 DEF CacheInv, CacheTypeOK
<1>11. CacheStages' /\ ChainIsMarked' /\ X!PlayedAsItIsNow'
  BY <1>1, <1>3, <1>9 DEF CacheInv, CacheStages, ChainIsMarked, X!PlayedAsItIsNow
<1>12. HandIsOutside'
  BY <1>3, <1>7, <1>9 DEF HandIsOutside
<1>13. forked = "no" => \A p \in parsedTxs' : where'[p.tx] = "chain" \/ p.stray = TRUE \/ (IsFresh(p)' /\ p.tx \in TxsIn(ps))
  <2>1. ASSUME forked = "no", NEW p \in parsedTxs PROVE where'[p.tx] = "chain" \/ p.stray = TRUE
    BY <1>1, <1>3, <2>1 DEF CacheInv, CacheIsFresh
  <2>2. ASSUME forked = "no", NEW p \in ps PROVE IsFresh(p)' /\ p.tx \in TxsIn(ps)
    BY <1>3, <1>6, <2>2 DEF IsFresh, TxsIn
  <2>3. QED
    BY <1>2, <2>1, <2>2
<1>14. forked = "no" => \A i \in DOMAIN hand' : \A p \in hand'[i] : IsFresh(p)'
  BY <1>3, <1>6, <1>9 DEF IsFresh
<1>15. CacheIsFresh'
  BY <1>1, <1>3, <1>9, <1>13, <1>14 DEF CacheIsFresh, IsFresh
<1>16. QED
  BY <1>10, <1>11, <1>12, <1>15 DEF CacheInv

\* The fork's block may have transactions of the last own one, of no other.
LEMMA ReceiveForkInv ==
  ASSUME CacheInv, NEW txs \in SUBSET CTxs, X!ReceiveFork(txs)
  PROVE  CacheInv'
<1> DEFINE ps == X!UnmarshallBlock(txs, TRUE)
<1>1. locked = "collector" /\ blocks # <<>> /\ txs \cap X!InChain \subseteq blocks[Len(blocks)].txs
  BY DEF X!ReceiveFork
<1>2. parsedTxs' = {} /\ hand' = <<ps>> /\ forked' = "found"
  BY DEF X!ReceiveFork, X!CleanCache
<1>3. UNCHANGED <<code, newest, where, blocks, locked, inEffect>>
  BY DEF X!ReceiveFork
<1>5. ps \in SUBSET Parsed /\ TxsIn(ps) = txs
  BY UnmarshallBlockIs DEF CacheInv
<1>7. \A p \in ps : where[p.tx] = "chain" => p.tx \in blocks[Len(blocks)].txs
  BY <1>1, <1>5 DEF TxsIn, X!InChain
<1> HIDE DEF ps
<1>9. DOMAIN hand' = {1} /\ hand'[1] = ps /\ Len(hand') = 1 /\ hand' \in Seq(SUBSET Parsed)
  BY <1>2, <1>5
<1>10. CacheTypeOK'
  BY <1>2, <1>3, <1>9 DEF CacheInv, CacheTypeOK
<1>11. CacheStages' /\ ChainIsMarked' /\ X!PlayedAsItIsNow' /\ CacheIsFresh'
  BY <1>1, <1>2, <1>3, <1>9 DEF CacheInv, CacheStages, ChainIsMarked, X!PlayedAsItIsNow, CacheIsFresh
<1>12. HandIsOutside'
  BY <1>2, <1>3, <1>7, <1>9 DEF HandIsOutside
<1>16. QED
  BY <1>10, <1>11, <1>12 DEF CacheInv

\* The second block of the fork goes before the one at hand.
LEMMA GetBlocksInv ==
  ASSUME CacheInv, NEW txs \in SUBSET CTxs, X!GetBlocks(txs)
  PROVE  CacheInv'
<1> DEFINE ps == X!UnmarshallBlock(txs, TRUE)
<1>1. forked = "found" /\ txs \cap TxsIn(hand[1]) = {} /\ txs \cap X!InChain \subseteq blocks[Len(blocks)].txs
  BY DEF X!GetBlocks, TxsIn
<1>2. parsedTxs' = {} /\ hand' = <<ps>> \o hand /\ forked' = "read"
  BY DEF X!GetBlocks, X!CleanCache
<1>3. UNCHANGED <<code, newest, blocks, locked, inEffect>>
  BY DEF X!GetBlocks
<1>4. /\ where' = [t \in CTxs |-> IF where[t] = "pool" THEN "queue" ELSE where[t]]
      /\ where \in [CTxs -> {"queue", "pool", "chain"}]
  BY DEF X!GetBlocks, CacheInv, CacheTypeOK
<1>5. ps \in SUBSET Parsed /\ TxsIn(ps) = txs
  BY UnmarshallBlockIs DEF CacheInv
<1>6. \A p \in ps : where[p.tx] = "chain" => p.tx \in blocks[Len(blocks)].txs
  BY <1>1, <1>5 DEF TxsIn, X!InChain
<1> HIDE DEF ps
<1>7. Len(hand) = 1 /\ hand \in Seq(SUBSET Parsed) /\ DOMAIN hand = {1} /\ hand[1] \in SUBSET Parsed
  <2>1. Len(hand) = 1 /\ hand \in Seq(SUBSET Parsed)
    BY <1>1 DEF CacheInv, CacheTypeOK, CacheStages
  <2>2. DOMAIN hand = 1..1
    BY <2>1
  <2>3. QED
    BY <2>1, <2>2
<1>8. hand' \in Seq(SUBSET Parsed) /\ DOMAIN hand' = {1, 2} /\ hand'[1] = ps /\ hand'[2] = hand[1]
  BY <1>2, <1>5, <1>7, PairIs
<1>9. where' \in [CTxs -> {"queue", "pool", "chain"}] /\ \A t \in CTxs : where'[t] = "chain" <=> where[t] = "chain"
  BY <1>4
<1>10. CacheTypeOK'
  BY <1>2, <1>3, <1>8, <1>9 DEF CacheInv, CacheTypeOK
<1>11. CacheStages' /\ X!PlayedAsItIsNow' /\ CacheIsFresh'
  BY <1>1, <1>2, <1>3 DEF CacheInv, CacheStages, X!PlayedAsItIsNow, CacheIsFresh
<1>12. ChainIsMarked'
  BY <1>3, <1>9, BlocksAre DEF CacheInv, ChainIsMarked
<1>13. HandIsOutside'
  <2>1. \A i \in DOMAIN hand' : \A p \in hand'[i] : p.tx \in CTxs
    BY <1>5, <1>7, <1>8 DEF Parsed
  <2>2. \A p \in hand[1] : where[p.tx] = "chain" => p.tx \in blocks[Len(blocks)].txs
    BY <1>7 DEF CacheInv, HandIsOutside
  <2>3. \A i \in DOMAIN hand' : \A p \in hand'[i] :
          where'[p.tx] = "chain" => forked' \in {"found", "read"} /\ p.tx \in blocks'[Len(blocks')].txs
    BY <1>2, <1>3, <1>6, <1>8, <1>9, <2>1, <2>2
  <2>4. \A i, j \in DOMAIN hand' : i # j => TxsIn(hand'[i]) \cap TxsIn(hand'[j]) = {}
    BY <1>1, <1>5, <1>8
  <2>5. QED
    BY <2>3, <2>4 DEF HandIsOutside, TxsIn
<1>14. QED
  BY <1>10, <1>11, <1>12, <1>13 DEF CacheInv

\* What the undone block had is in no other block.
LEMMA RollbackBlockInv ==
  ASSUME CacheInv, X!RollbackBlock
  PROVE  CacheInv'
<1> DEFINE b == blocks[Len(blocks)]
           ps == X!UnmarshallBlock(b.txs, TRUE)
<1>1. forked = "read" /\ forked' = "undone" /\ blocks # <<>> /\ locked = "collector"
  BY DEF X!RollbackBlock, CacheInv, CacheStages, CacheTypeOK
<1>2. UNCHANGED <<newest, locked, hand, inEffect>> /\ code' = b.code /\ parsedTxs' = parsedTxs \cup ps
  BY DEF X!RollbackBlock, X!Cached
<1>3. /\ where' = [t \in CTxs |-> IF t \in b.txs THEN "queue" ELSE where[t]]
      /\ where \in [CTxs -> {"queue", "pool", "chain"}]
  BY DEF X!RollbackBlock, CacheInv, CacheTypeOK
<1>4. blocks' = SubSeq(blocks, 1, Len(blocks) - 1) /\ blocks \in Seq(Blocks)
  BY DEF X!RollbackBlock, CacheInv, CacheTypeOK
<1>5. Len(blocks) \in Nat \ {0} /\ Len(blocks) \in DOMAIN blocks /\ b \in Blocks /\ b.txs \in SUBSET CTxs /\ b.code \in Int
  BY <1>1, <1>4, FrontIs, BlocksAre DEF CacheInv
<1>6. /\ blocks' \in Seq(Blocks)
      /\ \A c \in DOMAIN blocks' : c \in DOMAIN blocks /\ c # Len(blocks) /\ blocks'[c] = blocks[c]
  BY <1>1, <1>4, FrontIs
<1>7. ps \in SUBSET Parsed
  BY <1>5, UnmarshallBlockIs DEF CacheInv
<1> HIDE DEF ps
<1>8. CacheTypeOK'
  BY <1>1, <1>2, <1>3, <1>5, <1>6, <1>7 DEF CacheInv, CacheTypeOK
<1>9. CacheStages' /\ X!PlayedAsItIsNow' /\ CacheIsFresh'
  BY <1>1, <1>2 DEF CacheInv, CacheStages, X!PlayedAsItIsNow, CacheIsFresh
<1>10. \A t \in CTxs : where'[t] = "chain" <=> where[t] = "chain" /\ t \notin b.txs
  BY <1>3
<1>11. ChainIsMarked'
  <2>1. \A c \in DOMAIN blocks' : \A t \in blocks'[c].txs : t \in CTxs /\ where[t] = "chain" /\ t \notin b.txs
    BY <1>5, <1>6, BlocksAre DEF CacheInv, ChainIsMarked
  <2>2. QED
    BY <1>6, <1>10, <2>1 DEF CacheInv, ChainIsMarked
<1>12. HandIsOutside'
  <2>1. \A i \in DOMAIN hand : \A p \in hand[i] : p.tx \in CTxs
    BY DEF CacheInv, CacheTypeOK, Parsed
  <2>2. \A i \in DOMAIN hand : \A p \in hand[i] : where[p.tx] = "chain" => p.tx \in b.txs
    BY DEF CacheInv, HandIsOutside
  <2>3. \A i \in DOMAIN hand' : \A p \in hand'[i] : where'[p.tx] # "chain"
    BY <1>2, <1>10, <2>1, <2>2
  <2>4. \A i, j \in DOMAIN hand' : i # j => TxsIn(hand'[i]) \cap TxsIn(hand'[j]) = {}
    BY <1>2 DEF CacheInv, HandIsOutside
  <2>5. QED
    BY <2>3, <2>4 DEF HandIsOutside, TxsIn
<1>13. QED
  BY <1>8, <1>9, <1>11, <1>12 DEF CacheInv

\* Playing puts the block at hand into the chain, and with it the entries of the
\* cache that its editors make stale; a generator unlocks next.
LEMMA PlayBlockInv ==
  ASSUME CacheInv, X!PlayBlock
  PROVE  CacheInv'
<1> DEFINE txs == TxsIn(Head(hand))
<1>1. hand # <<>> /\ forked \in {"no", "undone"} /\ hand \in Seq(SUBSET Parsed)
  BY DEF X!PlayBlock, CacheInv, CacheTypeOK
<1>2. hand' = Tail(hand) /\ UNCHANGED <<parsedTxs, forked>> /\ blocks' = Append(blocks, [txs |-> txs, code |-> code])
  BY DEF X!PlayBlock, TxsIn
<1>3. /\ where' = [t \in CTxs |-> IF t \in txs THEN "chain" ELSE where[t]]
      /\ where \in [CTxs -> {"queue", "pool", "chain"}]
  BY DEF X!PlayBlock, TxsIn, CacheInv, CacheTypeOK
<1>4. inEffect' = [code |-> code, txs |-> Head(hand), forked |-> forked]
  BY DEF X!PlayBlock
<1>5. locked' = IF locked = "generator" THEN "ready" ELSE locked
  BY DEF X!PlayBlock
<1>6. code' \in Int /\ newest' \in Int
  BY DEF X!PlayBlock, CacheInv, CacheTypeOK
<1>7. /\ 1 \in DOMAIN hand /\ Head(hand) = hand[1] /\ Head(hand) \in SUBSET Parsed
      /\ hand' \in Seq(SUBSET Parsed)
      /\ \A i \in DOMAIN hand' : i + 1 \in DOMAIN hand /\ i + 1 # 1 /\ hand'[i] = hand[i + 1]
      /\ \A i, j \in DOMAIN hand' : i # j => i + 1 # j + 1
      /\ Len(hand') = Len(hand) - 1 /\ Len(hand) \in Nat
  BY <1>1, <1>2
<1>8. txs \in SUBSET CTxs /\ txs \cap X!InChain = {}
  BY <1>1, <1>7 DEF TxsIn, Parsed, CacheInv, HandIsOutside, X!InChain
<1> HIDE DEF txs
<1>9. locked \in {"generator", "collector"}
  BY <1>1 DEF CacheInv, CacheTypeOK, CacheStages
<1>10. blocks \in Seq(Blocks) /\ [txs |-> txs, code |-> code] \in Blocks
  BY <1>8 DEF CacheInv, CacheTypeOK, Blocks
<1>11. /\ blocks' \in Seq(Blocks) /\ Len(blocks) \in Nat
       /\ DOMAIN blocks' = DOMAIN blocks \cup {Len(blocks) + 1} /\ Len(blocks) + 1 \notin DOMAIN blocks
       /\ blocks'[Len(blocks) + 1] = [txs |-> txs, code |-> code]
       /\ \A c \in DOMAIN blocks : blocks'[c] = blocks[c]
  BY <1>2, <1>10
<1>12. CacheTypeOK'
  BY <1>1, <1>2, <1>3, <1>5, <1>6, <1>7, <1>9, <1>11 DEF CacheInv, CacheTypeOK
<1>13. CacheStages'
  <2>1. forked = "no" => hand' = <<>>
    BY <1>1, <1>2, <1>7 DEF CacheInv, CacheStages
  <2>2. QED
    BY <1>1, <1>2, <1>5, <1>9, <2>1 DEF CacheInv, CacheStages
<1>14. \A t \in CTxs : where'[t] = "chain" <=> where[t] = "chain" \/ t \in txs
  BY <1>3
<1>15. ChainIsMarked'
  <2>1. \A c \in DOMAIN blocks : \A t \in blocks[c].txs : t \in CTxs /\ where[t] = "chain" /\ t \notin txs
    BY <1>8, BlocksAre DEF CacheInv, ChainIsMarked, X!InChain
  <2>2. \A c \in DOMAIN blocks' : \A t \in blocks'[c].txs : where'[t] = "chain"
    BY <1>8, <1>11, <1>14, <2>1
  <2>3. \A c, e \in DOMAIN blocks' : c # e => blocks'[c].txs \cap blocks'[e].txs = {}
    <3>1. SUFFICES ASSUME NEW c \in DOMAIN blocks', NEW e \in DOMAIN blocks', c # e
                   PROVE  blocks'[c].txs \cap blocks'[e].txs = {}
      OBVIOUS
    <3>2. CASE c \in DOMAIN blocks /\ e \in DOMAIN blocks
      BY <1>11, <3>1, <3>2 DEF CacheInv, ChainIsMarked
    <3>3. CASE c = Len(blocks) + 1
      BY <1>11, <2>1, <3>1, <3>3
    <3>4. CASE e = Len(blocks) + 1
      BY <1>11, <2>1, <3>1, <3>4
    <3>5. QED
      BY <1>11, <3>1, <3>2, <3>3, <3>4
  <2>4. QED
    BY <2>2, <2>3 DEF ChainIsMarked
<1>16. HandIsOutside'
  <2>1. \A i, j \in DOMAIN hand' : i # j => TxsIn(hand'[i]) \cap TxsIn(hand'[j]) = {}
    BY <1>7 DEF CacheInv, HandIsOutside
  <2>2. \A i \in DOMAIN hand' : \A p \in hand'[i] : where'[p.tx] # "chain"
    <3>1. SUFFICES ASSUME NEW i \in DOMAIN hand', NEW p \in hand'[i] PROVE where'[p.tx] # "chain"
      OBVIOUS
    <3>2. p \in hand[i + 1] /\ i + 1 \in DOMAIN hand /\ i + 1 # 1
      BY <1>7
    <3>3. p.tx \in CTxs /\ where[p.tx] # "chain"
      BY <1>1, <3>2 DEF CacheInv, HandIsOutside, Parsed
    <3>4. p.tx \in TxsIn(hand[i + 1])
      BY <3>2 DEF TxsIn
    <3>5. p.tx \notin txs
      BY <1>7, <3>2, <3>4 DEF CacheInv, HandIsOutside, txs
    <3>6. QED
      BY <1>14, <3>3, <3>5
  <2>3. QED
    BY <2>1, <2>2 DEF HandIsOutside, TxsIn
<1>17. forked = "no" => hand' = <<>> /\ DOMAIN hand = {1}
  BY <1>1, <1>2, <1>7 DEF CacheInv, CacheStages
<1>18. CacheIsFresh'
  <2>1. ASSUME forked = "no", locked = "collector", NEW p \in parsedTxs PROVE where'[p.tx] = "chain" \/ p.stray = TRUE
    <3>1. p.tx \in CTxs
      BY DEF CacheInv, CacheTypeOK, Parsed
    <3>2. where[p.tx] = "chain" \/ p.stray = TRUE \/ p.tx \in txs
      BY <1>7, <1>17, <2>1 DEF CacheInv, CacheIsFresh, txs
    <3>3. QED
      BY <1>14, <3>1, <3>2
  <2>2. ASSUME forked = "no", locked = "collector", NEW p \in parsedTxs PROVE where'[p.tx] = "chain" \/ IsFresh(p)'
    BY <2>1, <2>2 DEF IsFresh
  <2>3. SUFFICES ASSUME forked = "no" PROVE CacheIsFresh'
    BY <1>2 DEF CacheIsFresh
  <2>4. parsedTxs' = parsedTxs /\ hand' = <<>> /\ locked' \in {"ready", "collector"} /\ (locked' = "collector" => locked = "collector")
    BY <1>2, <1>5, <1>9, <1>17, <2>3
  <2>5. locked' # "ready" => \A p \in parsedTxs' : where'[p.tx] = "chain" \/ IsFresh(p)'
    BY <2>2, <2>3, <2>4
  <2>6. locked' = "collector" => \A p \in parsedTxs' : where'[p.tx] = "chain" \/ p.stray = TRUE
    BY <2>1, <2>3, <2>4
  <2>7. \A i \in DOMAIN hand' : \A p \in hand'[i] : IsFresh(p)'
    BY <2>4
  <2>8. QED
    BY <2>4, <2>5, <2>6, <2>7 DEF CacheIsFresh
<1>19. X!PlayedAsItIsNow'
  <2>1. forked = "no" => \A p \in Head(hand) : IsFresh(p)
    BY <1>7 DEF CacheInv, CacheIsFresh
  <2>2. QED
    BY <1>4, <2>1 DEF X!PlayedAsItIsNow, IsFresh
<1>20. QED
  BY <1>12, <1>13, <1>15, <1>16, <1>18, <1>19 DEF CacheInv

\* The API caches what it did not fill: of the chain, or marked as come too late.
LEMMA CacheForPageInv ==
  ASSUME CacheInv, RequestOK, NEW p \in request.parsed, X!CacheForPage(p)
  PROVE  CacheInv'
<1> DEFINE new == [p EXCEPT !.stray = where[p.tx] # "chain"]
<1>1. /\ UNCHANGED <<code, newest, where, blocks, locked, hand, forked, inEffect>>
      /\ parsedTxs' = {q \in parsedTxs : q.tx # p.tx} \cup {new}
  BY DEF X!CacheForPage
<1>2. p \in Parsed
  BY DEF RequestOK
<1>3. new \in Parsed /\ (where[new.tx] = "chain" \/ new.stray = TRUE)
  BY <1>2 DEF Parsed
<1> HIDE DEF new
<1>4. CacheTypeOK'
  BY <1>1, <1>3 DEF CacheInv, CacheTypeOK
<1>5. CacheStages' /\ ChainIsMarked' /\ HandIsOutside' /\ X!PlayedAsItIsNow'
  BY <1>1 DEF CacheInv, CacheStages, ChainIsMarked, HandIsOutside, X!PlayedAsItIsNow
<1>6. CacheIsFresh'
  BY <1>1, <1>3 DEF CacheInv, CacheIsFresh, IsFresh
<1> QED
  BY <1>4, <1>5, <1>6 DEF CacheInv

\* Before that, a request leaves the cache alone.
LEMMA ReadForPageInv ==
  ASSUME CacheInv, (\E b \in DOMAIN blocks : X!GetBlocksInfo(b)) \/ (\E t \in request.left : X!ParseForPage(t))
  PROVE  CacheInv'
<1>1. UNCHANGED <<code, newest, where, blocks, parsedTxs, locked, hand, forked, inEffect>>
  BY DEF X!GetBlocksInfo, X!ParseForPage
<1> QED
  BY <1>1 DEF CacheInv, CacheTypeOK, CacheStages, ChainIsMarked, HandIsOutside, CacheIsFresh, IsFresh, X!PlayedAsItIsNow

\* A request has transactions of a block.
LEMMA RequestNext ==
  ASSUME CacheInv, RequestOK, X!Next
  PROVE  RequestOK'
<1>1. CASE \E b \in DOMAIN blocks : X!GetBlocksInfo(b)
  <2>1. PICK b \in DOMAIN blocks : request' = [left |-> blocks[b].txs, parsed |-> {}]
    BY <1>1 DEF X!GetBlocksInfo
  <2> QED
    BY <2>1, BlocksAre DEF RequestOK, CacheInv
<1>2. CASE \E t \in request.left : X!ParseForPage(t)
  <2>1. PICK t \in request.left :
          request' = [left |-> request.left \ {t}, parsed |-> IF X!InCache(t) THEN {} ELSE {X!Parse(t, FALSE)}]
    BY <1>2 DEF X!ParseForPage
  <2>2. X!Parse(t, FALSE) \in Parsed
    BY DEF X!Parse, Parsed, RequestOK, CacheInv, CacheTypeOK
  <2> QED
    BY <2>1, <2>2 DEF RequestOK
<1>3. CASE \E p \in request.parsed : X!CacheForPage(p)
  BY <1>3 DEF X!CacheForPage, RequestOK
<1>4. CASE request' = request
  BY <1>4 DEF RequestOK
<1> QED
  BY <1>1, <1>2, <1>3, <1>4 DEF X!Next, X!DBLock, X!ProcessQueueTransaction, X!GenerateBlock, X!ReceiveBlock, X!ReceiveFork,
     X!GetBlocks, X!RollbackBlock, X!PlayBlock, X!DBUnlock

\* A step of any machine keeps it (MCWork!Next).
LEMMA CacheInvNext == CacheInv /\ RequestOK /\ [Next]_vars => CacheInv' /\ RequestOK'
<1> SUFFICES ASSUME CacheInv, RequestOK, [Next]_vars
             PROVE  CacheInv' /\ RequestOK'
  OBVIOUS
<1>1. CASE UNCHANGED cch
  BY <1>1 DEF cch, RequestOK, CacheInv, CacheTypeOK, CacheStages, ChainIsMarked, HandIsOutside, CacheIsFresh, IsFresh,
     X!PlayedAsItIsNow
<1>2. CASE X!Next
  <2>1. CacheInv'
    BY <1>2, DBLockInv, DBUnlockInv, ProcessQueueTransactionInv, GenerateBlockInv, ReceiveBlockInv, ReceiveForkInv,
       GetBlocksInv, RollbackBlockInv, PlayBlockInv, ReadForPageInv, CacheForPageInv
       DEF X!Next
  <2> QED
    BY <1>2, <2>1, RequestNext
<1> QED
  BY <1>1, <1>2 DEF Next, vars

\* The cache of parsed transactions holds, outside of forks, nothing stale of
\* what may still be played, but for what the API has put there too late
\* (UnmarshallTransaction, DBUnlock, getBlocksTxInfo).
THEOREM CacheInvariant == Spec => []CacheInv
<1>1. Init => CacheInv /\ RequestOK
  BY CacheInvInit DEF Init, X!Init, X!NoRequest, RequestOK
<1> QED
  BY <1>1, CacheInvNext, PTL DEF Spec

\* Every transaction of a block that replaces no other is played with the
\* contract as it is when the block begins and with its fields filled, unless it
\* is one that the API has cached after its block was undone
\* (UnmarshallTransaction, DBUnlock, getBlocksTxInfo).
THEOREM AlwaysPlayedAsItIsNow == Spec => []PlayedAsItIsNow
<1>1. CacheInv => PlayedAsItIsNow
  BY DEF CacheInv, PlayedAsItIsNow
<1> QED
  BY <1>1, CacheInvariant, PTL

-----------------------------------------------------------------------------
(***************************************************************************)
(* The watch over transfers.                                               *)
(***************************************************************************)

\* What was found was mailed then or later, a restart forgetting only the first;
\* so an event that is not looked at was mailed within the day.
MoveInv ==
  /\ clock \in Nat /\ made \in Nat
  /\ lastLimitEvents \in [T!Events -> Int] /\ mailed \in [T!Events \cup {"block"} -> Int]
  /\ \A e \in T!Events : mailed[e] >= lastLimitEvents[e] /\ mailed[e] >= T!Never
  /\ T!ExcessIsMailed

\* It holds in the beginning, when the first block is yet to be checked.
LEMMA MoveInvInit == T!Init => MoveInv
BY HoursAssumption DEF T!Init, MoveInv, T!Never, T!ExcessIsMailed

\* An excess depends on the transfers, on the time and on the block alone.
LEMMA ExcessIsSame ==
  ASSUME UNCHANGED <<clock, transfers, made>>, NEW e \in T!Events \cup {"block"}
  PROVE  T!Excess(e)' = T!Excess(e)
<1>1. T!Recent' = T!Recent
  BY DEF T!Recent
<1>2. CASE e = "network"
  BY <1>1, <1>2 DEF T!Excess
<1>3. CASE e = "pair"
  BY <1>1, <1>3 DEF T!Excess
<1>4. CASE e = "block"
  BY <1>4 DEF T!Excess
<1> QED
  BY <1>2, <1>3, <1>4 DEF T!Events

\* A check mails what it finds; what it passes over was found within the day
\* (CheckTokenMovementLimits).
LEMMA CheckKeepsMoveInv ==
  ASSUME MoveInv, T!CheckTokenMovementLimits
  PROVE  MoveInv'
<1> DEFINE found == {e \in T!Events : T!needCheck(e) /\ T!Excess(e)}
<1>1. UNCHANGED <<clock, transfers, made>>
  BY DEF T!CheckTokenMovementLimits
<1>2. /\ lastLimitEvents' = [e \in T!Events |-> IF e \in found THEN clock ELSE lastLimitEvents[e]]
      /\ mailed' = [e \in DOMAIN mailed |-> IF e \in found \/ (e = "block" /\ T!Excess(e)) THEN clock ELSE mailed[e]]
  BY DEF T!CheckTokenMovementLimits
<1>3. DOMAIN mailed = T!Events \cup {"block"} /\ "block" \notin T!Events
  BY DEF MoveInv, T!Events
<1>4. \A e \in T!Events : lastLimitEvents'[e] = IF e \in found THEN clock ELSE lastLimitEvents[e]
  BY <1>2
<1>5. \A e \in T!Events : mailed'[e] = IF e \in found THEN clock ELSE mailed[e]
  BY <1>2, <1>3
<1>6. T!Excess("block") => mailed'["block"] = clock
  BY <1>2, <1>3
<1>7. \A e \in T!Events : mailed'[e] >= lastLimitEvents'[e] /\ mailed'[e] >= T!Never
  BY <1>4, <1>5, HoursAssumption DEF MoveInv, T!Never
<1>8. \A e \in T!Events : T!Excess(e) => clock - mailed'[e] < Hours
  <2> SUFFICES ASSUME NEW e \in T!Events, T!Excess(e)
               PROVE  clock - mailed'[e] < Hours
    OBVIOUS
  <2>1. CASE e \in found
    BY <1>5, <2>1, HoursAssumption DEF MoveInv
  <2>2. CASE e \notin found
    BY <1>5, <2>2, HoursAssumption DEF MoveInv, T!needCheck
  <2> QED
    BY <2>1, <2>2
<1>9. T!ExcessIsMailed'
  <2>1. \A e \in T!Events \cup {"block"} : T!Excess(e)' = T!Excess(e)
    BY <1>1, ExcessIsSame
  <2> QED
    BY <1>1, <1>6, <1>8, <2>1 DEF T!ExcessIsMailed
<1>10. lastLimitEvents' \in [T!Events -> Int] /\ mailed' \in [T!Events \cup {"block"} -> Int]
  BY <1>2, <1>3 DEF MoveInv
<1> QED
  BY <1>1, <1>7, <1>9, <1>10 DEF MoveInv

\* Blocks are made, and mails forgotten, between two checks (NextBlock, Restart).
LEMMA OthersKeepMoveInv ==
  ASSUME MoveInv,
         \/ \E w, v \in Payers, a \in Amounts : T!Transfer(w, v, a)
         \/ T!NextBlock \/ T!Restart
  PROVE  MoveInv'
<1>1. CASE \E w, v \in Payers, a \in Amounts : T!Transfer(w, v, a)
  <2>1. checked < made /\ UNCHANGED <<clock, made, lastLimitEvents, mailed, checked>>
    BY <1>1 DEF T!Transfer
  <2> QED
    BY <2>1 DEF MoveInv, T!ExcessIsMailed
<1>2. CASE T!NextBlock
  <2>1. checked = made /\ checked' = checked /\ made' = made + 1 /\ clock' = clock + 1
        /\ UNCHANGED <<lastLimitEvents, mailed>>
    BY <1>2 DEF T!NextBlock
  <2> QED
    BY <2>1 DEF MoveInv, T!ExcessIsMailed
<1>3. CASE T!Restart
  <2>1. lastLimitEvents' = [e \in T!Events |-> T!Never] /\ UNCHANGED <<clock, transfers, made, mailed, checked>>
    BY <1>3 DEF T!Restart
  <2>2. T!ExcessIsMailed'
    <3>1. \A e \in T!Events \cup {"block"} : T!Excess(e)' = T!Excess(e)
      BY <2>1, ExcessIsSame
    <3> QED
      BY <2>1, <3>1 DEF MoveInv, T!ExcessIsMailed
  <2>3. lastLimitEvents' \in [T!Events -> Int] /\ \A e \in T!Events : lastLimitEvents'[e] = T!Never
    BY <2>1, HoursAssumption DEF T!Never
  <2> QED
    BY <2>1, <2>2, <2>3, HoursAssumption DEF MoveInv, T!Never
<1> QED
  BY <1>1, <1>2, <1>3

\* A step of any machine keeps it (MCWork!Next).
LEMMA MoveInvNext == MoveInv /\ [Next]_vars => MoveInv'
<1> SUFFICES ASSUME MoveInv, [Next]_vars
             PROVE  MoveInv'
  OBVIOUS
<1>1. CASE T!Next
  BY <1>1, CheckKeepsMoveInv, OthersKeepMoveInv DEF T!Next
<1>2. CASE UNCHANGED mov
  <2>1. \A e \in T!Events \cup {"block"} : T!Excess(e)' = T!Excess(e)
    BY <1>2, ExcessIsSame DEF mov
  <2> QED
    BY <1>2, <2>1 DEF mov, MoveInv, T!ExcessIsMailed
<1> QED
  BY <1>1, <1>2 DEF Next, vars

\* When a block has been checked, every excess of its day has been mailed within
\* the last day, also across restarts (CheckTokenMovementLimits, needCheck).
THEOREM ExcessIsAlwaysMailed == Spec => []ExcessIsMailed
<1>1. Init => MoveInv
  BY MoveInvInit DEF Init
<1>2. MoveInv => ExcessIsMailed
  BY DEF MoveInv, ExcessIsMailed
<1> QED
  BY <1>1, <1>2, MoveInvNext, PTL DEF Spec

-----------------------------------------------------------------------------
(***************************************************************************)
(* Texts in several languages.                                             *)
(***************************************************************************)
Texts == [Resources -> {L!NoRow} \cup {L!Row(d) : d \in Dictionaries}]

\* The cache, once there is one, has the rows that the block sees, for every
\* name that is not known to be astray; outside of blocks these are the stored
\* ones.
LangInv ==
  /\ stored \in Texts /\ pending \in Texts /\ earlier \in Texts /\ loaders \in SUBSET Texts
  /\ inBlock \in BOOLEAN
  /\ lang = <<>> \/ \E rows \in Texts : lang = <<rows>>
  /\ ~inBlock => pending = stored
  /\ lang # <<>> => \A n \in Resources \ astray : lang[1][n] = pending[n]
  /\ L!TextIsTheStored

\* A row that is not there has no text.
LEMMA MissingRows == ASSUME NEW rows \in Texts, NEW n \in Resources, ~rows[n].there PROVE rows[n] = L!NoRow
BY DEF Texts, L!Row

\* It holds in the beginning.
LEMMA LangInvInit == L!Init => LangInv
<1> SUFFICES ASSUME L!Init
             PROVE  LangInv
  OBVIOUS
<1>1. PICK n \in Resources, d \in Dictionaries : stored = [m \in Resources |-> IF m = n THEN L!Row(d) ELSE L!NoRow]
  BY DEF L!Init, L!FirstTexts
<1>2. stored \in Texts
  BY <1>1 DEF Texts
<1> QED
  BY <1>2 DEF L!Init, LangInv, L!TextIsTheStored, L!Nobody

\* An edit changes the cache as it changes the rows, or marks the name: with the
\* first edit after a start, all other names that have a row (UpdateLang).
LEMMA WriteKeepsLangInv ==
  ASSUME LangInv, NEW name \in Resources, NEW d \in Dictionaries, NEW well \in BOOLEAN, L!Write(name, d, well)
  PROVE  LangInv'
<1> DEFINE old == IF lang = <<>> THEN [m \in Resources |-> L!NoRow] ELSE lang[1]
           new == IF d = L!None THEN old ELSE [old EXCEPT ![name] = L!Row(d)]
           left == IF lang = <<>> THEN {m \in Resources \ {name} : pending[m].there} ELSE {}
<1>1. inBlock /\ inBlock' = inBlock /\ UNCHANGED <<stored, earlier, loaders, answer>>
  BY DEF L!Write
<1>2. /\ lang' = <<new>>
      /\ pending' = IF well THEN [pending EXCEPT ![name] = L!Row(d)] ELSE pending
      /\ astray' = left \cup IF well /\ d # L!None THEN astray \ {name} ELSE astray \cup {name}
  BY DEF L!Write, L!UpdateLang
<1>3. old \in Texts /\ (lang # <<>> => old = lang[1])
  BY DEF LangInv, Texts
<1>4. \A n \in Resources : n \notin left /\ n # name /\ n \notin astray => old[n] = pending[n]
  <2> SUFFICES ASSUME NEW n \in Resources, n \notin left, n # name, n \notin astray
               PROVE  old[n] = pending[n]
    OBVIOUS
  <2>1. CASE lang = <<>>
    BY <2>1, MissingRows DEF LangInv
  <2>2. CASE lang # <<>>
    BY <1>3, <2>2 DEF LangInv
  <2> QED
    BY <2>1, <2>2
<1> HIDE DEF old, left
<1>5. new \in Texts /\ pending' \in Texts
  BY <1>2, <1>3 DEF LangInv, Texts
<1>6. \A n \in Resources \ astray' : new[n] = pending'[n]
  <2> SUFFICES ASSUME NEW n \in Resources, n \notin astray'
               PROVE  new[n] = pending'[n]
    OBVIOUS
  <2>1. CASE n = name
    BY <1>2, <1>3, <2>1 DEF LangInv, Texts
  <2>2. CASE n # name
    <3>1. new[n] = old[n] /\ pending'[n] = pending[n]
      BY <1>2, <1>3, <2>2 DEF LangInv, Texts
    <3> QED
      BY <1>2, <1>4, <2>2, <3>1
  <2> QED
    BY <2>1, <2>2
<1> HIDE DEF new
<1>7. lang'[1] = new
  BY <1>2
<1> QED
  BY <1>1, <1>2, <1>5, <1>6, <1>7 DEF LangInv, L!TextIsTheStored

\* A block that fails, one that is undone, and a load that an edit has passed
\* mark the names that differ (EndBlock, RollbackBlock, loadLang).
LEMMA BlockKeepsLangInv ==
  ASSUME LangInv,
         \/ L!BeginBlock \/ L!Undo \/ L!Restart \/ L!BeginLoad
         \/ \E well \in BOOLEAN : L!EndBlock(well)
         \/ \E rows \in loaders : L!EndLoad(rows)
  PROVE  LangInv'
<1>1. CASE L!BeginBlock
  BY <1>1 DEF L!BeginBlock, LangInv, L!TextIsTheStored
<1>2. CASE L!Undo
  BY <1>2 DEF L!Undo, LangInv, L!TextIsTheStored
<1>3. CASE L!Restart
  BY <1>3 DEF L!Restart, LangInv, L!TextIsTheStored
<1>4. CASE L!BeginLoad
  BY <1>4 DEF L!BeginLoad, LangInv, L!TextIsTheStored
<1>5. ASSUME NEW well \in BOOLEAN, L!EndBlock(well) PROVE LangInv'
  BY <1>5 DEF L!EndBlock, LangInv, L!TextIsTheStored
<1>6. ASSUME NEW rows \in loaders, L!EndLoad(rows) PROVE LangInv'
  <2>1. rows \in Texts /\ lang' = <<rows>> /\ lang'[1] = rows
    BY <1>6 DEF L!EndLoad, LangInv
  <2> QED
    BY <1>6, <2>1 DEF L!EndLoad, LangInv, L!TextIsTheStored
<1> QED
  BY <1>1, <1>2, <1>3, <1>4, <1>5, <1>6

\* A reader of a name that is not astray is given the text of its stored row.
LEMMA LangTextKeepsLangInv ==
  ASSUME LangInv, NEW n \in Resources, NEW a \in Accepts, L!LangText(n, a)
  PROVE  LangInv'
<1>1. lang # <<>> /\ ~inBlock /\ UNCHANGED <<stored, pending, earlier, lang, loaders, inBlock, astray>>
  BY DEF L!LangText
<1>2. PICK text \in IF lang[1][n].there THEN L!LangTexts(lang[1][n].res, a) ELSE {n} :
        answer' = [name |-> n, accept |-> a, stored |-> stored[n], sure |-> n \notin astray, text |-> text]
  BY DEF L!LangText
<1>3. n \notin astray => lang[1][n] = stored[n]
  BY <1>1 DEF LangInv
<1>4. ASSUME NEW res, L!Lng(res, a) \in DOMAIN res, res[L!Lng(res, a)] # ""
      PROVE  L!LangTexts(res, a) = {res[L!Lng(res, a)]}
  BY <1>4 DEF L!LangTexts
<1>5. L!TextIsTheStored'
  <2> SUFFICES ASSUME n \notin astray
               PROVE  IF ~stored[n].there THEN text = n
                      ELSE L!Lng(stored[n].res, a) \in DOMAIN stored[n].res /\ stored[n].res[L!Lng(stored[n].res, a)] # ""
                           => text = stored[n].res[L!Lng(stored[n].res, a)]
    BY <1>2 DEF L!TextIsTheStored
  <2> QED
    BY <1>2, <1>3, <1>4
<1> QED
  BY <1>1, <1>5 DEF LangInv

\* A step of any machine keeps it (MCWork!Next).
LEMMA LangInvNext == LangInv /\ [Next]_vars => LangInv'
<1> SUFFICES ASSUME LangInv, [Next]_vars
             PROVE  LangInv'
  OBVIOUS
<1>1. CASE L!Next
  BY <1>1, WriteKeepsLangInv, BlockKeepsLangInv, LangTextKeepsLangInv DEF L!Next
<1>2. CASE UNCHANGED lng
  BY <1>2 DEF lng, LangInv, L!TextIsTheStored
<1> QED
  BY <1>1, <1>2 DEF Next, vars

\* A reader gets the stored text, except for the names that are known to be
\* astray: there is no other way for the cache to differ (UpdateLang, loadLang,
\* LangText).
THEOREM TextIsAlwaysTheStored == Spec => []TextIsTheStored
<1>1. Init => LangInv
  BY LangInvInit DEF Init
<1>2. LangInv => TextIsTheStored
  BY DEF LangInv, TextIsTheStored
<1> QED
  BY <1>1, <1>2, LangInvNext, PTL DEF Spec

-----------------------------------------------------------------------------
(***************************************************************************)
(* Child nodes.                                                            *)
(***************************************************************************)
VDESteps == {"none", "database", "createdb", "directory", "config", "commands", "cancel db", "cancel all",
             "cancel dir", "removed", "drop"}
VDEJobs == [user : VDEUsers \cup {"none"}, step : VDESteps]
VDEOwners == VDEUsers \cup {"none"}
VDEDirs == {"none", "empty", "config"}
VDEProcs == {"none", "RUNNING", "STOPPED"}

VDEType ==
  /\ role \in SUBSET VDEUsers /\ undropped \in SUBSET role /\ owner \in [VDENames -> VDEOwners] /\ dir \in [VDENames -> VDEDirs]
  /\ proc \in [VDENames -> VDEProcs] /\ job \in [VDENames -> VDEJobs]

\* All of a child node or nothing: its owner, directory and process.
Standing(o, d, p) == (o # "none" <=> d = "config") /\ d # "empty" /\ (p # "none" => d = "config")

\* What is there of a child node at each step of an operation.
Consistent(j, o, d, p) ==
  CASE j.step = "none" -> j = V!Idle /\ Standing(o, d, p)
    [] j.step \in {"database", "createdb"} -> j.user # "none" /\ Standing(o, d, p)
    [] j.step = "removed" -> Standing(o, d, p) /\ p = "none"
    [] j.step \in {"directory", "cancel db"} -> o = j.user /\ o # "none" /\ d = "none" /\ p = "none"
    [] j.step = "config" -> o = j.user /\ o # "none" /\ d = "empty" /\ p = "none"
    [] j.step \in {"commands", "drop"} -> o = j.user /\ o # "none" /\ d = "config" /\ p = "none"
    [] j.step = "cancel all" -> o = j.user /\ o # "none" /\ p = "none"
    [] j.step = "cancel dir" -> o = "none" /\ p = "none"

\* A role is for the name of its database, or of the operation that has made
\* the role and not yet the database.
Holds(j, o, u) == o = u \/ (j.step = "createdb" /\ j.user = u)

\* A role is there for one name, and for one thing of it, or it could not be
\* dropped.
RolesAreHeld ==
  /\ \A u \in VDEUsers : u \in role \ undropped <=> \E n \in VDENames : Holds(job[n], owner[n], u)
  /\ \A u \in VDEUsers : \A n, m \in VDENames : Holds(job[n], owner[n], u) /\ Holds(job[m], owner[m], u) => n = m
  /\ \A n \in VDENames : job[n].step = "createdb" => job[n].user # owner[n]

VDEInv ==
  ~broken => VDEType /\ RolesAreHeld /\ \A n \in VDENames : Consistent(job[n], owner[n], dir[n], proc[n])

\* It holds in the beginning.
LEMMA VDEInvInit == V!Init => VDEInv
<1> SUFFICES ASSUME V!Init
             PROVE  VDEInv
  OBVIOUS
<1>1. VDEType
  BY DEF V!Init, V!Idle, VDEType, VDESteps, VDEJobs, VDEOwners, VDEDirs, VDEProcs
<1>2. \A n \in VDENames : job[n] = V!Idle /\ owner[n] = "none" /\ dir[n] = "none" /\ proc[n] = "none"
  BY DEF V!Init
<1>3. Consistent(V!Idle, "none", "none", "none")
  BY DEF Consistent, Standing, V!Idle
<1>4. RolesAreHeld
  BY <1>2, VDEUsersAssumption DEF V!Init, RolesAreHeld, Holds, V!Idle
<1> QED
  BY <1>1, <1>2, <1>3, <1>4 DEF VDEInv

\* And it is enough.
LEMMA VDEInvEnough == VDEInv => V!NothingLeftOver
<1> SUFFICES ASSUME VDEInv, ~broken
             PROVE  V!NothingLeftOver
  BY DEF V!NothingLeftOver
<1>0. VDEType /\ RolesAreHeld /\ \A n \in VDENames : Consistent(job[n], owner[n], dir[n], proc[n])
  BY DEF VDEInv
<1>1. ASSUME NEW n \in VDENames, job[n] = V!Idle PROVE Standing(owner[n], dir[n], proc[n])
  <2>1. job[n].step = "none"
    BY <1>1 DEF V!Idle
  <2> QED
    BY <1>0, <2>1 DEF Consistent
<1>2. \A n \in VDENames : owner[n] \in (role \ undropped) \cup {"none"}
  BY <1>0 DEF VDEType, VDEOwners, RolesAreHeld, Holds
<1>3. role \subseteq {owner[n] : n \in VDENames} \cup {job[n].user : n \in VDENames} \cup undropped
  BY <1>0 DEF VDEType, RolesAreHeld, Holds
<1> QED
  BY <1>1, <1>2, <1>3 DEF V!NothingLeftOver, Standing

\* A step for the name n alone, and what there is of it then.
Moves(n, j, o, d, p) ==
  /\ job' = [job EXCEPT ![n] = j] /\ owner' = [owner EXCEPT ![n] = o]
  /\ dir' = [dir EXCEPT ![n] = d] /\ proc' = [proc EXCEPT ![n] = p]

\* What a step does not touch it moves to where it is.
LEMMA Stays ==
  ASSUME VDEType, NEW n \in VDENames
  PROVE  /\ UNCHANGED job => job' = [job EXCEPT ![n] = job[n]]
         /\ UNCHANGED owner => owner' = [owner EXCEPT ![n] = owner[n]]
         /\ UNCHANGED dir => dir' = [dir EXCEPT ![n] = dir[n]]
         /\ UNCHANGED proc => proc' = [proc EXCEPT ![n] = proc[n]]
         /\ job[n] \in VDEJobs /\ owner[n] \in VDEOwners /\ dir[n] \in VDEDirs /\ proc[n] \in VDEProcs
BY DEF VDEType

LEMMA MovesType ==
  ASSUME VDEType, NEW n \in VDENames, NEW j \in VDEJobs, NEW o \in VDEOwners, NEW d \in VDEDirs, NEW p \in VDEProcs,
         Moves(n, j, o, d, p), role' \in SUBSET VDEUsers, undropped' \in SUBSET role'
  PROVE  /\ VDEType'
         /\ job'[n] = j /\ owner'[n] = o /\ dir'[n] = d /\ proc'[n] = p
         /\ \A m \in VDENames \ {n} : job'[m] = job[m] /\ owner'[m] = owner[m] /\ dir'[m] = dir[m] /\ proc'[m] = proc[m]
BY DEF VDEType, Moves

\* Such a step keeps the invariant if it does for its own name, and if it gives
\* a role that is new or takes one that the name had.
LEMMA MovesKeepVDEInv ==
  ASSUME VDEInv, ~broken, ~broken', NEW n \in VDENames,
         NEW j \in VDEJobs, NEW o \in VDEOwners, NEW d \in VDEDirs, NEW p \in VDEProcs, Moves(n, j, o, d, p),
         Consistent(job[n], owner[n], dir[n], proc[n]) => Consistent(j, o, d, p),
         NEW u \in VDEOwners,
         \/ /\ UNCHANGED <<role, undropped>>
            /\ \A v \in VDEUsers : Holds(j, o, v) <=> Holds(job[n], owner[n], v)
         \/ /\ role' = role \cup {u} /\ u \in VDEUsers \ role /\ UNCHANGED undropped
            /\ \A v \in VDEUsers : Holds(j, o, v) <=> Holds(job[n], owner[n], v) \/ v = u
         \/ /\ V!DropRole(u) /\ u \in VDEUsers /\ Holds(job[n], owner[n], u)
            /\ \A v \in VDEUsers : Holds(j, o, v) <=> Holds(job[n], owner[n], v) /\ v # u,
         j.step = "createdb" => j.user # o
  PROVE  VDEInv'
<1>0. VDEType /\ RolesAreHeld /\ Consistent(j, o, d, p) /\ \A m \in VDENames : Consistent(job[m], owner[m], dir[m], proc[m])
  BY DEF VDEInv
<1> DEFINE live == role \ undropped
<1>1. /\ role' \in SUBSET VDEUsers /\ undropped' \in SUBSET role'
      /\ \/ live' = live /\ \A v \in VDEUsers : Holds(j, o, v) <=> Holds(job[n], owner[n], v)
         \/ /\ live' = live \cup {u} /\ u \in VDEUsers \ live
            /\ \A v \in VDEUsers : Holds(j, o, v) <=> Holds(job[n], owner[n], v) \/ v = u
         \/ /\ live' = live \ {u} /\ Holds(job[n], owner[n], u)
            /\ \A v \in VDEUsers : Holds(j, o, v) <=> Holds(job[n], owner[n], v) /\ v # u
  <2>1. role \in SUBSET VDEUsers /\ undropped \in SUBSET role
    BY <1>0 DEF VDEType
  <2>2. CASE /\ UNCHANGED <<role, undropped>>
             /\ \A v \in VDEUsers : Holds(j, o, v) <=> Holds(job[n], owner[n], v)
    BY <2>1, <2>2
  <2>3. CASE /\ role' = role \cup {u} /\ u \in VDEUsers \ role /\ UNCHANGED undropped
             /\ \A v \in VDEUsers : Holds(j, o, v) <=> Holds(job[n], owner[n], v) \/ v = u
    BY <2>1, <2>3
  <2>4. CASE /\ V!DropRole(u) /\ u \in VDEUsers /\ Holds(job[n], owner[n], u)
             /\ \A v \in VDEUsers : Holds(j, o, v) <=> Holds(job[n], owner[n], v) /\ v # u
    <3>1. u \in live
      BY <1>0, <2>4 DEF RolesAreHeld
    <3>2. live' = live \ {u} /\ role' \in SUBSET VDEUsers /\ undropped' \in SUBSET role'
      BY <2>1, <2>4, <3>1 DEF V!DropRole
    <3> QED
      BY <2>4, <3>2
  <2> QED
    BY <2>2, <2>3, <2>4
<1> HIDE DEF live
<1>2. VDEType' /\ job'[n] = j /\ owner'[n] = o /\ dir'[n] = d /\ proc'[n] = p
  BY <1>0, <1>1, MovesType
<1>3. \A m \in VDENames \ {n} : job'[m] = job[m] /\ owner'[m] = owner[m] /\ dir'[m] = dir[m] /\ proc'[m] = proc[m]
  BY <1>0, <1>1, MovesType
<1>4. \A m \in VDENames : Consistent(job'[m], owner'[m], dir'[m], proc'[m])
  BY <1>0, <1>2, <1>3
<1>5. \A m \in VDENames : job'[m].step = "createdb" => job'[m].user # owner'[m]
  BY <1>0, <1>2, <1>3 DEF RolesAreHeld
<1> DEFINE H(m, v) == Holds(job[m], owner[m], v)
           G(m, v) == Holds(job'[m], owner'[m], v)
<1>6. /\ \A v \in VDEUsers : v \in live <=> \E m \in VDENames : H(m, v)
      /\ \A v \in VDEUsers : \A k, m \in VDENames : H(k, v) /\ H(m, v) => k = m
  BY <1>0 DEF RolesAreHeld, live
<1>7. \A m \in VDENames \ {n} : \A v \in VDEUsers : G(m, v) <=> H(m, v)
  BY <1>3
<1>8. \/ live' = live /\ \A v \in VDEUsers : G(n, v) <=> H(n, v)
      \/ live' = live \cup {u} /\ u \in VDEUsers \ live /\ \A v \in VDEUsers : G(n, v) <=> H(n, v) \/ v = u
      \/ live' = live \ {u} /\ H(n, u) /\ \A v \in VDEUsers : G(n, v) <=> H(n, v) /\ v # u
  BY <1>1, <1>2
<1> HIDE DEF H, G
<1>9. /\ \A v \in VDEUsers : v \in live' <=> \E m \in VDENames : G(m, v)
      /\ \A v \in VDEUsers : \A k, m \in VDENames : G(k, v) /\ G(m, v) => k = m
  BY <1>6, <1>7, <1>8
<1>10. RolesAreHeld'
  BY <1>5, <1>9 DEF RolesAreHeld, G, live
<1> QED
  BY <1>2, <1>4, <1>10 DEF VDEInv

\* A step that touches neither roles nor databases, nor is between the two.
LEMMA QuietMovesKeepVDEInv ==
  ASSUME VDEInv, ~broken, ~broken', NEW n \in VDENames, NEW j \in VDEJobs, NEW d \in VDEDirs, NEW p \in VDEProcs,
         Moves(n, j, owner[n], d, p), UNCHANGED <<role, undropped>>,
         Consistent(job[n], owner[n], dir[n], proc[n]) => Consistent(j, owner[n], d, p),
         j.step # "createdb", job[n].step # "createdb"
  PROVE  VDEInv'
<1>1. owner[n] \in VDEOwners /\ "none" \in VDEOwners
  BY Stays DEF VDEInv, VDEOwners
<1>2. \A v \in VDEUsers : Holds(j, owner[n], v) <=> Holds(job[n], owner[n], v)
  BY DEF Holds
<1> QED
  BY <1>1, <1>2, MovesKeepVDEInv

\* The step of a job, and its end.
LEMMA JobIs ==
  ASSUME NEW j \in VDEJobs, NEW s \in VDESteps, NEW u \in VDEOwners
  PROVE  /\ [j EXCEPT !.step = s] \in VDEJobs /\ [j EXCEPT !.step = s].step = s /\ [j EXCEPT !.step = s].user = j.user
         /\ [user |-> u, step |-> s] \in VDEJobs /\ [user |-> u, step |-> s].step = s /\ [user |-> u, step |-> s].user = u
         /\ j.user \in VDEOwners
BY DEF VDEJobs, VDEOwners

LEMMA IdleIs == V!Idle \in VDEJobs /\ V!Idle.step = "none" /\ V!Idle.user = "none"
BY DEF VDEJobs, VDESteps, V!Idle

\* CreateVDE begins.
LEMMA CreateVDEKeepsVDEInv ==
  ASSUME VDEInv, ~broken, NEW n \in VDENames, NEW u \in VDEUsers, V!CreateVDE(n, u)
  PROVE  VDEInv'
<1> DEFINE j == [user |-> u, step |-> "database"]
<1>1. UNCHANGED <<role, undropped, owner, dir, proc, broken>> /\ job[n] = V!Idle /\ job' = [job EXCEPT ![n] = j]
  BY DEF V!CreateVDE, V!Begin
<1>2. VDEType /\ Moves(n, j, owner[n], dir[n], proc[n])
  BY <1>1, Stays DEF VDEInv, Moves
<1>3. u \in VDEOwners /\ u # "none" /\ "database" \in VDESteps
  BY VDEUsersAssumption DEF VDEOwners, VDESteps
<1>4. j \in VDEJobs /\ j.step = "database" /\ j.user = u /\ job[n].step = "none"
  <2>1. job[n] \in VDEJobs
    BY <1>2, Stays
  <2> QED
    BY <1>1, <1>3, <2>1, JobIs, IdleIs
<1> HIDE DEF j
<1>5. Consistent(job[n], owner[n], dir[n], proc[n]) => Consistent(j, owner[n], dir[n], proc[n])
  BY <1>3, <1>4 DEF Consistent
<1> QED
  BY <1>1, <1>2, <1>4, <1>5, Stays, QuietMovesKeepVDEInv

\* The role is made, of a user that has none.
LEMMA CreateRoleKeepsVDEInv ==
  ASSUME VDEInv, ~broken, NEW n \in VDENames, V!CreateRole(n)
  PROVE  VDEInv'
<1> DEFINE u == job[n].user
           j == [job[n] EXCEPT !.step = "createdb"]
<1>1. /\ UNCHANGED <<undropped, owner, dir, proc, broken>> /\ job[n].step = "database"
      /\ job' = [job EXCEPT ![n] = j]
      /\ u \notin role /\ role' = role \cup {u}
  BY DEF V!CreateRole, V!At, V!To
<1>2. VDEType /\ Moves(n, j, owner[n], dir[n], proc[n])
  BY <1>1, Stays DEF VDEInv, Moves
<1>3. j \in VDEJobs /\ j.step = "createdb" /\ j.user = u /\ u \in VDEOwners
  <2>1. job[n] \in VDEJobs /\ "createdb" \in VDESteps /\ "none" \in VDEOwners
    BY <1>2, Stays DEF VDESteps, VDEOwners
  <2> QED
    BY <2>1, JobIs, ZenonT(60)
<1>4. Consistent(job[n], owner[n], dir[n], proc[n])
  BY DEF VDEInv
<1>5. u # "none"
  BY <1>1, <1>4 DEF Consistent
<1>6. u \in VDEUsers
  BY <1>3, <1>5 DEF VDEOwners
<1>7. owner[n] # u
  BY <1>1, <1>6 DEF VDEInv, RolesAreHeld, Holds
<1> HIDE DEF j, u
<1>8. Consistent(j, owner[n], dir[n], proc[n])
  BY <1>1, <1>3, <1>4, <1>5 DEF Consistent
<1>9. \A v \in VDEUsers : Holds(j, owner[n], v) <=> Holds(job[n], owner[n], v) \/ v = u
  BY <1>1, <1>3 DEF Holds
<1>10. owner[n] \in VDEOwners /\ dir[n] \in VDEDirs /\ proc[n] \in VDEProcs
  BY <1>2, Stays
<1> QED
  BY <1>1, <1>2, <1>3, <1>6, <1>7, <1>8, <1>9, <1>10, MovesKeepVDEInv

\* The role that is there already belongs to another.
LEMMA RoleExistsKeepsVDEInv ==
  ASSUME VDEInv, ~broken, NEW n \in VDENames, V!RoleExists(n)
  PROVE  VDEInv'
<1>1. UNCHANGED <<role, undropped, owner, dir, proc, broken>> /\ job[n].step = "database" /\ job' = [job EXCEPT ![n] = V!Idle]
  BY DEF V!RoleExists, V!At, V!End
<1>2. VDEType /\ Moves(n, V!Idle, owner[n], dir[n], proc[n])
  BY <1>1, Stays DEF VDEInv, Moves
<1>3. V!Idle \in VDEJobs /\ V!Idle.step = "none"
  BY IdleIs
<1>4. Consistent(job[n], owner[n], dir[n], proc[n]) => Consistent(V!Idle, owner[n], dir[n], proc[n])
  BY <1>1, <1>3 DEF Consistent
<1> QED
  BY <1>1, <1>2, <1>3, <1>4, Stays, QuietMovesKeepVDEInv

\* The database takes the role over, or the role goes.
LEMMA CreateDBKeepsVDEInv ==
  ASSUME VDEInv, ~broken, NEW n \in VDENames, V!CreateDB(n)
  PROVE  VDEInv'
<1> DEFINE u == job[n].user
           j == [job[n] EXCEPT !.step = "directory"]
<1>1. VDEType /\ Consistent(job[n], owner[n], dir[n], proc[n]) /\ job[n].step = "createdb" /\ u # owner[n]
  BY DEF VDEInv, V!CreateDB, V!At, RolesAreHeld
<1>2. u \in VDEUsers
  <2>1. u # "none"
    BY <1>1 DEF Consistent
  <2>2. u \in VDEOwners
    BY <1>1, Stays DEF VDEJobs, VDEOwners
  <2> QED
    BY <2>1, <2>2 DEF VDEOwners
<1>3. /\ j \in VDEJobs /\ j.step = "directory" /\ j.user = u
      /\ V!Idle \in VDEJobs /\ V!Idle.step = "none"
  <2>1. job[n] \in VDEJobs /\ "directory" \in VDESteps /\ "none" \in VDEOwners
    BY <1>1, Stays DEF VDESteps, VDEOwners
  <2> QED
    BY <2>1, JobIs, IdleIs, ZenonT(60)
<1>4. CASE /\ owner[n] = "none" /\ UNCHANGED <<role, undropped, dir, proc, broken>>
           /\ owner' = [owner EXCEPT ![n] = u] /\ job' = [job EXCEPT ![n] = j]
  <2>1. UNCHANGED <<role, undropped, dir, proc, broken>> /\ owner' = [owner EXCEPT ![n] = u] /\ job' = [job EXCEPT ![n] = j]
    BY <1>4
  <2> HIDE DEF j, u
  <2>2. Moves(n, j, u, dir[n], proc[n])
    BY <1>1, <2>1, Stays DEF Moves
  <2>3. Consistent(j, u, dir[n], proc[n])
    <3>1. u # "none" /\ proc[n] = "none" /\ dir[n] = "none"
      BY <1>1, <1>2, <1>4, Stays, VDEUsersAssumption DEF Consistent, Standing, VDEDirs
    <3> QED
      BY <1>3, <3>1 DEF Consistent
  <2>4. \A v \in VDEUsers : Holds(j, u, v) <=> Holds(job[n], owner[n], v)
    BY <1>1, <1>3, <1>4, VDEUsersAssumption DEF Holds, u
  <2>5. u \in VDEOwners /\ owner[n] \in VDEOwners /\ dir[n] \in VDEDirs /\ proc[n] \in VDEProcs
    BY <1>1, <1>2, Stays DEF VDEOwners
  <2> QED
    BY <1>2, <1>3, <2>1, <2>2, <2>3, <2>4, <2>5, MovesKeepVDEInv
<1>5. CASE UNCHANGED <<owner, dir, proc, broken>> /\ V!DropRole(u) /\ job' = [job EXCEPT ![n] = V!Idle]
  <2>1. UNCHANGED <<owner, dir, proc, broken>> /\ V!DropRole(u) /\ job' = [job EXCEPT ![n] = V!Idle]
    BY <1>5
  <2>2. Moves(n, V!Idle, owner[n], dir[n], proc[n])
    BY <1>1, <2>1, Stays DEF Moves
  <2>3. Consistent(V!Idle, owner[n], dir[n], proc[n])
    BY <1>1, <1>3 DEF Consistent
  <2>4. Holds(job[n], owner[n], u) /\ \A v \in VDEUsers : Holds(V!Idle, owner[n], v) <=> Holds(job[n], owner[n], v) /\ v # u
    BY <1>1, <1>3 DEF Holds
  <2>5. u \in VDEOwners /\ owner[n] \in VDEOwners /\ dir[n] \in VDEDirs /\ proc[n] \in VDEProcs
    BY <1>1, <1>2, Stays DEF VDEOwners
  <2> QED
    BY <1>2, <1>3, <2>1, <2>2, <2>3, <2>4, <2>5, MovesKeepVDEInv
<1> QED
  BY <1>4, <1>5 DEF V!CreateDB, V!To, V!End

\* The directory and its commands (InitVDEDir, generateKeys, initDatabase), of
\* which any may fail, and the removal of the directory.
LEMMA DirectoryKeepsVDEInv ==
  ASSUME VDEInv, ~broken, NEW n \in VDENames,
         \/ V!InitVDEDir(n) \/ V!ConfigCommand(n) \/ V!CommandFails(n) \/ V!StartProcess(n) \/ V!CancelDir(n)
  PROVE  VDEInv'
<1>0. VDEType /\ Consistent(job[n], owner[n], dir[n], proc[n])
  BY DEF VDEInv
<1>1. job[n] \in VDEJobs /\ owner[n] \in VDEOwners /\ dir[n] \in VDEDirs /\ proc[n] \in VDEProcs
  BY <1>0, Stays
<1> DEFINE to(s) == [job[n] EXCEPT !.step = s]
<1>2. \A s \in VDESteps : to(s) \in VDEJobs /\ to(s).step = s /\ to(s).user = job[n].user
  BY <1>1 DEF VDEJobs
<1>3. V!Idle \in VDEJobs /\ V!Idle.step = "none"
  BY IdleIs
<1>4. {"config", "commands", "cancel db", "cancel all"} \subseteq VDESteps /\ {"none", "empty", "config"} \subseteq VDEDirs
      /\ "RUNNING" \in VDEProcs
  BY DEF VDESteps, VDEDirs, VDEProcs
<1>5. CASE V!InitVDEDir(n)
  <2>1. UNCHANGED <<role, undropped, owner, proc, broken>> /\ job[n].step = "directory"
    BY <1>5 DEF V!InitVDEDir, V!At
  <2>2. dir[n] = "none"
    BY <1>0, <2>1 DEF Consistent
  <2>3. job' = [job EXCEPT ![n] = to("config")] /\ dir' = [dir EXCEPT ![n] = "empty"]
    BY <1>5, <2>2 DEF V!InitVDEDir, V!To
  <2>4. Moves(n, to("config"), owner[n], "empty", proc[n])
    BY <1>0, <2>1, <2>3, Stays DEF Moves
  <2>5. Consistent(to("config"), owner[n], "empty", proc[n])
    BY <1>0, <1>2, <1>4, <2>1 DEF Consistent
  <2> QED
    BY <1>1, <1>2, <1>4, <2>1, <2>4, <2>5, QuietMovesKeepVDEInv
<1>6. CASE V!ConfigCommand(n)
  <2>1. UNCHANGED <<role, undropped, owner, proc, broken>> /\ job[n].step = "config"
    BY <1>6 DEF V!ConfigCommand, V!At
  <2>2. job' = [job EXCEPT ![n] = to("commands")] /\ dir' = [dir EXCEPT ![n] = "config"]
    BY <1>6 DEF V!ConfigCommand, V!To
  <2>3. Moves(n, to("commands"), owner[n], "config", proc[n])
    BY <1>0, <2>1, <2>2, Stays DEF Moves
  <2>4. Consistent(to("commands"), owner[n], "config", proc[n])
    BY <1>0, <1>2, <1>4, <2>1 DEF Consistent
  <2> QED
    BY <1>1, <1>2, <1>4, <2>1, <2>3, <2>4, QuietMovesKeepVDEInv
<1>7. CASE V!CommandFails(n)
  <2> DEFINE s == IF job[n].step = "directory" THEN "cancel db" ELSE "cancel all"
  <2>1. UNCHANGED <<role, undropped, owner, dir, proc, broken>> /\ job[n].step \in {"directory", "config", "commands"}
    BY <1>7 DEF V!CommandFails, V!At
  <2>2. job' = [job EXCEPT ![n] = to(s)]
    BY <1>7 DEF V!CommandFails, V!To, V!At
  <2>3. Moves(n, to(s), owner[n], dir[n], proc[n])
    BY <1>0, <2>1, <2>2, Stays DEF Moves
  <2>4. Consistent(to(s), owner[n], dir[n], proc[n])
    <3>1. CASE job[n].step = "directory"
      BY <1>0, <1>2, <1>4, <3>1, ZenonT(60) DEF Consistent
    <3>2. CASE job[n].step \in {"config", "commands"}
      BY <1>0, <1>2, <1>4, <3>2, ZenonT(60) DEF Consistent
    <3> QED
      BY <2>1, <3>1, <3>2
  <2> QED
    BY <1>1, <1>2, <1>4, <2>1, <2>3, <2>4, QuietMovesKeepVDEInv
<1>8. CASE V!StartProcess(n)
  <2>1. UNCHANGED <<role, undropped, owner, dir, broken>> /\ job[n].step = "commands"
    BY <1>8 DEF V!StartProcess, V!At
  <2>2. job' = [job EXCEPT ![n] = V!Idle] /\ proc' = [proc EXCEPT ![n] = "RUNNING"]
    BY <1>8 DEF V!StartProcess, V!End
  <2>3. Moves(n, V!Idle, owner[n], dir[n], "RUNNING")
    BY <1>0, <2>1, <2>2, Stays DEF Moves
  <2>4. Consistent(V!Idle, owner[n], dir[n], "RUNNING")
    BY <1>0, <1>3, <2>1 DEF Consistent, Standing
  <2> QED
    BY <1>1, <1>3, <1>4, <2>1, <2>3, <2>4, QuietMovesKeepVDEInv
<1>9. CASE V!CancelDir(n)
  <2>1. UNCHANGED <<role, undropped, owner, proc, broken>> /\ job[n].step = "cancel dir"
    BY <1>9 DEF V!CancelDir, V!At
  <2>2. job' = [job EXCEPT ![n] = V!Idle] /\ dir' = [dir EXCEPT ![n] = "none"]
    BY <1>9 DEF V!CancelDir, V!End
  <2>3. Moves(n, V!Idle, owner[n], "none", proc[n])
    BY <1>0, <2>1, <2>2, Stays DEF Moves
  <2>4. Consistent(V!Idle, owner[n], "none", proc[n])
    BY <1>0, <1>3, <2>1 DEF Consistent, Standing
  <2> QED
    BY <1>1, <1>3, <1>4, <2>1, <2>3, <2>4, QuietMovesKeepVDEInv
<1> QED
  BY <1>5, <1>6, <1>7, <1>8, <1>9

\* DeleteVDE up to the database, StartVDE and StopVDE.
LEMMA DeleteKeepsVDEInv ==
  ASSUME VDEInv, ~broken, NEW n \in VDENames,
         \/ V!DeleteVDE(n) \/ V!ReadConfig(n) \/ V!DropFails(n) \/ V!StartVDE(n) \/ V!StopVDE(n)
  PROVE  VDEInv'
<1>0. VDEType /\ Consistent(job[n], owner[n], dir[n], proc[n])
  BY DEF VDEInv
<1>1. job[n] \in VDEJobs /\ owner[n] \in VDEOwners /\ dir[n] \in VDEDirs /\ proc[n] \in VDEProcs
  BY <1>0, Stays
<1> DEFINE new(u, s) == [user |-> u, step |-> s]
<1>2. \A u \in VDEOwners, s \in VDESteps : new(u, s) \in VDEJobs /\ new(u, s).step = s /\ new(u, s).user = u
  BY DEF VDEJobs, VDEOwners
<1>3. V!Idle \in VDEJobs /\ V!Idle.step = "none"
  BY IdleIs
<1>4. {"removed", "drop"} \subseteq VDESteps /\ {"none", "RUNNING", "STOPPED"} \subseteq VDEProcs /\ "none" \in VDEOwners
  BY DEF VDESteps, VDEProcs, VDEOwners
<1>5. CASE V!DeleteVDE(n)
  <2>1. UNCHANGED <<role, undropped, owner, dir, broken>> /\ job[n] = V!Idle /\ job[n].step = "none"
    BY <1>3, <1>5 DEF V!DeleteVDE, V!Begin
  <2>2. job' = [job EXCEPT ![n] = new("none", "removed")] /\ proc' = [proc EXCEPT ![n] = "none"]
    BY <1>5 DEF V!DeleteVDE, V!Begin
  <2>3. Moves(n, new("none", "removed"), owner[n], dir[n], "none")
    BY <1>0, <2>1, <2>2, Stays DEF Moves
  <2>4. Consistent(new("none", "removed"), owner[n], dir[n], "none")
    BY <1>0, <1>2, <1>4, <2>1 DEF Consistent, Standing
  <2> QED
    BY <1>1, <1>2, <1>4, <2>1, <2>3, <2>4, QuietMovesKeepVDEInv
<1>6. CASE V!ReadConfig(n)
  <2> DEFINE j == IF dir[n] = "config" THEN new(owner[n], "drop") ELSE V!Idle
  <2>1. UNCHANGED <<role, undropped, owner, dir, proc, broken>> /\ job[n].step = "removed" /\ job' = [job EXCEPT ![n] = j]
    BY <1>6 DEF V!ReadConfig, V!At
  <2>2. j \in VDEJobs /\ j.step \in {"drop", "none"}
    BY <1>1, <1>2, <1>3, <1>4
  <2>3. Moves(n, j, owner[n], dir[n], proc[n])
    BY <1>0, <2>1, Stays DEF Moves
  <2>4. Consistent(j, owner[n], dir[n], proc[n])
    <3>1. CASE dir[n] = "config"
      BY <1>0, <1>1, <1>2, <1>4, <2>1, <3>1 DEF Consistent, Standing
    <3>2. CASE dir[n] # "config"
      BY <1>0, <1>3, <2>1, <3>2 DEF Consistent, Standing
    <3> QED
      BY <3>1, <3>2
  <2> QED
    BY <1>1, <2>1, <2>2, <2>3, <2>4, QuietMovesKeepVDEInv
<1>7. CASE V!DropFails(n)
  <2>1. UNCHANGED <<role, undropped, owner, dir, proc, broken>> /\ job[n].step = "drop" /\ job' = [job EXCEPT ![n] = V!Idle]
    BY <1>7 DEF V!DropFails, V!At, V!End
  <2>2. Moves(n, V!Idle, owner[n], dir[n], proc[n])
    BY <1>0, <2>1, Stays DEF Moves
  <2>3. Consistent(V!Idle, owner[n], dir[n], proc[n])
    BY <1>0, <1>3, <2>1 DEF Consistent, Standing
  <2> QED
    BY <1>1, <1>3, <2>1, <2>2, <2>3, QuietMovesKeepVDEInv
<1>8. CASE V!StartVDE(n) \/ V!StopVDE(n)
  <2>1. UNCHANGED <<role, undropped, owner, dir, job, broken>> /\ job[n] = V!Idle /\ job[n].step = "none" /\ proc[n] # "none"
    BY <1>3, <1>8 DEF V!StartVDE, V!StopVDE
  <2>2. PICK p \in {"RUNNING", "STOPPED"} : proc' = [proc EXCEPT ![n] = p]
    BY <1>8 DEF V!StartVDE, V!StopVDE
  <2>3. Moves(n, job[n], owner[n], dir[n], p)
    BY <1>0, <2>1, <2>2, Stays DEF Moves
  <2>4. Consistent(job[n], owner[n], dir[n], p)
    BY <1>0, <2>1, <2>2 DEF Consistent, Standing
  <2> QED
    BY <1>1, <1>4, <2>1, <2>2, <2>3, <2>4, QuietMovesKeepVDEInv
<1> QED
  BY <1>5, <1>6, <1>7, <1>8

\* A database goes with its role, which no other name has (dropDb).
LEMMA DropKeepsVDEInv ==
  ASSUME VDEInv, ~broken, NEW n \in VDENames, V!CancelDB(n) \/ V!DropDatabase(n)
  PROVE  VDEInv'
<1>0. VDEType /\ Consistent(job[n], owner[n], dir[n], proc[n])
  BY DEF VDEInv
<1>1. job[n] \in VDEJobs /\ owner[n] \in VDEOwners /\ dir[n] \in VDEDirs /\ proc[n] \in VDEProcs
  BY <1>0, Stays
<1>2. job[n].step \in {"cancel db", "cancel all", "drop"} /\ UNCHANGED <<dir, proc, broken>>
  BY DEF V!CancelDB, V!DropDatabase, V!At
<1>3. owner[n] = job[n].user /\ owner[n] # "none" /\ proc[n] = "none" /\ (job[n].step = "cancel db" => dir[n] = "none")
  BY <1>0, <1>2 DEF Consistent
<1>4. owner' = [owner EXCEPT ![n] = "none"] /\ V!DropRole(owner[n])
  BY <1>3 DEF V!CancelDB, V!DropDatabase, V!DropDB
<1> DEFINE j == IF job[n].step = "cancel db" THEN V!Idle ELSE [job[n] EXCEPT !.step = "cancel dir"]
<1>5. job' = [job EXCEPT ![n] = j]
  BY DEF V!CancelDB, V!DropDatabase, V!At, V!To, V!End
<1>6. j \in VDEJobs /\ (job[n].step = "cancel db" => j = V!Idle) /\ j.step = IF job[n].step = "cancel db" THEN "none" ELSE "cancel dir"
  BY <1>1, IdleIs DEF VDEJobs, VDESteps
<1> HIDE DEF j
<1>7. Moves(n, j, "none", dir[n], proc[n])
  BY <1>0, <1>2, <1>4, <1>5, Stays DEF Moves
<1>8. Consistent(j, "none", dir[n], proc[n])
  <2>1. CASE job[n].step = "cancel db"
    BY <1>3, <1>6, <2>1 DEF Consistent, Standing
  <2>2. CASE job[n].step # "cancel db"
    BY <1>3, <1>6, <2>2 DEF Consistent
  <2> QED
    BY <2>1, <2>2
<1>9. /\ Holds(job[n], owner[n], owner[n])
      /\ \A v \in VDEUsers : Holds(j, "none", v) <=> Holds(job[n], owner[n], v) /\ v # owner[n]
  BY <1>2, <1>6, VDEUsersAssumption DEF Holds
<1>10. /\ "none" \in VDEOwners /\ j \in VDEJobs /\ j.step # "createdb" /\ ~broken'
       /\ V!DropRole(owner[n]) /\ owner[n] \in VDEUsers
  BY <1>1, <1>2, <1>3, <1>4, <1>6 DEF VDEOwners
<1> QED
  BY <1>1, <1>7, <1>8, <1>9, <1>10, MovesKeepVDEInv

\* The master starts again: nothing is lost if no operation was under way.
LEMMA MasterKeepsVDEInv ==
  ASSUME VDEInv, ~broken, V!InitVDEManager
  PROVE  VDEInv'
<1>1. /\ UNCHANGED <<role, undropped, owner, dir>> /\ job' = [n \in VDENames |-> V!Idle]
      /\ proc' = [n \in VDENames |-> IF dir[n] = "none" THEN "none" ELSE "RUNNING"]
  BY DEF V!InitVDEManager
<1>2. VDEType'
  BY <1>1, IdleIs DEF VDEInv, VDEType, VDEProcs
<1>3. CASE \A n \in VDENames : job[n] = V!Idle
  <2>1. \A n \in VDENames : job'[n] = job[n]
    BY <1>1, <1>3
  <2>2. ASSUME NEW n \in VDENames PROVE Consistent(job'[n], owner'[n], dir'[n], proc'[n])
    <3>1. Standing(owner[n], dir[n], proc[n]) /\ dir[n] \in VDEDirs
      BY <1>3, <2>2, IdleIs DEF VDEInv, VDEType, Consistent
    <3>2. proc'[n] = IF dir[n] = "none" THEN "none" ELSE "RUNNING"
      BY <1>1
    <3>3. Standing(owner[n], dir[n], proc'[n])
      BY <3>1, <3>2 DEF Standing, VDEDirs
    <3> QED
      BY <1>1, <1>3, <2>1, <3>3, IdleIs DEF Consistent
  <2>3. RolesAreHeld'
    BY <1>1, <2>1 DEF VDEInv, RolesAreHeld
  <2> QED
    BY <1>2, <2>2, <2>3 DEF VDEInv
<1>4. CASE \E n \in VDENames : job[n] # V!Idle
  <2>1. broken'
    BY <1>4 DEF V!InitVDEManager
  <2> QED
    BY <1>2, <2>1 DEF VDEInv
<1> QED
  BY <1>3, <1>4

\* What was broken stays so, and a cancel function that fails breaks.
LEMMA BrokenKeepsVDEInv ==
  ASSUME V!Next, broken \/ \E n \in VDENames : V!CancelFails(n)
  PROVE  VDEInv'
<1>1. broken => broken'
  <2> SUFFICES ASSUME broken
               PROVE  broken'
    OBVIOUS
  <2>1. ASSUME NEW n \in VDENames,
               \/ V!DeleteVDE(n) \/ V!StartVDE(n) \/ V!StopVDE(n) \/ \E u \in VDEUsers : V!CreateVDE(n, u)
               \/ V!CreateRole(n) \/ V!RoleExists(n) \/ V!CreateDB(n) \/ V!InitVDEDir(n) \/ V!ConfigCommand(n)
        PROVE  broken' = broken
    BY <2>1 DEF V!DeleteVDE, V!StartVDE, V!StopVDE, V!CreateVDE, V!CreateRole, V!RoleExists, V!CreateDB,
       V!InitVDEDir, V!ConfigCommand
  <2>2. ASSUME NEW n \in VDENames,
               \/ V!CommandFails(n) \/ V!StartProcess(n) \/ V!CancelDB(n) \/ V!CancelDir(n)
               \/ V!ReadConfig(n) \/ V!DropDatabase(n) \/ V!DropFails(n)
        PROVE  broken' = broken
    BY <2>2 DEF V!CommandFails, V!StartProcess, V!CancelDB, V!CancelDir, V!ReadConfig, V!DropDatabase, V!DropFails
  <2>3. ASSUME NEW n \in VDENames, V!CancelFails(n) PROVE broken'
    BY <2>3 DEF V!CancelFails
  <2>4. CASE V!InitVDEManager
    BY <2>4 DEF V!InitVDEManager
  <2> QED
    BY <2>1, <2>2, <2>3, <2>4 DEF V!Next
<1>2. (\E n \in VDENames : V!CancelFails(n)) => broken'
  BY DEF V!CancelFails
<1> QED
  BY <1>1, <1>2 DEF VDEInv

\* A step of any machine keeps it (MCWork!Next).
LEMMA VDEInvNext == VDEInv /\ [Next]_vars => VDEInv'
<1> SUFFICES ASSUME VDEInv, [Next]_vars
             PROVE  VDEInv'
  OBVIOUS
<1>1. CASE V!Next
  <2>1. CASE broken \/ \E n \in VDENames : V!CancelFails(n)
    BY <1>1, <2>1, BrokenKeepsVDEInv
  <2>2. CASE ~broken /\ ~\E n \in VDENames : V!CancelFails(n)
    BY <1>1, <2>2, CreateVDEKeepsVDEInv, CreateRoleKeepsVDEInv, RoleExistsKeepsVDEInv, CreateDBKeepsVDEInv,
       DirectoryKeepsVDEInv, DeleteKeepsVDEInv, DropKeepsVDEInv, MasterKeepsVDEInv DEF V!Next
  <2> QED
    BY <2>1, <2>2
<1>2. CASE UNCHANGED man
  BY <1>2 DEF man, VDEInv, VDEType, RolesAreHeld
<1> QED
  BY <1>1, <1>2 DEF Next, vars

\* Whichever steps of creating and deleting child nodes fail, and however the
\* requests interleave, a name ends with all of a child node or with nothing, and
\* no role is left over (CreateVDE, DeleteVDE and the cancel functions).
THEOREM NothingIsLeftOver == Spec => []NothingLeftOver
<1>1. Init => VDEInv
  BY VDEInvInit DEF Init
<1>2. VDEInv => NothingLeftOver
  BY VDEInvEnough DEF NothingLeftOver
<1> QED
  BY <1>1, <1>2, VDEInvNext, PTL DEF Spec

-----------------------------------------------------------------------------
(***************************************************************************)
(* The schedule.                                                           *)
(***************************************************************************)
CronRows == [spec : Specs, contract : CronContracts]
Entries == [id : {"", "1_cron"} \X CronIds, spec : Specs, contract : CronContracts]

\* The task that the daemon makes of a row.
TaskOf(i) == [id |-> S!UID("", i), spec |-> cron[i].spec, contract |-> cron[i].contract]

SchedType ==
  /\ cron \in [CronIds -> CronRows \cup {S!NoCron}]
  /\ written \in SUBSET {i \in CronIds : cron[i] # S!NoCron}
  /\ entries \in Seq(Entries) /\ loading \in Seq(Entries)

\* Of rows that have not changed since the daemon read them, each has its task
\* among the entries or is yet to be handed over; the contracts have entries of
\* their own, which the daemon never overwrites.
TasksAreLoaded ==
  /\ \A k \in DOMAIN loading : \E i \in CronIds : loading[k] = TaskOf(i)
  /\ \A i \in CronIds : cron[i] # S!NoCron =>
       (\E k \in DOMAIN loading : loading[k] = TaskOf(i)) \/ (\E k \in DOMAIN entries : entries[k] = TaskOf(i))

SchedInv == SchedType /\ (loaded => TasksAreLoaded)

\* It holds in the beginning, and it is enough.
LEMMA SchedInvInit == S!Init => SchedInv
BY DEF S!Init, SchedInv, SchedType

LEMMA SchedInvEnough == SchedInv => S!RowsAreScheduled
<1> SUFFICES ASSUME SchedInv, loaded, loading = <<>>, NEW i \in CronIds, cron[i] # S!NoCron
             PROVE  \E k \in S!Tasks(i) : entries[k].spec = cron[i].spec /\ entries[k].contract = cron[i].contract
  BY DEF S!RowsAreScheduled
<1>1. (\E k \in DOMAIN loading : loading[k] = TaskOf(i)) \/ (\E k \in DOMAIN entries : entries[k] = TaskOf(i))
  BY DEF SchedInv, TasksAreLoaded
<1>2. DOMAIN loading = {}
  OBVIOUS
<1>3. PICK k \in DOMAIN entries : entries[k] = TaskOf(i)
  BY <1>1, <1>2
<1>4. TaskOf(i).spec = cron[i].spec /\ TaskOf(i).contract = cron[i].contract /\ TaskOf(i).id = <<"", i>>
  BY DEF TaskOf, S!UID
<1>5. entries[k].id[2] = i
  <2>1. <<"", i>>[2] = i
    OBVIOUS
  <2> QED
    BY <1>3, <1>4, <2>1, Zenon
<1>6. k \in S!Tasks(i)
  BY <1>5 DEF S!Tasks
<1> QED
  BY <1>3, <1>4, <1>6

\* What UpdateTask does to the entries: the task is among them, and those with
\* another ID are as they were.
LEMMA UpdateTaskIs ==
  ASSUME NEW list \in Seq(Entries), NEW t \in Entries
  PROVE  /\ S!UpdateTask(list, t) \in Seq(Entries)
         /\ \E k \in DOMAIN S!UpdateTask(list, t) : S!UpdateTask(list, t)[k] = t
         /\ \A k \in DOMAIN list : list[k].id # t.id =>
              k \in DOMAIN S!UpdateTask(list, t) /\ S!UpdateTask(list, t)[k] = list[k]
<1>1. CASE \E k \in DOMAIN list : list[k].id = t.id
  <2>1. S!UpdateTask(list, t) = [k \in DOMAIN list |-> IF list[k].id = t.id THEN t ELSE list[k]]
    BY <1>1 DEF S!UpdateTask
  <2>2. DOMAIN list = 1..Len(list) /\ Len(list) \in Nat /\ \A k \in DOMAIN list : list[k] \in Entries
    OBVIOUS
  <2>3. S!UpdateTask(list, t) \in Seq(Entries)
    BY <2>1, <2>2
  <2> QED
    BY <1>1, <2>1, <2>3
<1>2. CASE ~\E k \in DOMAIN list : list[k].id = t.id
  <2>1. S!UpdateTask(list, t) = Append(list, t)
    BY <1>2 DEF S!UpdateTask
  <2>2. /\ Append(list, t) \in Seq(Entries) /\ Len(list) + 1 \in DOMAIN Append(list, t) /\ Append(list, t)[Len(list) + 1] = t
        /\ \A k \in DOMAIN list : k \in DOMAIN Append(list, t) /\ Append(list, t)[k] = list[k]
    OBVIOUS
  <2> QED
    BY <2>1, <2>2
<1> QED
  BY <1>1, <1>2

\* The two names of the same cardinality.
LEMMA SchedulerCounts == \A A : S!Cardinality(A) = Cardinality(A)
BY Zenon DEF S!Cardinality, Cardinality

\* A finite set as a sequence has all its elements.
LEMMA SetToSeqIs ==
  ASSUME NEW A, IsFiniteSet(A)
  PROVE  S!SetToSeq(A) \in Seq(A) /\ \A x \in A : \E k \in DOMAIN S!SetToSeq(A) : S!SetToSeq(A)[k] = x
<1> DEFINE n == Cardinality(A)
           f == S!SetToSeq(A)
<1>1. n \in Nat /\ \E g : g \in Bijection(1..n, A)
  BY FS_CardinalityType DEF ExistsBijection
<1>2. PICK g : g \in Bijection(1..n, A)
  BY <1>1
<1>3. g \in [1..n -> A] /\ \A a, b \in 1..n : g[a] = g[b] => a = b
  BY <1>2 DEF Bijection, Injection, IsInjective
<1>4. g \in [1..n -> A] /\ S!IsInjective(g)
  BY <1>3 DEF S!IsInjective
<1>5. f \in [1..n -> A] /\ S!IsInjective(f)
  <2>1. f = CHOOSE h \in [1..n -> A] : S!IsInjective(h)
    BY SchedulerCounts DEF S!SetToSeq
  <2> HIDE DEF f
  <2> QED
    BY <1>4, <2>1
<1> HIDE DEF f, n
<1>6. f \in Seq(A) /\ DOMAIN f = 1..n
  BY <1>1, <1>5
<1>7. ASSUME NEW x \in A, \A k \in 1..n : f[k] # x PROVE FALSE
  <2>1. f \in [1..n -> A \ {x}]
    BY <1>5, <1>7
  <2>2. IsFiniteSet(A \ {x}) /\ Cardinality(A \ {x}) = n - 1
    BY FS_RemoveElement DEF n
  <2>3. IsFiniteSet(1..n) /\ Cardinality(1..n) = n
    BY <1>1, FS_Interval
  <2>4. \E a, b \in 1..n : a # b /\ f[a] = f[b]
    <3>1. Cardinality(A \ {x}) < Cardinality(1..n)
      BY <1>1, <2>2, <2>3
    <3> QED
      BY <2>1, <2>2, <2>3, <3>1, FS_PigeonHole
  <2> QED
    BY <1>5, <2>4 DEF S!IsInjective
<1> QED
  BY <1>6, <1>7 DEF f

\* A task of a row is an entry.
LEMMA TaskIsEntry ==
  ASSUME SchedType, NEW i \in CronIds, cron[i] # S!NoCron
  PROVE  TaskOf(i) \in Entries /\ cron[i] \in CronRows /\ TaskOf(i).id = S!UID("", i)
<1>1. cron[i] \in CronRows
  BY DEF SchedType
<1> QED
  BY <1>1 DEF TaskOf, Entries, CronRows, S!UID

\* A row is written: what the daemon read is out of date (NewCron, EditCron).
LEMMA WriteCronKeepsSchedInv ==
  ASSUME SchedInv, NEW i \in CronIds, NEW s \in Specs, NEW c \in CronContracts, S!WriteCron(i, s, c)
  PROVE  SchedInv'
<1> DEFINE r == [spec |-> s, contract |-> c]
<1>1. r \in CronRows /\ r # S!NoCron
  BY DEF CronRows, S!NoCron
<1>2. cron' = [cron EXCEPT ![i] = r] /\ written' = written \cup {i} /\ ~loaded' /\ entries' = entries /\ loading' = loading
  BY DEF S!WriteCron
<1> HIDE DEF r
<1>3. cron' \in [CronIds -> CronRows \cup {S!NoCron}] /\ cron'[i] # S!NoCron /\ \A j \in CronIds : j # i => cron'[j] = cron[j]
  BY <1>1, <1>2 DEF SchedInv, SchedType
<1>4. written' \in SUBSET {j \in CronIds : cron'[j] # S!NoCron}
  BY <1>2, <1>3 DEF SchedInv, SchedType
<1>5. SchedType'
  BY <1>2, <1>3, <1>4 DEF SchedInv, SchedType
<1> QED
  BY <1>2, <1>5 DEF SchedInv

\* UpdateCron gives the row a task under the name of the table, and so does not
\* overwrite one of the daemon's.
LEMMA UpdateCronKeepsSchedInv ==
  ASSUME SchedInv, NEW i \in CronIds, S!UpdateCron(i)
  PROVE  SchedInv'
<1> DEFINE t == [id |-> S!UID("1_cron", i), spec |-> cron[i].spec, contract |-> cron[i].contract]
<1>1. cron[i] \in CronRows
  BY DEF S!UpdateCron, SchedInv, SchedType
<1>2. t \in Entries /\ t.id = S!UID("1_cron", i)
  BY <1>1 DEF Entries, CronRows, S!UID
<1>3. /\ entries' = S!UpdateTask(entries, t) /\ written' \subseteq written /\ cron' = cron /\ loading' = loading
      /\ loaded' = loaded
  BY DEF S!UpdateCron
<1> HIDE DEF t
<1>4. /\ entries' \in Seq(Entries)
      /\ \A k \in DOMAIN entries : entries[k].id # t.id => k \in DOMAIN entries' /\ entries'[k] = entries[k]
  BY <1>2, <1>3, UpdateTaskIs DEF SchedInv, SchedType
<1>5. SchedType'
  BY <1>3, <1>4 DEF SchedInv, SchedType
<1>6. ASSUME TasksAreLoaded PROVE TasksAreLoaded'
  <2>1. \A j \in CronIds : TaskOf(j)' = TaskOf(j) /\ TaskOf(j).id # t.id
    BY <1>2, <1>3 DEF TaskOf, S!UID
  <2>2. \A j \in CronIds : (\E k \in DOMAIN entries : entries[k] = TaskOf(j)) => (\E k \in DOMAIN entries' : entries'[k] = TaskOf(j))
    BY <1>4, <2>1
  <2>3. \A k \in DOMAIN loading' : \E j \in CronIds : loading'[k] = TaskOf(j)'
    BY <1>3, <1>6, <2>1 DEF TasksAreLoaded
  <2>4. ASSUME NEW j \in CronIds, cron'[j] # S!NoCron
        PROVE  (\E k \in DOMAIN loading' : loading'[k] = TaskOf(j)') \/ (\E k \in DOMAIN entries' : entries'[k] = TaskOf(j)')
    BY <1>3, <1>6, <2>1, <2>2, <2>4 DEF TasksAreLoaded
  <2> QED
    BY <2>3, <2>4 DEF TasksAreLoaded
<1> QED
  BY <1>3, <1>5, <1>6 DEF SchedInv

\* The daemon reads all rows (GetAllCronTasks).
LEMMA LoadContractTasksKeepsSchedInv ==
  ASSUME SchedInv, S!LoadContractTasks
  PROVE  SchedInv'
<1> DEFINE J == {j \in CronIds : cron[j] # S!NoCron}
           A == {TaskOf(i) : i \in J}
<1>1. loading' = S!SetToSeq(A) /\ loaded' /\ cron' = cron /\ written' = written /\ entries' = entries
  BY DEF S!LoadContractTasks, TaskOf
<1>2. IsFiniteSet(J)
  BY CronIdsAssumption, FS_Subset
<1>3. IsFiniteSet(A)
  <2> DEFINE f == [i \in J |-> TaskOf(i)]
  <2> HIDE DEF J
  <2>1. f \in Surjection(J, A)
    BY DEF Surjection
  <2> HIDE DEF f, A
  <2> QED
    BY <1>2, <2>1, FS_Surjection
<1>4. A \subseteq Entries
  BY TaskIsEntry DEF SchedInv
<1> HIDE DEF A
<1>5. loading' \in Seq(A) /\ \A x \in A : \E k \in DOMAIN loading' : loading'[k] = x
  BY <1>1, <1>3, SetToSeqIs
<1>6. loading' \in Seq(Entries) /\ \A k \in DOMAIN loading' : loading'[k] \in A
  BY <1>4, <1>5
<1>7. SchedType'
  BY <1>1, <1>6 DEF SchedInv, SchedType
<1>8. \A j \in CronIds : TaskOf(j)' = TaskOf(j)
  BY <1>1 DEF TaskOf
<1>9. \A k \in DOMAIN loading' : \E j \in CronIds : loading'[k] = TaskOf(j)'
  BY <1>6, <1>8 DEF A
<1>10. ASSUME NEW j \in CronIds, cron'[j] # S!NoCron PROVE \E k \in DOMAIN loading' : loading'[k] = TaskOf(j)'
  <2>1. TaskOf(j) \in A
    BY <1>1, <1>10 DEF A
  <2> QED
    BY <1>5, <1>8, <2>1
<1>11. TasksAreLoaded'
  BY <1>9, <1>10 DEF TasksAreLoaded
<1> QED
  BY <1>7, <1>11 DEF SchedInv

\* A task that is handed over is for its own row only (loadContractTasks).
LEMMA LoadTaskKeepsSchedInv ==
  ASSUME SchedInv, S!LoadTask
  PROVE  SchedInv'
<1> DEFINE t == Head(loading)
<1>1. /\ loading # <<>> /\ entries' = S!UpdateTask(entries, t) /\ loading' = Tail(loading)
      /\ cron' = cron /\ written' = written /\ loaded' = loaded
  BY DEF S!LoadTask
<1>2. /\ loading \in Seq(Entries) /\ entries \in Seq(Entries) /\ t \in Entries /\ 1 \in DOMAIN loading /\ t = loading[1]
      /\ Tail(loading) \in Seq(Entries)
      /\ \A k \in DOMAIN Tail(loading) : k + 1 \in DOMAIN loading /\ Tail(loading)[k] = loading[k + 1]
      /\ \A k \in DOMAIN loading : k # 1 => k - 1 \in DOMAIN Tail(loading) /\ Tail(loading)[k - 1] = loading[k]
  BY <1>1 DEF SchedInv, SchedType
<1> HIDE DEF t
<1>3. /\ entries' \in Seq(Entries) /\ \E k \in DOMAIN entries' : entries'[k] = t
      /\ \A k \in DOMAIN entries : entries[k].id # t.id => k \in DOMAIN entries' /\ entries'[k] = entries[k]
  BY <1>1, <1>2, UpdateTaskIs, ZenonT(60)
<1>4. SchedType'
  BY <1>1, <1>2, <1>3 DEF SchedInv, SchedType
<1>5. ASSUME TasksAreLoaded PROVE TasksAreLoaded'
  <2>1. \A j \in CronIds : TaskOf(j)' = TaskOf(j)
    BY <1>1 DEF TaskOf
  <2>2. PICK i \in CronIds : t = TaskOf(i)
    BY <1>2, <1>5 DEF TasksAreLoaded
  <2>3. \A j \in CronIds : j # i => TaskOf(j).id # t.id
    BY <2>2 DEF TaskOf, S!UID
  <2>4. \A k \in DOMAIN loading' : \E j \in CronIds : loading'[k] = TaskOf(j)'
    BY <1>1, <1>2, <1>5, <2>1 DEF TasksAreLoaded
  <2>5. ASSUME NEW j \in CronIds, cron'[j] # S!NoCron
        PROVE  (\E k \in DOMAIN loading' : loading'[k] = TaskOf(j)) \/ (\E k \in DOMAIN entries' : entries'[k] = TaskOf(j))
    <3>1. CASE j = i
      BY <1>3, <2>2, <3>1
    <3>2. CASE j # i
      <4>1. CASE \E k \in DOMAIN entries : entries[k] = TaskOf(j)
        BY <1>3, <2>3, <3>2, <4>1
      <4>2. CASE \E k \in DOMAIN loading : loading[k] = TaskOf(j)
        <5>1. PICK k \in DOMAIN loading : loading[k] = TaskOf(j)
          BY <4>2
        <5>2. k # 1
          BY <1>2, <2>3, <3>2, <5>1
        <5>3. k - 1 \in DOMAIN loading' /\ loading'[k - 1] = TaskOf(j)
          BY <1>1, <1>2, <5>1, <5>2
        <5> QED
          BY <5>3
      <4> QED
        BY <1>1, <1>5, <2>5, <4>1, <4>2 DEF TasksAreLoaded
    <3> QED
      BY <3>1, <3>2
  <2> QED
    BY <2>1, <2>4, <2>5 DEF TasksAreLoaded
<1> QED
  BY <1>1, <1>4, <1>5 DEF SchedInv

\* A step of any machine keeps it (MCWork!Next).
LEMMA SchedInvNext == SchedInv /\ [Next]_vars => SchedInv'
<1> SUFFICES ASSUME SchedInv, [Next]_vars
             PROVE  SchedInv'
  OBVIOUS
<1>1. CASE S!Restart
  BY <1>1 DEF S!Restart, SchedInv, SchedType
<1>2. CASE S!Next
  BY <1>1, <1>2, WriteCronKeepsSchedInv, UpdateCronKeepsSchedInv, LoadContractTasksKeepsSchedInv, LoadTaskKeepsSchedInv
     DEF S!Next
<1>3. CASE UNCHANGED sch
  BY <1>3 DEF sch, SchedInv, SchedType, TasksAreLoaded, TaskOf
<1> QED
  BY <1>2, <1>3 DEF Next, vars

\* However the contracts' own updates fall between the steps of the daemon, once
\* it has gone through the rows of cron every one of them has a task that runs
\* its contract by its schedule (loadContractTasks, UpdateTask).
THEOREM RowsAreAlwaysScheduled == Spec => []RowsAreScheduled
<1>1. Init => SchedInv
  BY SchedInvInit DEF Init
<1>2. SchedInv => RowsAreScheduled
  BY SchedInvEnough DEF RowsAreScheduled
<1> QED
  BY <1>1, <1>2, SchedInvNext, PTL DEF Spec

-----------------------------------------------------------------------------
(***************************************************************************)
(* Notifications.                                                          *)
(***************************************************************************)
NoteRows == [eco : Ecos, to : NoteUsers \cup {NoteRole}, open : BOOLEAN,
             taken : NoteUsers \cup {"nobody", CHOOSE u \in NoteUsers : TRUE}]
NoteCounts == [{0, NoteRole} -> Nat]

NoteType ==
  /\ notes \in Seq(NoteRows) /\ undoNotes \in Seq(Seq(NoteRows))
  /\ told \in Seq([eco : Ecos, to : NoteUsers \cup {NoteRole}]) /\ Len(told) <= 1
  /\ last \in [N!Pairs -> NoteCounts] /\ shown \in [N!Pairs -> NoteCounts]
  /\ stale \in [N!Pairs -> BOOLEAN]
  /\ asked = N!Nothing \/ asked \in [who : N!Pairs, stats : NoteCounts]

\* A change for e and to concerns the user p.
Concerns(e, to, p) == e = p[1] /\ to \in {NoteRole, p[2]}
Untold(p) == \A i \in DOMAIN told : ~Concerns(told[i].eco, told[i].to, p)

\* What a user has been shown, s, is what was sent last, l, or the count of now,
\* c; it is all of them unless he is still to be told.
Right(old, s, l, c, quiet) == ~old => (s = l \/ s = c) /\ (quiet => s = c /\ l = c)

NoteInv == NoteType /\ \A p \in N!Pairs : p[1] = 1 => Right(stale[p], shown[p], last[p], N!Stats(p), Untold(p))

\* The two names of the same cardinality.
LEMMA NotificatorCounts == \A A : N!Cardinality(A) = Cardinality(A)
BY Zenon DEF N!Cardinality, Cardinality

\* A row that is counted for a user, as his own or as of the role.
Counted(note, r, p) ==
  /\ note.eco = p[1] /\ note.open
  /\ IF r = 0 THEN note.to = p[2] ELSE note.to = r /\ note.taken \in {"nobody", p[2]}

CountedRows(list, r, p) == {k \in DOMAIN list : Counted(list[k], r, p)}

LEMMA StatsAre ==
  ASSUME NEW p
  PROVE  N!Stats(p) = [r \in {0, NoteRole} |-> N!Cardinality(CountedRows(notes, r, p))]
BY DEF N!Stats, CountedRows, Counted

LEMMA StatsAreCounts ==
  ASSUME NoteType, NEW p
  PROVE  N!Stats(p) \in NoteCounts
<1>1. notes \in Seq(NoteRows)
  BY DEF NoteType
<1>2. IsFiniteSet(DOMAIN notes)
  BY <1>1, FS_Interval
<1>3. ASSUME NEW r \in {0, NoteRole} PROVE N!Cardinality(CountedRows(notes, r, p)) \in Nat
  <2>1. CountedRows(notes, r, p) \subseteq DOMAIN notes
    BY DEF CountedRows
  <2> QED
    BY <1>2, <2>1, FS_Subset, FS_CardinalityType, NotificatorCounts
<1> QED
  BY <1>3, StatsAre DEF NoteCounts

\* If statsChanged does not see a change then there is none.
LEMMA StatsChangedIs ==
  ASSUME NEW a \in NoteCounts, NEW b \in NoteCounts, ~N!statsChanged(a, b)
  PROVE  a = b
<1> DEFINE A == N!Records(a)
           B == N!Records(b)
<1>1. A = {r \in {0, NoteRole} : a[r] > 0} /\ B = {r \in {0, NoteRole} : b[r] > 0}
  BY DEF N!Records, NoteCounts
<1>2. Cardinality(A) = Cardinality(B) /\ \A r \in B : a[r] = b[r]
  BY NotificatorCounts DEF N!statsChanged
<1>3. B \subseteq A
  BY <1>1, <1>2
<1>4. IsFiniteSet({0, NoteRole})
  <2>1. IsFiniteSet({0}) /\ IsFiniteSet({0} \cup {NoteRole})
    BY FS_Singleton, FS_AddElement
  <2>2. {0, NoteRole} = {0} \cup {NoteRole}
    OBVIOUS
  <2> QED
    BY <2>1, <2>2
<1>5. IsFiniteSet(A)
  BY <1>1, <1>4, FS_Subset
<1>6. A = B
  <2> HIDE DEF A, B
  <2> QED
    BY <1>2, <1>3, <1>5, FS_Subset
<1>7. \A r \in {0, NoteRole} : a[r] \in Nat /\ b[r] \in Nat /\ (~(a[r] > 0) => a[r] = 0) /\ (~(b[r] > 0) => b[r] = 0)
  BY DEF NoteCounts
<1>8. \A r \in {0, NoteRole} : a[r] = b[r]
  BY <1>1, <1>2, <1>6, <1>7
<1> QED
  BY <1>8 DEF NoteCounts

\* It holds in the beginning, and it is enough.
LEMMA NoteInvInit == N!Init => NoteInv
<1> SUFFICES ASSUME N!Init
             PROVE  NoteInv
  OBVIOUS
<1>1. /\ notes = <<>> /\ undoNotes = <<>> /\ told = <<>> /\ last = [p \in N!Pairs |-> N!NoStats] /\ shown = last
      /\ asked = N!Nothing /\ stale = [p \in N!Pairs |-> FALSE]
  BY DEF N!Init
<1>2. N!NoStats \in NoteCounts
  BY DEF N!NoStats, NoteCounts
<1>3. NoteType
  BY <1>1, <1>2 DEF NoteType
<1>4. \A p \in N!Pairs : N!Stats(p) = N!NoStats
  <2> SUFFICES ASSUME NEW p \in N!Pairs PROVE N!Stats(p) = N!NoStats
    OBVIOUS
  <2>1. \A r \in {0, NoteRole} : CountedRows(notes, r, p) = {}
    BY <1>1 DEF CountedRows
  <2>2. N!Cardinality({}) = 0
    BY FS_EmptySet, NotificatorCounts
  <2> QED
    BY <2>1, <2>2, StatsAre DEF N!NoStats
<1>5. \A p \in N!Pairs : shown[p] = N!NoStats /\ last[p] = N!NoStats
  BY <1>1
<1> QED
  BY <1>3, <1>4, <1>5 DEF NoteInv, Right

LEMMA NoteInvEnough == NoteInv => N!ShownIsTrue
<1> SUFFICES ASSUME NoteInv, told = <<>>, NEW p \in N!Pairs, p[1] = 1, ~stale[p]
             PROVE  shown[p] = N!Stats(p)
  BY DEF N!ShownIsTrue
<1>1. Untold(p)
  BY DEF Untold
<1> QED
  BY <1>1 DEF NoteInv, Right

\* A change of the rows that is told, or marks those whom it concerns.
LEMMA WriteKeepsNoteInv ==
  ASSUME NoteInv, NEW e \in Ecos, NEW to \in NoteUsers \cup {NoteRole}, NEW safe \in BOOLEAN,
         N!Write(e, to, safe), notes' \in Seq(NoteRows),
         \A p \in N!Pairs : ~Concerns(e, to, p) => \A r \in {0, NoteRole} : CountedRows(notes', r, p) = CountedRows(notes, r, p)
  PROVE  NoteInv'
<1>0. NoteType
  BY DEF NoteInv
<1>1. UNCHANGED <<last, shown, asked>> /\ told = <<>>
  BY DEF N!Write
<1>2. /\ safe => told' = Append(told, [eco |-> e, to |-> to]) /\ stale' = stale
      /\ ~safe => told' = told /\ stale' = [p \in N!Pairs |-> stale[p] \/ p[1] = e]
  BY DEF N!Write, N!Tell
<1>3. safe => told' = <<[eco |-> e, to |-> to]>>
  BY <1>1, <1>2
<1>4. told' \in Seq([eco : Ecos, to : NoteUsers \cup {NoteRole}]) /\ Len(told') <= 1
  <2>1. CASE safe
    <3>1. [eco |-> e, to |-> to] \in [eco : Ecos, to : NoteUsers \cup {NoteRole}]
      OBVIOUS
    <3> DEFINE it == [eco |-> e, to |-> to]
               all == [eco : Ecos, to : NoteUsers \cup {NoteRole}]
    <3> HIDE DEF it, all
    <3>2. <<it>> \in Seq(all) /\ Len(<<it>>) = 1
      BY <3>1 DEF it, all
    <3>3. told' = <<it>>
      BY <1>3, <2>1 DEF it
    <3> QED
      BY <3>2, <3>3 DEF all
  <2>2. CASE ~safe
    BY <1>1, <1>2, <2>2
  <2> QED
    BY <2>1, <2>2
<1>5. stale' \in [N!Pairs -> BOOLEAN]
  BY <1>0, <1>2 DEF NoteType
<1>8. undoNotes' \in Seq(Seq(NoteRows))
  <2> DEFINE lists == Seq(NoteRows)
  <2>1. notes \in lists /\ undoNotes \in Seq(lists) /\ undoNotes' = Append(undoNotes, notes)
    BY <1>0 DEF NoteType, N!Write
  <2> HIDE DEF lists
  <2>2. undoNotes' \in Seq(lists)
    BY <2>1
  <2> QED
    BY <2>2 DEF lists
<1>6. NoteType'
  BY <1>0, <1>1, <1>4, <1>5, <1>8 DEF NoteType
<1>7. ASSUME NEW p \in N!Pairs, p[1] = 1 PROVE Right(stale[p], shown[p], last[p], N!Stats(p), Untold(p))'
  <2>1. Untold(p) /\ Right(stale[p], shown[p], last[p], N!Stats(p), Untold(p))
    <3>1. DOMAIN told = {}
      BY <1>1
    <3> QED
      BY <1>7, <3>1 DEF NoteInv, Untold
  <2>2. CASE ~Concerns(e, to, p)
    <3>1. \A r \in {0, NoteRole} : CountedRows(notes', r, p) = CountedRows(notes, r, p)
      BY <2>2
    <3>2. N!Stats(p)' = N!Stats(p)
      BY <3>1, StatsAre DEF N!Stats, CountedRows, Counted
    <3>3. ~stale'[p] => ~stale[p]
      BY <1>2
    <3> QED
      BY <1>1, <2>1, <3>2, <3>3 DEF Right
  <2>3. CASE Concerns(e, to, p) /\ safe
    <3>1. told'[1] = [eco |-> e, to |-> to] /\ 1 \in DOMAIN told'
      BY <1>3, <2>3
    <3>2. ~Untold(p)'
      BY <2>3, <3>1 DEF Untold
    <3> QED
      BY <1>1, <1>2, <2>1, <2>3, <3>2 DEF Right
  <2>4. CASE Concerns(e, to, p) /\ ~safe
    <3>1. stale'[p]
      BY <1>2, <2>4 DEF Concerns
    <3> QED
      BY <3>1 DEF Right
  <2> QED
    BY <2>2, <2>3, <2>4
<1> QED
  BY <1>6, <1>7 DEF NoteInv

\* A new notification is counted for those whom it concerns.
LEMMA NewNoteKeepsNoteInv ==
  ASSUME NoteInv, NEW e \in Ecos, NEW to \in NoteUsers \cup {NoteRole}, NEW safe \in BOOLEAN, N!NewNote(e, to, safe)
  PROVE  NoteInv'
<1> DEFINE note == [eco |-> e, to |-> to, open |-> TRUE, taken |-> "nobody"]
<1>1. notes' = Append(notes, note) /\ N!Write(e, to, safe)
  BY DEF N!NewNote
<1>2. note \in NoteRows /\ note.eco = e /\ note.to = to
  BY DEF NoteRows
<1> HIDE DEF note
<1>3. notes \in Seq(NoteRows)
  BY DEF NoteInv, NoteType
<1>4. /\ notes' \in Seq(NoteRows) /\ DOMAIN notes' = DOMAIN notes \cup {Len(notes) + 1} /\ notes'[Len(notes) + 1] = note
      /\ \A k \in DOMAIN notes : notes'[k] = notes[k]
  BY <1>1, <1>2, <1>3
<1>5. ASSUME NEW p \in N!Pairs, ~Concerns(e, to, p), NEW r \in {0, NoteRole}
      PROVE  CountedRows(notes', r, p) = CountedRows(notes, r, p)
  <2>1. ~Counted(note, r, p)
    BY <1>2, <1>5 DEF Counted, Concerns
  <2> QED
    BY <1>4, <2>1 DEF CountedRows
<1> QED
  BY <1>1, <1>4, <1>5, WriteKeepsNoteInv

\* One that is changed keeps its ecosystem and whom it is for.
LEMMA ChangeKeepsNoteInv ==
  ASSUME NoteInv, NEW k \in DOMAIN notes, NEW note \in NoteRows, note.eco = notes[k].eco, note.to = notes[k].to,
         NEW safe \in BOOLEAN, notes' = [notes EXCEPT ![k] = note], N!Write(notes[k].eco, notes[k].to, safe)
  PROVE  NoteInv'
<1>1. notes \in Seq(NoteRows)
  BY DEF NoteInv, NoteType
<1>2. /\ notes' \in Seq(NoteRows) /\ DOMAIN notes' = DOMAIN notes /\ notes'[k] = note /\ notes[k] \in NoteRows
      /\ \A j \in DOMAIN notes : j # k => notes'[j] = notes[j]
  BY <1>1
<1>3. notes[k].eco \in Ecos /\ notes[k].to \in NoteUsers \cup {NoteRole}
  BY <1>2 DEF NoteRows
<1>4. ASSUME NEW p \in N!Pairs, ~Concerns(notes[k].eco, notes[k].to, p), NEW r \in {0, NoteRole}
      PROVE  CountedRows(notes', r, p) = CountedRows(notes, r, p)
  <2>1. ~Counted(note, r, p) /\ ~Counted(notes[k], r, p)
    BY <1>4 DEF Counted, Concerns
  <2> QED
    BY <1>2, <2>1 DEF CountedRows
<1> QED
  BY <1>2, <1>3, <1>4, WriteKeepsNoteInv

LEMMA CloseNoteKeepsNoteInv ==
  ASSUME NoteInv, NEW k \in DOMAIN notes, NEW safe \in BOOLEAN, N!CloseNote(k, safe)
  PROVE  NoteInv'
<1> DEFINE note == [notes[k] EXCEPT !.open = FALSE]
<1>1. notes[k] \in NoteRows
  BY DEF NoteInv, NoteType
<1>2. note \in NoteRows /\ note.eco = notes[k].eco /\ note.to = notes[k].to
  BY <1>1 DEF NoteRows
<1>3. notes' = [notes EXCEPT ![k] = note] /\ N!Write(notes[k].eco, notes[k].to, safe)
  BY DEF N!CloseNote
<1> HIDE DEF note
<1> QED
  BY <1>2, <1>3, ChangeKeepsNoteInv

LEMMA TakeNoteKeepsNoteInv ==
  ASSUME NoteInv, NEW k \in DOMAIN notes, N!TakeNote(k, CHOOSE u \in NoteUsers : TRUE)
  PROVE  NoteInv'
<1> DEFINE v == CHOOSE u \in NoteUsers : TRUE
           note == [notes[k] EXCEPT !.taken = v]
<1>1. notes[k] \in NoteRows
  BY DEF NoteInv, NoteType
<1>2. v \in NoteUsers \cup {"nobody", CHOOSE u \in NoteUsers : TRUE}
  OBVIOUS
<1>3. notes' = [notes EXCEPT ![k] = note] /\ N!Write(notes[k].eco, notes[k].to, TRUE)
  BY DEF N!TakeNote
<1> HIDE DEF v
<1>4. note \in NoteRows /\ note.eco = notes[k].eco /\ note.to = notes[k].to
  BY <1>1, <1>2 DEF NoteRows
<1> HIDE DEF note
<1> QED
  BY <1>3, <1>4, ChangeKeepsNoteInv

\* Those who are concerned are counted anew; what has not changed was right.
LEMMA UpdateNotificationsKeepsNoteInv ==
  ASSUME NoteInv, NEW lost \in BOOLEAN, N!UpdateNotifications(lost)
  PROVE  NoteInv'
<1> DEFINE item == Head(told)
           users == IF item.to = NoteRole THEN N!GetRoleMembers(item.eco) ELSE {item.to}
           sends == {p \in N!Pairs : p[1] = item.eco /\ p[2] \in users /\ N!statsChanged(last[p], N!Stats(p))}
<1>0. NoteType
  BY DEF NoteInv
<1>1. /\ told # <<>> /\ told' = Tail(told)
      /\ last' = [p \in N!Pairs |-> IF p \in sends THEN N!Stats(p) ELSE last[p]]
      /\ shown' = [p \in N!Pairs |-> IF p \in sends /\ ~lost THEN N!Stats(p) ELSE shown[p]]
      /\ stale' = [p \in N!Pairs |-> IF p \in sends THEN lost ELSE stale[p]]
      /\ notes' = notes /\ undoNotes' = undoNotes /\ asked' = asked
  BY DEF N!UpdateNotifications
<1>2. told' = <<>> /\ DOMAIN told = {1} /\ item = told[1]
  <2> DEFINE all == [eco : Ecos, to : NoteUsers \cup {NoteRole}]
  <2>0. told \in Seq(all) /\ Len(told) <= 1 /\ told # <<>>
    BY <1>0, <1>1 DEF NoteType
  <2> HIDE DEF all
  <2>1. told \in Seq(all) /\ Len(told) = 1
    BY <2>0
  <2> QED
    BY <1>1, <2>1
<1>3. \A p \in N!Pairs : N!Stats(p) \in NoteCounts /\ N!Stats(p)' = N!Stats(p)
  <2>1. \A p \in N!Pairs : N!Stats(p) \in NoteCounts
    BY <1>0, StatsAreCounts
  <2>2. \A p \in N!Pairs : N!Stats(p)' = N!Stats(p)
    BY <1>1 DEF N!Stats
  <2> QED
    BY <2>1, <2>2
<1>4. ASSUME NEW p \in N!Pairs, p[1] = 1, p \notin sends, Concerns(item.eco, item.to, p)
      PROVE  last[p] = N!Stats(p)
  <2>1. p[2] \in NoteUsers /\ item.eco = p[1]
    BY <1>4 DEF N!Pairs, Concerns
  <2>2. p[2] \in users
    BY <1>4, <2>1 DEF Concerns, N!GetRoleMembers
  <2>3. ~N!statsChanged(last[p], N!Stats(p))
    BY <1>4, <2>1, <2>2
  <2>4. last[p] \in NoteCounts
    BY <1>0 DEF NoteType
  <2> QED
    BY <1>3, <2>3, <2>4, StatsChangedIs
<1> HIDE DEF sends, users, item
<1>5. NoteType'
  BY <1>0, <1>1, <1>2, <1>3 DEF NoteType
<1>6. ASSUME NEW p \in N!Pairs, p[1] = 1 PROVE Right(stale[p], shown[p], last[p], N!Stats(p), Untold(p))'
  <2>1. Right(stale[p], shown[p], last[p], N!Stats(p), Untold(p))
    BY <1>6 DEF NoteInv
  <2>2. N!Stats(p)' = N!Stats(p)
    BY <1>3
  <2>3. CASE p \in sends
    <3>1. last'[p] = N!Stats(p) /\ (stale'[p] = lost) /\ (~lost => shown'[p] = N!Stats(p))
      BY <1>1, <2>3
    <3> QED
      BY <2>2, <3>1 DEF Right
  <2>4. CASE p \notin sends
    <3>1. last'[p] = last[p] /\ (stale'[p] = stale[p]) /\ shown'[p] = shown[p]
      BY <1>1, <2>4
    <3>2. Untold(p) \/ last[p] = N!Stats(p)
      BY <1>2, <1>4, <1>6, <2>4 DEF Untold
    <3> QED
      BY <2>1, <2>2, <3>1, <3>2 DEF Right
  <2> QED
    BY <2>3, <2>4
<1> QED
  BY <1>5, <1>6 DEF NoteInv

\* A client that asks is sent the count of now, or marked.
LEMMA RequestKeepsNoteInv ==
  ASSUME NoteInv, N!SendByRequest \/ \E p \in N!Pairs : N!ReadByRequest(p)
  PROVE  NoteInv'
<1>0. NoteType
  BY DEF NoteInv
<1>1. UNCHANGED <<notes, undoNotes, told, last>>
  BY DEF N!SendByRequest, N!ReadByRequest
<1>2. \A p \in N!Pairs : N!Stats(p) \in NoteCounts /\ N!Stats(p)' = N!Stats(p) /\ (Untold(p)' <=> Untold(p))
  <2>1. \A p \in N!Pairs : N!Stats(p) \in NoteCounts
    BY <1>0, StatsAreCounts
  <2>2. \A p \in N!Pairs : N!Stats(p)' = N!Stats(p)
    BY <1>1 DEF N!Stats
  <2> QED
    BY <1>1, <2>1, <2>2 DEF Untold
<1>3. CASE N!SendByRequest
  <2> DEFINE q == asked.who
  <2>1. /\ asked # N!Nothing /\ asked' = N!Nothing /\ shown' = [shown EXCEPT ![q] = asked.stats]
        /\ stale' = [stale EXCEPT ![q] = @ \/ asked.stats # N!Stats(q)]
    BY <1>3 DEF N!SendByRequest
  <2>2. q \in N!Pairs /\ asked.stats \in NoteCounts
    BY <1>0, <2>1 DEF NoteType
  <2> HIDE DEF q
  <2>3. NoteType'
    BY <1>0, <1>1, <2>1, <2>2 DEF NoteType
  <2>4. ASSUME NEW p \in N!Pairs, p[1] = 1 PROVE Right(stale[p], shown[p], last[p], N!Stats(p), Untold(p))'
    <3>1. Right(stale[p], shown[p], last[p], N!Stats(p), Untold(p))
      BY <2>4 DEF NoteInv
    <3>2. /\ p = q => shown'[p] = asked.stats /\ (stale'[p] <=> stale[p] \/ asked.stats # N!Stats(p))
          /\ p # q => shown'[p] = shown[p] /\ (stale'[p] <=> stale[p])
      BY <1>0, <2>1 DEF NoteType
    <3> QED
      BY <1>1, <1>2, <3>1, <3>2 DEF Right
  <2> QED
    BY <2>3, <2>4 DEF NoteInv
<1>4. CASE \E p \in N!Pairs : N!ReadByRequest(p)
  <2>1. PICK q \in N!Pairs : asked' = [who |-> q, stats |-> N!Stats(q)] /\ shown' = shown /\ stale' = stale
    BY <1>4 DEF N!ReadByRequest
  <2>2. asked' \in [who : N!Pairs, stats : NoteCounts]
    BY <1>2, <2>1
  <2>3. NoteType'
    BY <1>0, <1>1, <2>1, <2>2 DEF NoteType
  <2>4. ASSUME NEW p \in N!Pairs, p[1] = 1 PROVE Right(stale[p], shown[p], last[p], N!Stats(p), Untold(p))'
    <3>1. Right(stale[p], shown[p], last[p], N!Stats(p), Untold(p))
      BY <2>4 DEF NoteInv
    <3> QED
      BY <1>1, <1>2, <2>1, <3>1 DEF Right
  <2> QED
    BY <2>3, <2>4 DEF NoteInv
<1> QED
  BY <1>3, <1>4

\* Whose count an undone block changes is marked; the others have been shown what
\* is counted again.
LEMMA RollbackKeepsNoteInv ==
  ASSUME NoteInv, N!RollbackBlock
  PROVE  NoteInv'
<1>0. NoteType
  BY DEF NoteInv
<1>1. /\ told = <<>> /\ UNCHANGED <<told, last, shown, asked>>
      /\ stale' = [p \in N!Pairs |-> stale[p] \/ N!Stats(p)' # N!Stats(p)]
  BY DEF N!RollbackBlock
<1>2. notes' \in Seq(NoteRows) /\ undoNotes' \in Seq(Seq(NoteRows))
  <2> DEFINE lists == Seq(NoteRows)
  <2>1. /\ undoNotes \in Seq(lists) /\ undoNotes # <<>> /\ notes' = undoNotes[Len(undoNotes)]
        /\ undoNotes' = SubSeq(undoNotes, 1, Len(undoNotes) - 1)
    BY <1>0 DEF NoteType, N!RollbackBlock
  <2> HIDE DEF lists
  <2>2. notes' \in lists /\ undoNotes' \in Seq(lists)
    BY <2>1
  <2> QED
    BY <2>2 DEF lists
<1>3. NoteType'
  BY <1>0, <1>1, <1>2 DEF NoteType
<1>4. ASSUME NEW p \in N!Pairs, p[1] = 1 PROVE Right(stale[p], shown[p], last[p], N!Stats(p), Untold(p))'
  <2>1. Right(stale[p], shown[p], last[p], N!Stats(p), Untold(p))
    BY <1>4 DEF NoteInv
  <2>2. CASE stale'[p]
    BY <2>2 DEF Right
  <2>3. CASE ~stale'[p]
    <3> DEFINE moved == N!Stats(p)' # N!Stats(p)
    <3>0. stale'[p] = (stale[p] \/ moved)
      BY <1>1
    <3> HIDE DEF moved
    <3>3. ~stale[p] /\ ~moved
      BY <2>3, <3>0
    <3>4. Untold(p)
      BY <1>1 DEF Untold
    <3>1. Untold(p) /\ ~stale[p] /\ N!Stats(p)' = N!Stats(p)
      BY <3>3, <3>4 DEF moved
    <3>2. shown'[p] = N!Stats(p)' /\ last'[p] = N!Stats(p)'
      BY <1>1, <2>1, <3>1 DEF Right
    <3> QED
      BY <3>2 DEF Right
  <2> QED
    BY <2>2, <2>3
<1> QED
  BY <1>3, <1>4 DEF NoteInv

\* After a restart only those are not marked who had nothing to be told of.
LEMMA RestartKeepsNoteInv ==
  ASSUME NoteInv, N!Restart
  PROVE  NoteInv'
<1>0. NoteType
  BY DEF NoteInv
<1>1. /\ told' = <<>> /\ last' = [p \in N!Pairs |-> N!NoStats] /\ asked' = N!Nothing
      /\ stale' = [p \in N!Pairs |-> stale[p] \/ shown[p] # N!NoStats \/ N!Stats(p) # N!NoStats]
      /\ UNCHANGED <<notes, undoNotes, shown>>
  BY DEF N!Restart
<1>2. N!NoStats \in NoteCounts
  BY DEF N!NoStats, NoteCounts
<1>3. NoteType'
  BY <1>0, <1>1, <1>2 DEF NoteType
<1>4. ASSUME NEW p \in N!Pairs PROVE Right(stale[p], shown[p], last[p], N!Stats(p), Untold(p))'
  <2>1. N!Stats(p)' = N!Stats(p)
    BY <1>1 DEF N!Stats
  <2>2. CASE stale'[p]
    BY <2>2 DEF Right
  <2>3. CASE ~stale'[p]
    <3>1. shown'[p] = N!NoStats /\ last'[p] = N!NoStats /\ N!Stats(p)' = N!NoStats
      BY <1>1, <2>1, <2>3
    <3> QED
      BY <3>1 DEF Right
  <2> QED
    BY <2>2, <2>3
<1> QED
  BY <1>3, <1>4 DEF NoteInv

\* A step of any machine keeps it (MCWork!Next).
LEMMA NoteInvNext == NoteInv /\ [Next]_vars => NoteInv'
<1> SUFFICES ASSUME NoteInv, [Next]_vars
             PROVE  NoteInv'
  OBVIOUS
<1>1. CASE N!Next
  BY <1>1, NewNoteKeepsNoteInv, CloseNoteKeepsNoteInv, TakeNoteKeepsNoteInv, UpdateNotificationsKeepsNoteInv,
     RequestKeepsNoteInv, RollbackKeepsNoteInv, RestartKeepsNoteInv DEF N!Next
<1>2. CASE UNCHANGED ntf
  BY <1>2 DEF ntf, NoteInv, NoteType, Untold, N!Stats
<1> QED
  BY <1>1, <1>2 DEF Next, vars

\* However blocks, undone blocks, restarts, lost messages and requests interleave,
\* a member of the first ecosystem who has been told of the last change has been
\* shown the number of his open notifications: what the node remembers as sent
\* last hides no change from him (UpdateNotifications, statsChanged,
\* SendNotificationsByRequest).
THEOREM ShownIsAlwaysTrue == Spec => []ShownIsTrue
<1>1. Init => NoteInv
  BY NoteInvInit DEF Init
<1>2. NoteInv => ShownIsTrue
  BY NoteInvEnough DEF ShownIsTrue
<1> QED
  BY <1>1, <1>2, NoteInvNext, PTL DEF Spec

-----------------------------------------------------------------------------
(***************************************************************************)
(* Delayed contracts.  The invariant speaks of the rows as they are and as *)
(* every block of the chain found them, since undoing the block brings     *)
(* them back.                                                              *)
(***************************************************************************)
DRows == [Delayed -> [block_id : Int, counter : Nat]]
DTxs == [id : Delayed, by : Makers, no : Nat]
DBlocks == [txs : SUBSET DTxs, calls : SUBSET DTxs, before : DRows]

DelayedType ==
  /\ delayed \in DRows /\ chainOf \in Seq(DBlocks) /\ madeTxs \in Nat
  /\ unused \in [Makers -> SUBSET DTxs] /\ used \in [Makers -> SUBSET DTxs]
  /\ \A n \in Makers : IsFiniteSet(unused[n]) /\ IsFiniteSet(used[n])

\* The blocks among the first h in which d was called.
CallsUpTo(chain, d, h) == {b \in 1..h : \E t \in chain[b].calls : t.id = d}

\* The rows after h blocks.
RowsAfter(chain, now, h) == IF h < Len(chain) THEN chain[h + 1].before ELSE now

AtLimit(r, d) == CallLimit[d] > 0 /\ r.counter >= CallLimit[d]

\* A row counts the calls, and waits for every_block blocks after the last.
RowIsRight(chain, r, d, h) ==
  /\ r.counter = Cardinality(CallsUpTo(chain, d, h))
  /\ CallLimit[d] > 0 => r.counter <= CallLimit[d]
  /\ ~AtLimit(r, d) => \A b \in CallsUpTo(chain, d, h) : r.block_id >= b + EveryBlock[d]

IsSpaced(chain, d) == \A b, c \in CallsUpTo(chain, d, Len(chain)) : b < c => c - b >= EveryBlock[d]

\* After h blocks it waits for one to come, or a transaction for it is in a
\* table, or in a later block.
WillCome(chain, waiting, r, d, h) ==
  \/ AtLimit(r, d) \/ r.block_id > h
  \/ \E n \in Makers : \E t \in waiting[n] : t.id = d
  \/ \E c \in (h + 1)..Len(chain) : \E t \in chain[c].txs : t.id = d

RowHistory(chain, now, d) == \A h \in 0..Len(chain) : RowIsRight(chain, RowsAfter(chain, now, h)[d], d, h)
CallHistory(chain, waiting, now, d) ==
  \A h \in 0..Len(chain) : WillCome(chain, waiting, RowsAfter(chain, now, h)[d], d, h)

DelayedInv ==
  /\ DelayedType
  /\ \A d \in Delayed : IsSpaced(chainOf, d) /\ RowHistory(chainOf, delayed, d)
  /\ \A d \in Delayed \ given : CallHistory(chainOf, unused, delayed, d)

\* The two names of the same cardinality.
LEMMA DelayedCounts == \A A : D!Cardinality(A) = Cardinality(A)
BY Zenon DEF D!Cardinality, Cardinality

LEMMA CallsUpToIsFinite ==
  ASSUME NEW chain, NEW d, NEW h \in Nat
  PROVE  IsFiniteSet(CallsUpTo(chain, d, h)) /\ Cardinality(CallsUpTo(chain, d, h)) \in Nat
<1>1. CallsUpTo(chain, d, h) \subseteq 1..h
  BY DEF CallsUpTo
<1>2. IsFiniteSet(1..h)
  BY FS_Interval
<1>3. IsFiniteSet(CallsUpTo(chain, d, h))
  BY <1>1, <1>2, FS_Subset
<1> QED
  BY <1>3, FS_CardinalityType

\* Two chains that agree on h blocks have the same calls there.
LEMMA CallsOfPrefix ==
  ASSUME NEW one, NEW two, NEW h \in Nat, \A b \in 1..h : one[b] = two[b], NEW d
  PROVE  CallsUpTo(one, d, h) = CallsUpTo(two, d, h)
BY DEF CallsUpTo

\* It holds in the beginning, and it is enough.
LEMMA DelayedInvInit == D!Init => DelayedInv
<1> SUFFICES ASSUME D!Init
             PROVE  DelayedInv
  OBVIOUS
<1>1. /\ delayed = [d \in Delayed |-> [block_id |-> FirstBlock[d], counter |-> 0]] /\ chainOf = <<>>
      /\ unused = [n \in Makers |-> {}] /\ used = [n \in Makers |-> {}] /\ madeTxs = 0
  BY DEF D!Init
<1>2. Len(chainOf) = 0 /\ chainOf \in Seq(DBlocks)
  BY <1>1
<1>3. delayed \in DRows
  BY <1>1, DelayedAssumption DEF DRows
<1>4. DelayedType
  BY <1>1, <1>2, <1>3, FS_EmptySet DEF DelayedType
<1>5. ASSUME NEW d \in Delayed
      PROVE  IsSpaced(chainOf, d) /\ RowHistory(chainOf, delayed, d) /\ CallHistory(chainOf, unused, delayed, d)
  <2>1. CallsUpTo(chainOf, d, 0) = {} /\ Cardinality({}) = 0
    BY FS_EmptySet DEF CallsUpTo
  <2>2. delayed[d].counter = 0
    BY <1>1
  <2>3. IsSpaced(chainOf, d)
    BY <1>2, <2>1 DEF IsSpaced
  <2>4. RowsAfter(chainOf, delayed, 0) = delayed /\ 0..Len(chainOf) = {0}
    BY <1>2 DEF RowsAfter
  <2>5. RowIsRight(chainOf, delayed[d], d, 0)
    BY <2>1, <2>2, DelayedAssumption DEF RowIsRight
  <2>6. WillCome(chainOf, unused, delayed[d], d, 0)
    BY <1>1, DelayedAssumption DEF WillCome
  <2> QED
    BY <2>3, <2>4, <2>5, <2>6 DEF RowHistory, CallHistory
<1> QED
  BY <1>4, <1>5 DEF DelayedInv

LEMMA DelayedInvEnough == DelayedInv => D!CallsAreKept
<1> SUFFICES ASSUME DelayedInv
             PROVE  D!CallsAreKept
  OBVIOUS
<1>0. Len(chainOf) \in Nat
  BY DEF DelayedInv, DelayedType
<1>1. RowsAfter(chainOf, delayed, Len(chainOf)) = delayed /\ D!Height = Len(chainOf)
  BY <1>0 DEF RowsAfter, D!Height
<1>2. ASSUME NEW d \in Delayed
      PROVE  /\ CallLimit[d] > 0 => D!Cardinality(D!CallsOf(d)) <= CallLimit[d]
             /\ \A b, c \in D!CallsOf(d) : b < c => c - b >= EveryBlock[d]
  <2>1. D!CallsOf(d) = CallsUpTo(chainOf, d, Len(chainOf))
    BY <1>1 DEF D!CallsOf, CallsUpTo
  <2>2. RowIsRight(chainOf, delayed[d], d, Len(chainOf)) /\ IsSpaced(chainOf, d)
    BY <1>0, <1>1 DEF DelayedInv, RowHistory
  <2> QED
    BY <2>1, <2>2, DelayedCounts DEF RowIsRight, IsSpaced
<1>3. ASSUME NEW d \in Delayed \ given
      PROVE  \/ CallLimit[d] > 0 /\ delayed[d].counter >= CallLimit[d]
             \/ delayed[d].block_id > D!Height
             \/ \E n \in Makers : \E t \in unused[n] : t.id = d
  <2>1. WillCome(chainOf, unused, delayed[d], d, Len(chainOf))
    BY <1>0, <1>1 DEF DelayedInv, CallHistory
  <2>2. (Len(chainOf) + 1)..Len(chainOf) = {}
    BY <1>0
  <2> QED
    BY <1>1, <2>1, <2>2 DEF WillCome, AtLimit
<1> QED
  BY <1>2, <1>3 DEF D!CallsAreKept, D!CallsAreSpaced, D!WillBeCalled

\* More transactions in the tables, and more rows given up, ask for no more.
LEMMA MoreWaiting ==
  ASSUME DelayedInv, DelayedType', chainOf' = chainOf, delayed' = delayed, given \subseteq given',
         \A n \in Makers : unused[n] \subseteq unused'[n]
  PROVE  DelayedInv'
<1>1. ASSUME NEW d \in Delayed \ given'
      PROVE  CallHistory(chainOf', unused', delayed', d)
  <2>1. CallHistory(chainOf, unused, delayed, d)
    BY DEF DelayedInv
  <2>2. \A h \in 0..Len(chainOf) : WillCome(chainOf, unused, RowsAfter(chainOf, delayed, h)[d], d, h)
                                  => WillCome(chainOf, unused', RowsAfter(chainOf, delayed, h)[d], d, h)
    BY DEF WillCome
  <2> QED
    BY <2>1, <2>2 DEF CallHistory
<1> QED
  BY <1>1 DEF DelayedInv

\* What a node makes is finite.
LEMMA MadeIsFinite ==
  ASSUME DelayedType, NEW n \in Makers, NEW h
  PROVE  D!RunForBlockID(n, h) \in SUBSET DTxs /\ IsFiniteSet(D!RunForBlockID(n, h))
<1> DEFINE J == D!GetAllDelayedContractsForBlockID(h)
           A == D!RunForBlockID(n, h)
           f == [d \in J |-> [id |-> d, by |-> n, no |-> madeTxs + 1]]
<1>1. J \subseteq Delayed
  BY DEF D!GetAllDelayedContractsForBlockID
<1>2. IsFiniteSet(J)
  BY <1>1, DelayedAssumption, FS_Subset
<1>3. A = {[id |-> d, by |-> n, no |-> madeTxs + 1] : d \in J}
  BY DEF D!RunForBlockID
<1> HIDE DEF J, A
<1>4. A \subseteq DTxs
  BY <1>1, <1>3 DEF DTxs, DelayedType
<1>5. f \in Surjection(J, A)
  BY <1>3 DEF Surjection
<1> HIDE DEF f
<1> QED
  BY <1>2, <1>4, <1>5, FS_Surjection DEF A

\* Transactions that no block takes.
LEMMA TimeIsOverKeepsDelayedInv ==
  ASSUME DelayedInv, NEW n \in Makers, D!TimeIsOver(n)
  PROVE  DelayedInv'
<1> DEFINE A == D!RunForBlockID(n, D!Height + 1)
<1>0. DelayedType
  BY DEF DelayedInv
<1>1. UNCHANGED <<delayed, chainOf, used, given>> /\ unused' = [unused EXCEPT ![n] = @ \cup A] /\ madeTxs' = madeTxs + 1
  BY DEF D!TimeIsOver
<1>2. A \in SUBSET DTxs /\ IsFiniteSet(A)
  BY <1>0, MadeIsFinite
<1> HIDE DEF A
<1>3. IsFiniteSet(unused[n] \cup A)
  BY <1>0, <1>2, FS_Union DEF DelayedType
<1>4. DelayedType'
  BY <1>0, <1>1, <1>2, <1>3 DEF DelayedType
<1>5. \A m \in Makers : unused[m] \subseteq unused'[m]
  BY <1>0, <1>1 DEF DelayedType
<1> QED
  BY <1>1, <1>4, <1>5, MoreWaiting

LEMMA DisseminateKeepsDelayedInv ==
  ASSUME DelayedInv, NEW n \in Makers, NEW m \in Makers, NEW t \in unused[n] \cup used[n], D!Disseminate(n, m, t)
  PROVE  DelayedInv'
<1>0. DelayedType
  BY DEF DelayedInv
<1>1. UNCHANGED <<delayed, chainOf, used, madeTxs, given>> /\ unused' = [unused EXCEPT ![m] = @ \cup {t}]
  BY DEF D!Disseminate
<1>2. t \in DTxs
  BY <1>0 DEF DelayedType
<1>3. IsFiniteSet(unused[m] \cup {t})
  BY <1>0, FS_AddElement DEF DelayedType
<1>4. DelayedType'
  BY <1>0, <1>1, <1>2, <1>3 DEF DelayedType
<1>5. \A k \in Makers : unused[k] \subseteq unused'[k]
  BY <1>0, <1>1 DEF DelayedType
<1> QED
  BY <1>1, <1>4, <1>5, MoreWaiting

\* What is left of a sequence.
LEMMA PrefixIs ==
  ASSUME NEW A, NEW list \in Seq(A), NEW n \in Nat, n <= Len(list)
  PROVE  /\ SubSeq(list, 1, n) \in Seq(A) /\ Len(SubSeq(list, 1, n)) = n
         /\ \A i \in 1..n : SubSeq(list, 1, n)[i] = list[i]
OBVIOUS

\* A block is undone: the rows are those that it found, and its transactions are
\* in a table again or given up.
LEMMA RollbackKeepsDelayedInv ==
  ASSUME DelayedInv, D!RollbackBlock
  PROVE  DelayedInv'
<1> DEFINE top == Len(chainOf)
           b == chainOf[top]
           back(n) == used[n] \cap b.txs
           gone == {t \in b.txs : \A n \in Makers : t \notin back(n)}
<1>0. DelayedType /\ chainOf \in Seq(DBlocks)
  BY DEF DelayedInv, DelayedType
<1>1. /\ top > 0 /\ chainOf' = SubSeq(chainOf, 1, top - 1) /\ delayed' = b.before
      /\ unused' = [n \in Makers |-> unused[n] \cup back(n)]
      /\ used' = [n \in Makers |-> used[n] \ b.txs]
      /\ given' = given \cup {t.id : t \in gone} /\ madeTxs' = madeTxs
  BY DEF D!RollbackBlock, D!Height
<1>2. top \in Nat /\ top - 1 \in Nat /\ b \in DBlocks
  BY <1>0, <1>1
<1>3. /\ chainOf' \in Seq(DBlocks) /\ Len(chainOf') = top - 1
      /\ \A c \in 1..(top - 1) : chainOf'[c] = chainOf[c]
  <2>1. top - 1 <= Len(chainOf)
    BY <1>2
  <2> HIDE DEF top
  <2> QED
    BY <1>0, <1>1, <1>2, <2>1, PrefixIs
<1>4. b.before \in DRows
  BY <1>2 DEF DBlocks
<1>5. \A n \in Makers : IsFiniteSet(unused[n] \cup back(n)) /\ IsFiniteSet(used[n] \ b.txs)
  <2> SUFFICES ASSUME NEW n \in Makers PROVE IsFiniteSet(unused[n] \cup back(n)) /\ IsFiniteSet(used[n] \ b.txs)
    OBVIOUS
  <2>1. IsFiniteSet(unused[n]) /\ IsFiniteSet(used[n])
    BY <1>0 DEF DelayedType
  <2>2. IsFiniteSet(back(n)) /\ IsFiniteSet(used[n] \ b.txs)
    BY <2>1, FS_Subset
  <2> HIDE DEF back
  <2> QED
    BY <2>1, <2>2, FS_Union
<1>6. unused' \in [Makers -> SUBSET DTxs] /\ used' \in [Makers -> SUBSET DTxs]
  BY <1>0, <1>1 DEF DelayedType
<1>7. DelayedType'
  BY <1>0, <1>1, <1>3, <1>4, <1>5, <1>6 DEF DelayedType
<1>8. ASSUME NEW h \in 0..(top - 1) PROVE RowsAfter(chainOf', delayed', h) = RowsAfter(chainOf, delayed, h)
  <2>1. CASE h < top - 1
    BY <1>2, <1>3, <2>1 DEF RowsAfter
  <2>2. CASE h = top - 1
    <3>1. RowsAfter(chainOf', delayed', h) = delayed'
      BY <1>2, <1>3, <2>2 DEF RowsAfter
    <3>2. h < Len(chainOf) /\ h + 1 = top
      BY <1>2, <2>2
    <3>3. RowsAfter(chainOf, delayed, h) = chainOf[top].before
      BY <3>2 DEF RowsAfter
    <3> QED
      BY <1>1, <3>1, <3>3
  <2> QED
    BY <1>2, <2>1, <2>2
<1>9. \A d \in Delayed : \A h \in 0..(top - 1) : CallsUpTo(chainOf', d, h) = CallsUpTo(chainOf, d, h)
  BY <1>2, <1>3 DEF CallsUpTo
<1>10. ASSUME NEW d \in Delayed PROVE IsSpaced(chainOf', d) /\ RowHistory(chainOf', delayed', d)
  <2>1. CallsUpTo(chainOf', d, top - 1) = CallsUpTo(chainOf, d, top - 1)
    BY <1>2, <1>9
  <2>2. CallsUpTo(chainOf, d, top - 1) \subseteq CallsUpTo(chainOf, d, top)
    BY <1>2 DEF CallsUpTo
  <2>3. IsSpaced(chainOf', d)
    BY <1>3, <2>1, <2>2 DEF DelayedInv, IsSpaced
  <2>4. ASSUME NEW h \in 0..(top - 1) PROVE RowIsRight(chainOf', RowsAfter(chainOf', delayed', h)[d], d, h)
    <3>1. h \in 0..Len(chainOf)
      BY <1>2
    <3>2. RowIsRight(chainOf, RowsAfter(chainOf, delayed, h)[d], d, h)
      BY <3>1 DEF DelayedInv, RowHistory
    <3> QED
      BY <1>8, <1>9, <3>2 DEF RowIsRight
  <2> QED
    BY <1>3, <2>3, <2>4 DEF RowHistory
<1>11. ASSUME NEW d \in Delayed \ given' PROVE CallHistory(chainOf', unused', delayed', d)
  <2>1. ASSUME NEW h \in 0..(top - 1) PROVE WillCome(chainOf', unused', RowsAfter(chainOf', delayed', h)[d], d, h)
    <3>1. h \in 0..Len(chainOf) /\ d \in Delayed \ given
      BY <1>1, <1>2
    <3> DEFINE r == RowsAfter(chainOf, delayed, h)[d]
    <3>2. WillCome(chainOf, unused, r, d, h)
      BY <3>1 DEF DelayedInv, CallHistory
    <3>3. RowsAfter(chainOf', delayed', h)[d] = r
      BY <1>8
    <3> HIDE DEF r
    <3>4. CASE AtLimit(r, d) \/ r.block_id > h
      BY <3>3, <3>4 DEF WillCome
    <3>5. CASE \E n \in Makers : \E t \in unused[n] : t.id = d
      <4>1. \E n \in Makers : \E t \in unused'[n] : t.id = d
        BY <1>1, <3>5
      <4> QED
        BY <4>1 DEF WillCome
    <3>6. ASSUME NEW c \in (h + 1)..Len(chainOf), NEW t \in chainOf[c].txs, t.id = d
          PROVE  WillCome(chainOf', unused', RowsAfter(chainOf', delayed', h)[d], d, h)
      <4>1. CASE c = top
        <5>1. t \notin gone
          BY <1>1, <1>11, <3>6
        <5>2. PICK n \in Makers : t \in back(n)
          BY <3>6, <4>1, <5>1
        <5>3. t \in unused'[n]
          BY <1>1, <5>2
        <5> QED
          BY <3>6, <5>3 DEF WillCome
      <4>2. CASE c # top
        <5>1. c \in (h + 1)..Len(chainOf') /\ chainOf'[c] = chainOf[c]
          BY <1>2, <1>3, <4>2
        <5> QED
          BY <3>6, <5>1 DEF WillCome
      <4> QED
        BY <4>1, <4>2
    <3> QED
      BY <3>2, <3>4, <3>5, <3>6 DEF WillCome
  <2> QED
    BY <1>3, <2>1 DEF CallHistory
<1> QED
  BY <1>7, <1>10, <1>11 DEF DelayedInv

\* What playing a block does to a row.
CallDone(d, fails, txs) == d \notin fails /\ D!Conditions(d, Len(chainOf) + 1) /\ \E t \in txs : t.id = d

LEMMA PlayBlockIs ==
  ASSUME DelayedType, NEW txs \in SUBSET DTxs, IsFiniteSet(txs), NEW fails, D!PlayBlock(txs, fails)
  PROVE  \E block \in DBlocks :
           /\ chainOf' = Append(chainOf, block) /\ block.before = delayed /\ block.txs = txs
           /\ \A d \in Delayed : CallDone(d, fails, txs) <=> \E t \in block.calls : t.id = d
<1> DEFINE called == {d \in Delayed \ fails : D!Conditions(d, Len(chainOf) + 1) /\ \E t \in txs : t.id = d}
<1>1. PICK calls \in SUBSET txs :
        /\ \A d \in Delayed : D!Cardinality({t \in calls : t.id = d}) = IF d \in called THEN 1 ELSE 0
        /\ chainOf' = Append(chainOf, [txs |-> txs, calls |-> calls, before |-> delayed])
  BY DEF D!PlayBlock, D!Height
<1> DEFINE block == [txs |-> txs, calls |-> calls, before |-> delayed]
<1>2. block \in DBlocks /\ block.before = delayed /\ block.txs = txs /\ block.calls = calls
  BY DEF DBlocks, DelayedType
<1>3. ASSUME NEW d \in Delayed PROVE CallDone(d, fails, txs) <=> \E t \in calls : t.id = d
  <2> DEFINE A == {t \in calls : t.id = d}
  <2>1. Cardinality(A) = IF d \in called THEN 1 ELSE 0
    BY <1>1, DelayedCounts
  <2>2. IsFiniteSet(A)
    BY FS_Subset
  <2>3. A = {} <=> Cardinality(A) = 0
    <3> HIDE DEF A
    <3> QED
      BY <2>2, FS_EmptySet
  <2>4. d \in called <=> CallDone(d, fails, txs)
    BY DEF CallDone
  <2>5. A # {} <=> \E t \in calls : t.id = d
    OBVIOUS
  <2> HIDE DEF A, called
  <2> QED
    BY <2>1, <2>3, <2>4, <2>5
<1> HIDE DEF block, called
<1> QED
  BY <1>1, <1>2, <1>3 DEF block

LEMMA PlayedRowsAre ==
  ASSUME DelayedType, NEW txs, NEW fails, D!PlayBlock(txs, fails), NEW d \in Delayed
  PROVE  /\ delayed' \in DRows
         /\ CallDone(d, fails, txs) =>
              /\ delayed'[d].counter = delayed[d].counter + 1
              /\ delayed'[d].block_id = IF CallLimit[d] = 0 \/ CallLimit[d] > delayed[d].counter + 1
                                        THEN Len(chainOf) + 1 + EveryBlock[d] ELSE Len(chainOf) + 1
         /\ ~CallDone(d, fails, txs) => delayed'[d] = delayed[d]
<1> DEFINE called == {e \in Delayed \ fails : D!Conditions(e, Len(chainOf) + 1) /\ \E t \in txs : t.id = e}
<1>1. delayed' = [e \in Delayed |-> IF e \in called THEN D!Called(e, Len(chainOf) + 1) ELSE delayed[e]]
  BY DEF D!PlayBlock, D!Height
<1>2. \A e \in Delayed : e \in called <=> CallDone(e, fails, txs)
  BY DEF CallDone
<1>3. Len(chainOf) \in Nat /\ \A e \in Delayed : delayed[e] \in [block_id : Int, counter : Nat] /\ EveryBlock[e] \in Nat
  BY DelayedAssumption DEF DelayedType, DRows
<1> HIDE DEF called
<1>4. \A e \in Delayed : D!Called(e, Len(chainOf) + 1) \in [block_id : Int, counter : Nat]
  BY <1>3 DEF D!Called
<1>5. delayed' \in DRows
  BY <1>1, <1>3, <1>4 DEF DRows
<1>6. delayed'[d] = IF CallDone(d, fails, txs) THEN D!Called(d, Len(chainOf) + 1) ELSE delayed[d]
  BY <1>1, <1>2
<1> QED
  BY <1>5, <1>6 DEF D!Called

\* A row after the block: a call that was allowed is counted and spaced.
LEMMA NewRowIsRight ==
  ASSUME DelayedInv, NEW block, chainOf' = Append(chainOf, block), NEW d \in Delayed, NEW fails, NEW txs,
         CallDone(d, fails, txs) <=> \E t \in block.calls : t.id = d, D!PlayBlock(txs, fails)
  PROVE  IsSpaced(chainOf', d) /\ RowIsRight(chainOf', delayed'[d], d, Len(chainOf) + 1)
<1> DEFINE top == Len(chainOf)
           before == CallsUpTo(chainOf, d, top)
           after == CallsUpTo(chainOf', d, top + 1)
<1>0. DelayedType /\ top \in Nat /\ chainOf \in Seq(DBlocks)
  BY DEF DelayedInv, DelayedType
<1>1. Len(chainOf') = top + 1 /\ chainOf'[top + 1] = block /\ \A b \in 1..top : chainOf'[b] = chainOf[b]
  BY <1>0
<1>2. IsSpaced(chainOf, d) /\ RowIsRight(chainOf, delayed[d], d, top)
  <2>1. RowsAfter(chainOf, delayed, top) = delayed /\ top \in 0..top
    BY <1>0 DEF RowsAfter
  <2> QED
    BY <2>1 DEF DelayedInv, RowHistory
<1>3. delayed[d] \in [block_id : Int, counter : Nat] /\ CallLimit[d] \in Nat /\ EveryBlock[d] \in Nat
  BY <1>0, DelayedAssumption DEF DelayedType, DRows
<1>4. \A b \in before : b \in 1..top
  BY DEF CallsUpTo
<1>5. IsFiniteSet(before)
  BY <1>0, CallsUpToIsFinite
<1>6. CASE ~CallDone(d, fails, txs)
  <2>1. after = before
    BY <1>0, <1>1, <1>6 DEF CallsUpTo
  <2>2. delayed'[d] = delayed[d]
    BY <1>0, <1>6, PlayedRowsAre
  <2> QED
    BY <1>1, <1>2, <2>1, <2>2 DEF IsSpaced, RowIsRight
<1>7. CASE CallDone(d, fails, txs)
  <2>1. after = before \cup {top + 1}
    BY <1>0, <1>1, <1>7 DEF CallsUpTo
  <2>2. Cardinality(after) = Cardinality(before) + 1 /\ Cardinality(before) \in Nat
    <3>1. top + 1 \notin before
      BY <1>0, <1>4
    <3> HIDE DEF before, after
    <3> QED
      BY <1>5, <2>1, <3>1, FS_AddElement, FS_CardinalityType
  <2>3. top + 1 >= delayed[d].block_id /\ ~AtLimit(delayed[d], d)
    BY <1>3, <1>7 DEF CallDone, D!Conditions, AtLimit
  <2>4. \A b \in before : delayed[d].block_id >= b + EveryBlock[d]
    BY <1>2, <2>3 DEF RowIsRight
  <2>5. /\ delayed'[d].counter = delayed[d].counter + 1
        /\ delayed'[d].block_id = IF CallLimit[d] = 0 \/ CallLimit[d] > delayed[d].counter + 1
                                  THEN top + 1 + EveryBlock[d] ELSE top + 1
    BY <1>0, <1>7, PlayedRowsAre
  <2>6. delayed[d].counter = Cardinality(before)
    BY <1>2 DEF RowIsRight
  <2> HIDE DEF before, after
  <2>7. \A b \in before : top + 1 - b >= EveryBlock[d]
    BY <1>0, <1>3, <1>4, <2>3, <2>4
  <2>8. \A b, c \in after : b < c => c - b >= EveryBlock[d]
    <3>1. \A b, c \in before : b < c => c - b >= EveryBlock[d]
      BY <1>2 DEF IsSpaced, before
    <3>2. \A b \in before : ~(top + 1 < b)
      BY <1>0, <1>4
    <3>3. ASSUME NEW b \in after, NEW c \in after, b < c PROVE c - b >= EveryBlock[d]
      <4>1. CASE b \in before /\ c \in before
        BY <3>1, <3>3, <4>1
      <4>2. CASE b \in before /\ c = top + 1
        BY <2>7, <4>2
      <4>3. CASE b = top + 1
        BY <1>0, <2>1, <3>2, <3>3, <4>3
      <4> QED
        BY <2>1, <4>1, <4>2, <4>3
    <3> QED
      BY <3>3
  <2>9. IsSpaced(chainOf', d)
    BY <1>1, <2>8 DEF IsSpaced, after
  <2>10. CallLimit[d] > 0 => delayed'[d].counter <= CallLimit[d]
    BY <1>3, <2>3, <2>5 DEF AtLimit
  <2>11. ASSUME ~AtLimit(delayed'[d], d) PROVE \A b \in after : delayed'[d].block_id >= b + EveryBlock[d]
    <3>1. delayed'[d].block_id = top + 1 + EveryBlock[d]
      BY <1>3, <2>5, <2>11 DEF AtLimit
    <3>2. \A b \in after : b \in Nat /\ b <= top + 1
      BY <1>0, <1>4, <2>1
    <3> QED
      BY <1>0, <1>3, <3>1, <3>2
  <2>12. delayed'[d].counter = Cardinality(after)
    BY <2>2, <2>5, <2>6
  <2> QED
    BY <2>9, <2>10, <2>11, <2>12 DEF RowIsRight, after
<1> QED
  BY <1>6, <1>7

\* A row after the block waits again, was called, or has its transaction in a
\* table; a call that failed is given up.
LEMMA NewRowWillCome ==
  ASSUME DelayedInv, NEW n \in Makers, NEW chosen, NEW fails, D!Generate(n, chosen, fails), NEW d \in Delayed \ given'
  PROVE  AtLimit(delayed'[d], d) \/ delayed'[d].block_id > Len(chainOf) + 1 \/ \E m \in Makers : \E t \in unused'[m] : t.id = d
<1> DEFINE top == Len(chainOf)
           new == D!RunForBlockID(n, top + 1)
           txs == {t \in unused[n] \cup new : t.id \in chosen /\ t \notin D!Logged}
           have(m) == unused[m] \cup IF m = n THEN new ELSE {}
<1>0. DelayedType /\ top \in Nat
  BY DEF DelayedInv, DelayedType
<1>1. /\ D!PlayBlock(txs, fails) /\ unused' = [m \in Makers |-> have(m) \ txs]
      /\ given' = given \cup {t.id : t \in {u \in txs : u.id \in fails /\ D!Conditions(u.id, top + 1)}}
  BY DEF D!Generate, D!Height, D!PlayBlock
<1>2. delayed[d] \in [block_id : Int, counter : Nat] /\ CallLimit[d] \in Nat /\ EveryBlock[d] \in Nat \ {0}
  BY <1>0, DelayedAssumption DEF DelayedType, DRows
<1>3. CASE CallDone(d, fails, txs)
  <2>1. /\ delayed'[d].counter = delayed[d].counter + 1
        /\ delayed'[d].block_id = IF CallLimit[d] = 0 \/ CallLimit[d] > delayed[d].counter + 1
                                  THEN top + 1 + EveryBlock[d] ELSE top + 1
    BY <1>0, <1>1, <1>3, PlayedRowsAre
  <2> HIDE DEF top
  <2> QED
    BY <1>0, <1>2, <2>1 DEF AtLimit, top
<1>4. CASE ~CallDone(d, fails, txs)
  <2>1. delayed'[d] = delayed[d]
    BY <1>0, <1>1, <1>4, PlayedRowsAre
  <2>2. ASSUME NEW t \in txs, t.id = d, delayed[d].block_id <= top + 1 PROVE AtLimit(delayed[d], d)
    <3>1. ~AtLimit(delayed[d], d) => D!Conditions(d, top + 1)
      BY <1>0, <1>2, <2>2 DEF D!Conditions, AtLimit
    <3>2. d \in fails /\ D!Conditions(d, top + 1) => d \in given'
      BY <1>1, <2>2
    <3> QED
      BY <1>4, <2>2, <3>1, <3>2 DEF CallDone
  <2>3. ASSUME NEW m \in Makers, NEW t \in have(m), t.id = d, t \notin txs
        PROVE  \E k \in Makers : \E u \in unused'[k] : u.id = d
    BY <1>1, <2>3
  <2>4. WillCome(chainOf, unused, delayed[d], d, top)
    <3>1. RowsAfter(chainOf, delayed, top) = delayed /\ top \in 0..top /\ d \in Delayed \ given
      BY <1>0, <1>1 DEF RowsAfter
    <3> QED
      BY <3>1 DEF DelayedInv, CallHistory
  <2>5. (top + 1)..top = {}
    BY <1>0
  <2>6. AtLimit(delayed[d], d) \/ delayed[d].block_id > top \/ \E m \in Makers : \E t \in unused[m] : t.id = d
    BY <2>4, <2>5 DEF WillCome
  <2>7. CASE delayed[d].block_id = top + 1
    <3> DEFINE t == [id |-> d, by |-> n, no |-> madeTxs + 1]
    <3>1. t \in new /\ t.id = d
      BY <2>7 DEF D!RunForBlockID, D!GetAllDelayedContractsForBlockID
    <3>2. t \in have(n)
      BY <3>1
    <3> HIDE DEF t, new, txs, have
    <3>3. delayed[d].block_id <= top + 1
      BY <1>0, <2>7
    <3> QED
      BY <2>1, <2>2, <2>3, <3>1, <3>2, <3>3
  <2>8. ASSUME NEW m \in Makers, NEW t \in unused[m], t.id = d, delayed[d].block_id <= top
        PROVE  AtLimit(delayed[d], d) \/ \E k \in Makers : \E u \in unused'[k] : u.id = d
    <3>1. t \in have(m)
      OBVIOUS
    <3>2. delayed[d].block_id <= top + 1
      BY <1>0, <1>2, <2>8
    <3> HIDE DEF have, txs
    <3> QED
      BY <2>2, <2>3, <2>8, <3>1, <3>2
  <2>9. delayed[d].block_id \in Int
    BY <1>2
  <2> HIDE DEF top
  <2>10. delayed[d].block_id <= top \/ delayed[d].block_id = top + 1 \/ delayed[d].block_id > top + 1
    BY <1>0, <2>9
  <2>11. delayed[d].block_id <= top => ~(delayed[d].block_id > top)
    BY <1>0, <2>9
  <2> QED
    BY <2>1, <2>6, <2>7, <2>8, <2>10, <2>11 DEF top
<1> QED
  BY <1>3, <1>4

\* A block is generated and played.
LEMMA GenerateKeepsDelayedInv ==
  ASSUME DelayedInv, NEW n \in Makers, NEW chosen \in SUBSET Delayed, NEW fails, D!Generate(n, chosen, fails)
  PROVE  DelayedInv'
<1> DEFINE top == Len(chainOf)
           new == D!RunForBlockID(n, top + 1)
           txs == {t \in unused[n] \cup new : t.id \in chosen /\ t \notin D!Logged}
           have(m) == unused[m] \cup IF m = n THEN new ELSE {}
<1>0. DelayedType /\ top \in Nat /\ chainOf \in Seq(DBlocks)
  BY DEF DelayedInv, DelayedType
<1>1. /\ D!PlayBlock(txs, fails) /\ unused' = [m \in Makers |-> have(m) \ txs]
      /\ used' = [m \in Makers |-> have(m) \cap txs] /\ madeTxs' = madeTxs + (IF new = {} THEN 0 ELSE 1)
      /\ given \subseteq given'
  BY DEF D!Generate, D!Height, D!PlayBlock
<1>2. new \in SUBSET DTxs /\ IsFiniteSet(new)
  BY <1>0, MadeIsFinite
<1>3. \A m \in Makers : have(m) \in SUBSET DTxs /\ IsFiniteSet(have(m))
  <2> HIDE DEF new
  <2>1. \A m \in Makers : unused[m] \in SUBSET DTxs /\ IsFiniteSet(unused[m])
    BY <1>0 DEF DelayedType
  <2>2. \A m \in Makers : IsFiniteSet(unused[m] \cup new)
    BY <1>2, <2>1, FS_Union
  <2> QED
    BY <1>2, <2>1, <2>2
<1>4. txs \subseteq have(n)
  OBVIOUS
<1> HIDE DEF have, txs, new
<1>5. txs \in SUBSET DTxs /\ IsFiniteSet(txs)
  BY <1>3, <1>4, FS_Subset
<1>6. PICK block \in DBlocks :
        /\ chainOf' = Append(chainOf, block) /\ block.before = delayed /\ block.txs = txs
        /\ \A d \in Delayed : CallDone(d, fails, txs) <=> \E t \in block.calls : t.id = d
  BY <1>0, <1>1, <1>5, PlayBlockIs
<1>7. /\ chainOf' \in Seq(DBlocks) /\ Len(chainOf') = top + 1 /\ chainOf'[top + 1] = block
      /\ \A b \in 1..top : chainOf'[b] = chainOf[b]
  BY <1>0, <1>6
<1>8. DelayedType'
  <2>1. \A m \in Makers : IsFiniteSet(have(m) \ txs) /\ IsFiniteSet(have(m) \cap txs)
    BY <1>3, FS_Subset
  <2>2. delayed' \in DRows
    <3>1. CASE Delayed = {}
      BY <1>0, <1>1, <3>1 DEF D!PlayBlock, DRows
    <3>2. CASE \E d : d \in Delayed
      BY <1>0, <1>1, <3>2, PlayedRowsAre
    <3> QED
      BY <3>1, <3>2
  <2>3. madeTxs' \in Nat
    BY <1>0, <1>1 DEF DelayedType
  <2> QED
    BY <1>1, <1>3, <1>7, <2>1, <2>2, <2>3 DEF DelayedType
<1>9. ASSUME NEW h \in 0..top PROVE RowsAfter(chainOf', delayed', h) = RowsAfter(chainOf, delayed, h)
  <2>1. CASE h < top
    <3>1. h < Len(chainOf') /\ h + 1 \in 1..top
      BY <1>0, <1>7, <2>1
    <3> QED
      BY <1>7, <2>1, <3>1 DEF RowsAfter
  <2>2. CASE h = top
    <3>1. RowsAfter(chainOf, delayed, h) = delayed
      BY <1>0, <2>2 DEF RowsAfter
    <3>2. h < Len(chainOf') /\ h + 1 = top + 1
      BY <1>0, <1>7, <2>2
    <3>3. RowsAfter(chainOf', delayed', h) = chainOf'[top + 1].before
      BY <3>2 DEF RowsAfter
    <3> QED
      BY <1>6, <1>7, <3>1, <3>3
  <2> QED
    BY <1>0, <2>1, <2>2
<1>10. RowsAfter(chainOf', delayed', top + 1) = delayed' /\ \A h \in 0..(top + 1) : h \in 0..top \/ h = top + 1
  BY <1>0, <1>7 DEF RowsAfter
<1>11. ASSUME NEW d \in Delayed PROVE IsSpaced(chainOf', d) /\ RowHistory(chainOf', delayed', d)
  <2>1. IsSpaced(chainOf', d) /\ RowIsRight(chainOf', delayed'[d], d, top + 1)
    BY <1>1, <1>6, NewRowIsRight
  <2>2. ASSUME NEW h \in 0..top PROVE RowIsRight(chainOf', RowsAfter(chainOf', delayed', h)[d], d, h)
    <3>1. RowIsRight(chainOf, RowsAfter(chainOf, delayed, h)[d], d, h)
      BY DEF DelayedInv, RowHistory
    <3>2. CallsUpTo(chainOf', d, h) = CallsUpTo(chainOf, d, h)
      BY <1>0, <1>7 DEF CallsUpTo
    <3> QED
      BY <1>9, <3>1, <3>2 DEF RowIsRight
  <2> QED
    BY <1>7, <1>10, <2>1, <2>2 DEF RowHistory
<1>12. ASSUME NEW d \in Delayed \ given' PROVE CallHistory(chainOf', unused', delayed', d)
  <2>1. WillCome(chainOf', unused', delayed'[d], d, top + 1)
    BY NewRowWillCome DEF WillCome
  <2>2. ASSUME NEW h \in 0..top PROVE WillCome(chainOf', unused', RowsAfter(chainOf', delayed', h)[d], d, h)
    <3> DEFINE r == RowsAfter(chainOf, delayed, h)[d]
    <3>1. WillCome(chainOf, unused, r, d, h)
      BY <1>1 DEF DelayedInv, CallHistory
    <3>2. RowsAfter(chainOf', delayed', h)[d] = r
      BY <1>9
    <3> HIDE DEF r
    <3>3. CASE AtLimit(r, d) \/ r.block_id > h
      BY <3>2, <3>3 DEF WillCome
    <3>4. ASSUME NEW m \in Makers, NEW t \in unused[m], t.id = d
          PROVE  WillCome(chainOf', unused', RowsAfter(chainOf', delayed', h)[d], d, h)
      <4>1. t \in have(m)
        BY DEF have
      <4>2. CASE t \in txs
        <5>1. top + 1 \in (h + 1)..Len(chainOf') /\ t \in chainOf'[top + 1].txs
          BY <1>0, <1>6, <1>7, <4>2
        <5> QED
          BY <3>4, <5>1 DEF WillCome
      <4>3. CASE t \notin txs
        <5>1. t \in unused'[m]
          BY <1>1, <4>1, <4>3
        <5> QED
          BY <3>4, <5>1 DEF WillCome
      <4> QED
        BY <4>2, <4>3
    <3>5. ASSUME NEW c \in (h + 1)..Len(chainOf), NEW t \in chainOf[c].txs, t.id = d
          PROVE  WillCome(chainOf', unused', RowsAfter(chainOf', delayed', h)[d], d, h)
      <4>1. c \in (h + 1)..Len(chainOf') /\ chainOf'[c] = chainOf[c]
        BY <1>0, <1>7
      <4> QED
        BY <3>5, <4>1 DEF WillCome
    <3> QED
      BY <3>1, <3>3, <3>4, <3>5 DEF WillCome
  <2> QED
    BY <1>7, <1>10, <2>1, <2>2 DEF CallHistory
<1> QED
  BY <1>8, <1>11, <1>12 DEF DelayedInv

\* A step of any machine keeps it (MCWork!Next).
LEMMA DelayedInvNext == DelayedInv /\ [Next]_vars => DelayedInv'
<1> SUFFICES ASSUME DelayedInv, [Next]_vars
             PROVE  DelayedInv'
  OBVIOUS
<1>1. CASE D!Next
  BY <1>1, TimeIsOverKeepsDelayedInv, DisseminateKeepsDelayedInv, RollbackKeepsDelayedInv, GenerateKeepsDelayedInv DEF D!Next
<1>2. CASE UNCHANGED del
  BY <1>2 DEF del, DelayedInv, DelayedType
<1> QED
  BY <1>1, <1>2 DEF Next, vars

\* Whatever the generators make, leave over, pass on or undo, a delayed contract
\* is called no more often than its limit allows and with every_block blocks in
\* between, and a row whose call has not failed never waits in vain
\* (CallDelayedContract, RunForBlockID, RollbackBlock).
THEOREM CallsAreAlwaysKept == Spec => []CallsAreKept
<1>1. Init => DelayedInv
  BY DelayedInvInit DEF Init
<1>2. DelayedInv => CallsAreKept
  BY DelayedInvEnough DEF CallsAreKept
<1> QED
  BY <1>1, <1>2, DelayedInvNext, PTL DEF Spec
=============================================================================
