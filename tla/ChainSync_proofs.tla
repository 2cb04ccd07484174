-------------------------- MODULE ChainSync_proofs --------------------------
(***************************************************************************)
(* The safety of a node's chain under every fault of the model: links,     *)
(* info_block, the effects in the tables and the order of undoing them.    *)
(*                                                                         *)
(* None of the properties is inductive alone.  The invariant below adds    *)
(* what the holder of DBLock knows while it works: the blocks it still has *)
(* to play are numbered consecutively above info_block, and while a fork   *)
(* replaces our blocks nothing is in effect above the block being undone.  *)
(***************************************************************************)
EXTENDS ChainSync, SequenceTheorems, WellFoundedInduction, TLAPS

\* Rows are numbered by their position, here and on the hosts.
Numbered(c) == \A k \in DOMAIN c : Id(c[k]) = k

RowsNumbered == Numbered(chain) /\ \A h \in Hosts : Numbered(hosts[h])

\* A transaction in effect is in no later block.
NotLater ==
  \A k \in Ids : \A m \in DOMAIN chain : k < m => applied[k] \cap TxSet(chain[m]) = {}

Working == pc \in {"play", "insert", "fork", "undo"}
WithRaw == pc \in {"insert", "fork", "undo"}

\* The blocks still to play: consecutive, above info_block, within the request.
StreamAhead ==
  /\ pc = "request" => task.next > info.id
  /\ Working =>
       /\ info.id < task.next + BlocksPerRequest
       /\ \A i \in DOMAIN task.stream :
            /\ Id(task.stream[i]) \in Ids
            /\ Id(task.stream[i]) > info.id
            /\ Id(task.stream[i]) < task.next + BlocksPerRequest
            /\ \A j \in DOMAIN task.stream : j < i => Id(task.stream[j]) < Id(task.stream[i])

\* The block being played is the one after our last block.
RawIsNext ==
  WithRaw => /\ task.stream # << >>
             /\ Len(chain) = info.id
             /\ Id(Raw) = Len(chain) + 1

\* While a fork replaces our blocks.
ForkFits ==
  pc = "undo" =>
    /\ task.low \in 1..Len(chain)
    /\ task.undo \in (task.low - 1)..Len(chain)
    /\ task.fork # << >> => task.low > 1 /\ task.low + Len(task.fork) = Len(chain) + 1
    /\ \A i \in DOMAIN task.fork : Id(task.fork[i]) = task.low + i - 1
    /\ \A m \in Ids : m > task.undo => applied[m] = {}

\* The invariant, by what it is about.
EnvType ==
  /\ slot \in 0..MaxSlot
  /\ hosts \in [Hosts -> Seq(Blocks)]
  /\ \A h \in Hosts : Len(hosts[h]) \in Ids
  /\ turn \in [Authors -> 0..MaxSlot]

DataType ==
  /\ chain \in Seq(Blocks) /\ Len(chain) \in Ids
  /\ info \in [id : Ids, hash : Seq(Contents)]
  /\ applied \in [Ids -> SUBSET Txs]

TaskType ==
  /\ pc \in {"idle", "wait", "request", "play", "insert", "fork", "undo", "hung",
             "down", "command"}
  /\ task \in [host : Hosts, target : 0..MaxHeight, next : Nat, stream : Seq(Blocks),
               fork : Seq(Blocks), low : 0..MaxHeight, undo : 0..MaxHeight]
  /\ command \in 0..MaxHeight

DataInv ==
  /\ RowsNumbered /\ Linked /\ InfoIsTop
  /\ AppliedInChain /\ NoDoubleEffect /\ NotLater

TaskInv == StreamAhead /\ RawIsNext /\ ForkFits

CommandInv == pc = "command" => command \in 1..Len(chain)

Inv == EnvType /\ DataType /\ TaskType /\ DataInv /\ TaskInv /\ CommandInv

-----------------------------------------------------------------------------
(***************************************************************************)
(* Blocks.                                                                 *)
(***************************************************************************)

\* The hash of a block is a history as long as the id of the block.
LEMMA HashOfBlock ==
  ASSUME NEW b \in Blocks
  PROVE  /\ Id(b) \in Nat \ {0}
         /\ Hash(b) \in Seq(Contents)
         /\ Len(Hash(b)) = Id(b)
  <1>1. /\ b.author \in Authors /\ b.time \in 0..MaxSlot
        /\ b.txs \in Seq(Txs) /\ b.prev \in Seq(Contents)
    BY DEF Blocks
  <1>2. <<b.author, b.time, b.txs>> \in Contents
    BY <1>1 DEF Contents
  <1> DEFINE e == <<b.author, b.time, b.txs>>
  <1> HIDE DEF e
  <1>3. e \in Contents /\ Hash(b) = Append(b.prev, e)
    BY <1>2 DEF e, Hash
  <1>4. /\ Append(b.prev, e) \in Seq(Contents)
        /\ Len(Append(b.prev, e)) = Len(b.prev) + 1
    BY <1>1, <1>3, AppendProperties
  <1>5. Len(b.prev) \in Nat
    BY <1>1, LenProperties
  <1>6. QED
    BY <1>3, <1>4, <1>5 DEF Id

\* The transactions of a block, and those that take effect.
LEMMA TxsOfBlock ==
  ASSUME NEW b \in Blocks
  PROVE  Effective(b) \subseteq TxSet(b) /\ TxSet(b) \subseteq Txs
  <1>1. b.txs \in Seq(Txs)
    BY DEF Blocks
  <1>2. \A i \in DOMAIN b.txs : b.txs[i] \in Txs
    BY <1>1, LenProperties, ElementOfSeq
  <1>3. QED
    BY <1>2 DEF Effective, TxSet

\* A row of our chain.
LEMMA RowOfChain ==
  ASSUME DataType, NEW k \in DOMAIN chain
  PROVE  chain[k] \in Blocks /\ k \in 1..Len(chain) /\ k \in Ids
  <1>1. chain \in Seq(Blocks) /\ Len(chain) \in Ids
    BY DEF DataType
  <1>2. Len(chain) \in Nat /\ DOMAIN chain = 1..Len(chain)
    BY <1>1, LenProperties
  <1>3. k \in 1..Len(chain)
    BY <1>2
  <1>4. chain[k] \in Blocks
    BY <1>1, <1>3, ElementOfSeq
  <1>5. MaxHeight \in Nat /\ Ids = 1..MaxHeight
    BY ChainAssumption DEF Ids
  <1>6. QED
    BY <1>1, <1>2, <1>3, <1>4, <1>5

\* The length of our chain.
LEMMA ChainLength ==
  ASSUME DataType
  PROVE  /\ Len(chain) \in Nat \ {0} /\ DOMAIN chain = 1..Len(chain)
         /\ Ids = 1..MaxHeight /\ MaxHeight \in Nat \ {0}
         /\ Len(chain) \in DOMAIN chain /\ Len(chain) <= MaxHeight
         /\ info.id \in Ids
  <1>1. chain \in Seq(Blocks) /\ Len(chain) \in Ids
    BY DEF DataType
  <1>2. DOMAIN chain = 1..Len(chain)
    BY <1>1, LenProperties
  <1>3. MaxHeight \in Nat \ {0} /\ Ids = 1..MaxHeight
    BY ChainAssumption DEF Ids
  <1>4. info.id \in Ids
    BY DEF DataType
  <1>5. QED
    BY <1>1, <1>2, <1>3, <1>4

\* A part of a numbered chain is a sequence of blocks numbered from its start.
LEMMA PartOfChain ==
  ASSUME NEW c \in Seq(Blocks), Numbered(c),
         NEW m \in Nat \ {0}, NEW n \in Nat, n <= Len(c)
  PROVE  /\ SubSeq(c, m, n) \in Seq(Blocks)
         /\ Len(SubSeq(c, m, n)) = IF m <= n THEN n - m + 1 ELSE 0
         /\ DOMAIN SubSeq(c, m, n) = 1..Len(SubSeq(c, m, n))
         /\ \A i \in DOMAIN SubSeq(c, m, n) :
              /\ SubSeq(c, m, n)[i] = c[m + i - 1]
              /\ Id(SubSeq(c, m, n)[i]) = m + i - 1
              /\ m + i - 1 <= n
  <1>1. Len(c) \in Nat /\ DOMAIN c = 1..Len(c)
    BY LenProperties
  <1>2. \A i \in m..n : c[i] \in Blocks /\ Id(c[i]) = i
    <2>1. \A i \in 1..Len(c) : c[i] \in Blocks
      BY ElementOfSeq
    <2>2. QED
      BY <1>1, <2>1 DEF Numbered
  <1> DEFINE s == SubSeq(c, m, n)
  <1>3. /\ s \in Seq(Blocks)
        /\ Len(s) = IF m <= n THEN n - m + 1 ELSE 0
        /\ \A i \in 1..(n - m + 1) : s[i] = c[m + i - 1]
    BY <1>2, SubSeqProperties
  <1>4. DOMAIN s = 1..Len(s)
    BY <1>3, LenProperties
  <1> HIDE DEF s
  <1>5. \A i \in DOMAIN s : s[i] = c[m + i - 1] /\ Id(s[i]) = m + i - 1 /\ m + i - 1 <= n
    <2> SUFFICES ASSUME NEW i \in DOMAIN s
                 PROVE  s[i] = c[m + i - 1] /\ Id(s[i]) = m + i - 1 /\ m + i - 1 <= n
      OBVIOUS
    <2>1. i \in 1..(n - m + 1)
      BY <1>3, <1>4
    <2>2. m + i - 1 \in m..n
      BY <2>1
    <2>3. QED
      BY <1>2, <1>3, <2>1, <2>2
  <1>6. QED
    BY <1>3, <1>4, <1>5 DEF s

-----------------------------------------------------------------------------
(***************************************************************************)
(* The database transactions.                                              *)
(***************************************************************************)

\* Nothing about the tables changes when they do not.
LEMMA DataStutters ==
  ASSUME DataType, DataInv, UNCHANGED <<hosts, chain, info, applied, command>>
  PROVE  DataType' /\ DataInv'
  BY DEF DataType, DataInv, RowsNumbered, Numbered, Linked, InfoIsTop, AppliedInChain,
         NoDoubleEffect, NotLater, Last

\* Our last row has the id and the hash that the next block must be built on.
LEMMA LastRow ==
  ASSUME DataType, DataInv
  PROVE  /\ Last(chain) = chain[Len(chain)] /\ Last(chain) \in Blocks
         /\ Id(Last(chain)) = Len(chain)
         /\ Len(Hash(Last(chain))) = Len(chain)
  <1>1. Len(chain) \in DOMAIN chain
    BY ChainLength
  <1>2. chain[Len(chain)] \in Blocks
    BY <1>1, RowOfChain
  <1>3. Id(chain[Len(chain)]) = Len(chain)
    BY <1>1 DEF DataInv, RowsNumbered, Numbered
  <1>4. QED
    BY <1>2, <1>3, HashOfBlock DEF Last

\* PlaySafe of a checked block on top of our chain.
LEMMA PlaySafeKeeps ==
  ASSUME DataType, DataInv, UNCHANGED hosts,
         NEW b \in Blocks, Id(b) = Len(chain) + 1, Id(b) \in Ids,
         CheckLogTx(b, applied), CheckHash(b, Hash(chain[Len(chain)])),
         PlaySafe(b)
  PROVE  /\ DataType' /\ DataInv'
         /\ info'.id = Id(b) /\ Len(chain') = Id(b)
  <1> DEFINE n == Len(chain)
  <1>1. /\ n \in Nat \ {0} /\ DOMAIN chain = 1..n
        /\ Ids = 1..MaxHeight /\ MaxHeight \in Nat
    BY ChainLength
  <1>2. n + 1 \notin DOMAIN chain
    BY <1>1
  <1>3. chain' = Append(chain, b) /\ info' = InfoOf(b) /\ applied' = Played(applied, b)
    BY <1>2 DEF PlaySafe, Inserted
  <1>4. chain \in Seq(Blocks)
    BY DEF DataType
  <1>5. /\ chain' \in Seq(Blocks) /\ Len(chain') = n + 1
        /\ \A k \in 1..n : chain'[k] = chain[k]
        /\ chain'[n + 1] = b
    BY <1>3, <1>4, AppendProperties
  <1>6. DOMAIN chain' = 1..(n + 1)
    BY <1>5, LenProperties
  <1>7. Hash(b) \in Seq(Contents) /\ Len(Hash(b)) = Id(b)
    BY HashOfBlock
  <1>8. Effective(b) \subseteq TxSet(b) /\ TxSet(b) \subseteq Txs
    BY TxsOfBlock
  <1>9. applied \in [Ids -> SUBSET Txs]
    BY DEF DataType
  <1>10. applied' = [applied EXCEPT ![n + 1] = applied[n + 1] \cup Effective(b)]
    BY <1>3 DEF Played
  <1>11. /\ \A k \in Ids : k # n + 1 => applied'[k] = applied[k]
         /\ applied'[n + 1] = Effective(b)
    <2>1. applied[n + 1] = {}
      BY <1>2 DEF DataInv, AppliedInChain
    <2>2. QED
      BY <1>9, <1>10, <2>1
  <1>12. \A k \in Ids : applied[k] \cap TxSet(b) = {}
    BY DEF CheckLogTx, Logged
  <1> HIDE DEF n
  <1>13. DataType'
    <2>1. info' \in [id : Ids, hash : Seq(Contents)]
      BY <1>3, <1>7 DEF InfoOf
    <2>2. applied' \in [Ids -> SUBSET Txs]
      BY <1>8, <1>9, <1>10
    <2>3. QED
      BY <1>5, <2>1, <2>2 DEF DataType, n
  <1>14. RowsNumbered'
    BY <1>1, <1>5, <1>6 DEF DataInv, RowsNumbered, Numbered, n
  <1>15. Linked'
    <2>1. chain'[1] = FirstBlock
      BY <1>1, <1>5 DEF DataInv, Linked
    <2>2. ASSUME NEW k \in DOMAIN chain', k > 1
          PROVE  chain'[k].prev = Hash(chain'[k - 1])
      <3>1. CASE k = n + 1
        BY <1>1, <1>5, <3>1 DEF CheckHash, n
      <3>2. CASE k # n + 1
        <4>1. k \in 1..n /\ k - 1 \in 1..n
          BY <1>1, <1>6, <2>2, <3>2
        <4>2. chain[k].prev = Hash(chain[k - 1])
          BY <1>1, <2>2, <4>1 DEF DataInv, Linked
        <4>3. QED
          BY <1>5, <4>1, <4>2
      <3>3. QED
        BY <3>1, <3>2
    <2>3. QED
      BY <2>1, <2>2 DEF Linked
  <1>16. InfoIsTop'
    BY <1>1, <1>3, <1>5 DEF InfoIsTop, InfoOf, Last, n
  <1>17. AppliedInChain'
    <2> SUFFICES ASSUME NEW k \in Ids
                 PROVE  applied'[k] \subseteq
                          (IF k \in DOMAIN chain' THEN Effective(chain'[k]) ELSE {})
      BY DEF AppliedInChain
    <2>1. CASE k = n + 1
      BY <1>1, <1>5, <1>6, <1>11, <2>1
    <2>2. CASE k # n + 1
      BY <1>1, <1>5, <1>6, <1>11, <2>2 DEF DataInv, AppliedInChain
    <2>3. QED
      BY <2>1, <2>2
  <1>18. NoDoubleEffect'
    BY <1>8, <1>11, <1>12 DEF DataInv, NoDoubleEffect
  <1>19. NotLater'
    <2> SUFFICES ASSUME NEW k \in Ids, NEW m \in DOMAIN chain', k < m
                 PROVE  applied'[k] \cap TxSet(chain'[m]) = {}
      BY DEF NotLater
    <2>1. k # n + 1 /\ applied'[k] = applied[k]
      BY <1>1, <1>6, <1>11
    <2>2. CASE m = n + 1
      BY <1>5, <1>12, <2>1, <2>2
    <2>3. CASE m # n + 1
      BY <1>1, <1>5, <1>6, <2>1, <2>3 DEF DataInv, NotLater
    <2>4. QED
      BY <2>2, <2>3
  <1>20. QED
    BY <1>3, <1>5, <1>13, <1>14, <1>15, <1>16, <1>17, <1>18, <1>19 DEF DataInv, InfoOf, n

\* Undoing a block takes effects away; when it is our last block in effect, it
\* takes away those of the block and no others.
LEMMA RolledBackKeeps ==
  ASSUME DataType, DataInv, UNCHANGED <<hosts, chain, info, command>>,
         NEW n \in DOMAIN chain,
         \A m \in Ids : m > n => applied[m] = {},
         applied' = RolledBack(applied, chain[n])
  PROVE  /\ DataType' /\ DataInv'
         /\ \A m \in Ids : m >= n => applied'[m] = {}
         /\ \A k \in Ids : k < n => applied'[k] = applied[k]
  <1>1. applied \in [Ids -> SUBSET Txs]
    BY DEF DataType
  <1>2. \A k \in Ids : applied'[k] = applied[k] \ TxSet(chain[n])
    BY DEF RolledBack
  <1>3. DataType'
    <2>1. applied' \in [Ids -> SUBSET Txs]
      BY <1>1 DEF RolledBack
    <2>2. QED
      BY <2>1 DEF DataType
  <1>4. n \in Ids /\ Ids \subseteq Nat /\ chain[n] \in Blocks
    BY RowOfChain, ChainLength
  <1>5. applied'[n] = {}
    <2>1. applied[n] \subseteq Effective(chain[n])
      BY <1>4 DEF DataInv, AppliedInChain
    <2>2. QED
      BY <1>2, <1>4, <2>1, TxsOfBlock
  <1>6. \A m \in Ids : m >= n => applied'[m] = {}
    BY <1>2, <1>4, <1>5
  <1>7. \A k \in Ids : k < n => applied'[k] = applied[k]
    BY <1>2 DEF DataInv, NotLater
  <1>8. RowsNumbered' /\ Linked' /\ InfoIsTop'
    BY DEF DataInv, RowsNumbered, Numbered, Linked, InfoIsTop, Last
  <1>9. AppliedInChain' /\ NoDoubleEffect' /\ NotLater'
    BY <1>2 DEF DataInv, AppliedInChain, NoDoubleEffect, NotLater
  <1>10. QED
    BY <1>3, <1>6, <1>7, <1>8, <1>9 DEF DataInv

\* A fork that is accepted replaces our blocks from task.low upwards.
LEMMA ForkKeeps ==
  ASSUME DataType, DataInv, TaskType, ForkFits, UNCHANGED <<hosts, command>>,
         pc = "undo", task.undo < task.low, info.id = Len(chain),
         ForkAccepted(task.fork),
         chain' = [k \in DOMAIN chain |->
                     IF k >= task.low /\ k < task.low + Len(task.fork)
                     THEN task.fork[k - task.low + 1] ELSE chain[k]],
         applied' = [k \in Ids |->
                       IF k >= task.low /\ k < task.low + Len(task.fork)
                       THEN applied[k] \cup Effective(task.fork[k - task.low + 1])
                       ELSE applied[k]],
         info' = IF task.fork = << >> THEN info ELSE InfoOf(HeadOfFork(task.fork))
  PROVE  /\ DataType' /\ DataInv'
         /\ info'.id = info.id /\ Len(chain') = Len(chain)
         /\ \A k \in Ids : applied[k] \subseteq applied'[k]
  <1> DEFINE f == task.fork
             low == task.low
             n == Len(chain)
  <1>1. /\ n \in Nat \ {0} /\ DOMAIN chain = 1..n /\ n <= MaxHeight
        /\ Ids = 1..MaxHeight /\ MaxHeight \in Nat
    BY ChainLength
  <1>2. f \in Seq(Blocks) /\ low \in Nat /\ task.undo \in Nat
    BY ChainAssumption DEF TaskType
  <1>3. Len(f) \in Nat /\ DOMAIN f = 1..Len(f)
    BY <1>2, LenProperties
  <1>4. /\ low \in 1..n /\ task.undo = low - 1
        /\ f # << >> => low > 1 /\ low + Len(f) = n + 1
        /\ \A i \in DOMAIN f : Id(f[i]) = low + i - 1
        /\ \A m \in Ids : m >= low => applied[m] = {}
    <2>1. /\ low \in 1..n /\ task.undo \in (low - 1)..n
          /\ f # << >> => low > 1 /\ low + Len(f) = n + 1
          /\ \A i \in DOMAIN f : Id(f[i]) = low + i - 1
          /\ \A m \in Ids : m > task.undo => applied[m] = {}
      BY DEF ForkFits
    <2>2. QED
      BY <1>1, <1>2, <2>1, SMTT(30)
  <1>5. \A i \in DOMAIN f : f[i] \in Blocks /\ Effective(f[i]) \subseteq TxSet(f[i])
                            /\ TxSet(f[i]) \subseteq Txs
    BY <1>2, <1>3, ElementOfSeq, TxsOfBlock
  <1>6. \A k \in 1..n : chain[k] \in Blocks
    BY <1>1, RowOfChain
  <1>7. applied \in [Ids -> SUBSET Txs] /\ info \in [id : Ids, hash : Seq(Contents)]
    BY DEF DataType
  <1> HIDE DEF f, low, n
  <1>8. CASE f = << >>
    <2>1. Len(f) = 0
      BY <1>2, <1>8, EmptySeq
    <2>2. \A k \in 1..n : ~(k >= low /\ k < low + Len(f))
      BY <1>2, <2>1
    <2>3. chain' = chain
      <3>1. chain' = [k \in 1..n |-> chain[k]]
        BY <1>1, <2>2 DEF f, low
      <3>2. chain = [k \in 1..n |-> chain[k]]
        <4>1. chain \in [1..n -> Blocks]
          BY LenProperties DEF DataType, n
        <4>2. QED
          BY <4>1
      <3>3. QED
        BY <3>1, <3>2
    <2>4. \A k \in Ids : ~(k >= low /\ k < low + Len(f))
      BY <1>1, <1>2, <2>1
    <2>5. applied' = applied
      <3>1. applied' = [k \in Ids |-> applied[k]]
        BY <2>4 DEF f, low
      <3>2. QED
        BY <3>1, <1>7
    <2>6. info' = info
      BY <1>8 DEF f
    <2>7. QED
      BY <2>3, <2>5, <2>6, DataStutters
  <1>9. CASE f # << >>
    <2>1. /\ low > 1 /\ low \in 2..n /\ Len(f) >= 1 /\ low + Len(f) = n + 1
          /\ 1 \in DOMAIN f /\ Len(f) \in DOMAIN f
      BY <1>1, <1>2, <1>3, <1>4, <1>9
    <2>2. \A k \in Ids : (k >= low /\ k < low + Len(f)) <=> (k >= low /\ k <= n)
      BY <1>1, <1>2, <2>1
    <2>3. \A k \in 1..n : k >= low => k - low + 1 \in DOMAIN f
      BY <1>1, <1>2, <1>3, <2>1
    <2>4. \A k \in 1..n : chain'[k] = IF k >= low THEN f[k - low + 1] ELSE chain[k]
      BY <1>1, <2>2 DEF f, low
    <2>5. /\ \A k \in Ids : k < low => applied'[k] = applied[k]
          /\ \A k \in 1..n : k >= low => applied'[k] = Effective(f[k - low + 1])
          /\ \A k \in Ids : k > n => applied'[k] = {}
      <3>1. \A k \in Ids : applied'[k] = IF k >= low /\ k <= n
                                         THEN applied[k] \cup Effective(f[k - low + 1])
                                         ELSE applied[k]
        BY <2>2 DEF f, low
      <3>2. ASSUME NEW k \in Ids, k < low PROVE applied'[k] = applied[k]
        <4>1. ~(k >= low)
          BY <1>1, <1>2, <3>2
        <4>2. QED
          BY <3>1, <4>1
      <3>3. ASSUME NEW k \in 1..n, k >= low PROVE applied'[k] = Effective(f[k - low + 1])
        <4>1. k \in Ids /\ k <= n
          BY <1>1
        <4>2. applied[k] = {}
          BY <1>4, <3>3, <4>1
        <4>3. QED
          BY <3>1, <3>3, <4>1, <4>2
      <3>4. ASSUME NEW k \in Ids, k > n PROVE applied'[k] = {}
        <4>1. ~(k <= n) /\ k >= low
          BY <1>1, <1>2, <2>1, <3>4
        <4>2. QED
          BY <1>4, <3>1, <4>1
      <3>5. QED
        BY <3>2, <3>3, <3>4
    <2>6. chain' \in Seq(Blocks) /\ Len(chain') = n /\ DOMAIN chain' = 1..n
      <3>1. \A k \in 1..n : chain'[k] \in Blocks
        BY <1>5, <1>6, <2>3, <2>4
      <3>2. DOMAIN chain' = 1..n /\ chain' = [k \in 1..n |-> chain'[k]]
        BY <1>1
      <3>3. chain' \in [1..n -> Blocks]
        BY <3>1, <3>2
      <3>4. chain' \in Seq(Blocks)
        BY <1>1, <3>3, SeqDef
      <3>5. QED
        BY <1>1, <3>2, <3>4, LenProperties
    <2>7. info' = InfoOf(f[Len(f)]) /\ Id(f[Len(f)]) = n
      <3>1. Id(f[Len(f)]) = low + Len(f) - 1
        BY <1>4, <2>1
      <3>2. low + Len(f) - 1 = n
        <4>1. \A x, y, z \in Nat : x + y = z + 1 => x + y - 1 = z
          OBVIOUS
        <4>2. QED
          BY <1>1, <1>2, <1>3, <2>1, <4>1
      <3>3. QED
        BY <1>9, <3>1, <3>2 DEF HeadOfFork, f
    <2>8. /\ \A i \in DOMAIN f : CheckLogTx(f[i], applied)
          /\ \A i \in DOMAIN f : f[i].prev = IF i = 1 THEN HashBefore(f[1])
                                                      ELSE Hash(f[i - 1])
          /\ \A i, j \in DOMAIN f : i # j => Effective(f[i]) \cap Effective(f[j]) = {}
      BY DEF ForkAccepted, Check, CheckHash, f
    <2>9. \A i \in DOMAIN f, k \in Ids : applied[k] \cap TxSet(f[i]) = {}
      BY <2>8 DEF CheckLogTx, Logged
    <2>10. HashBefore(f[1]) = Hash(chain[low - 1])
      <3>1. Id(f[1]) = low + 1 - 1
        BY <1>4, <2>1
      <3>2. Id(f[1]) - 1 = low - 1
        BY <1>2, <3>1
      <3>3. QED
        BY <3>2 DEF HashBefore
    <2>11. DataType'
      <3>1. info' \in [id : Ids, hash : Seq(Contents)]
        BY <1>1, <1>5, <2>1, <2>7, HashOfBlock DEF InfoOf
      <3>2. \A k \in Ids : applied'[k] \in SUBSET Txs
        <4> SUFFICES ASSUME NEW k \in Ids PROVE applied'[k] \in SUBSET Txs
          OBVIOUS
        <4>1. CASE k < low
          BY <1>7, <2>5, <4>1
        <4>2. CASE k > n
          BY <2>5, <4>2
        <4>3. CASE k >= low /\ k <= n
          <5>1. k \in 1..n
            BY <1>1, <4>3
          <5>2. applied'[k] = Effective(f[k - low + 1]) /\ k - low + 1 \in DOMAIN f
            BY <2>3, <2>5, <4>3, <5>1
          <5>3. QED
            BY <1>5, <5>2
        <4>4. QED
          BY <1>1, <1>2, <4>1, <4>2, <4>3
      <3>3. applied' \in [Ids -> SUBSET Txs]
        BY <3>2
      <3>4. QED
        BY <1>1, <2>6, <3>1, <3>3 DEF DataType
    <2>12. RowsNumbered'
      <3>1. \A k \in 1..n : Id(chain'[k]) = k
        <4> SUFFICES ASSUME NEW k \in 1..n PROVE Id(chain'[k]) = k
          OBVIOUS
        <4>1. CASE k < low
          BY <1>1, <1>2, <2>4, <4>1 DEF DataInv, RowsNumbered, Numbered
        <4>2. CASE k >= low
          BY <1>1, <1>2, <1>4, <2>3, <2>4, <4>2
        <4>3. QED
          BY <1>1, <1>2, <4>1, <4>2
      <3>2. QED
        BY <2>6, <3>1 DEF DataInv, RowsNumbered, Numbered
    <2>13. Linked'
      <3>1. chain'[1] = FirstBlock
        BY <1>1, <2>1, <2>4 DEF DataInv, Linked
      <3>2. ASSUME NEW k \in DOMAIN chain', k > 1
            PROVE  chain'[k].prev = Hash(chain'[k - 1])
        <4>1. k \in 1..n /\ k - 1 \in 1..n
          BY <1>1, <2>6, <3>2
        <4>2. CASE k < low
          <5>1. chain[k].prev = Hash(chain[k - 1])
            BY <1>1, <3>2, <4>1 DEF DataInv, Linked
          <5>2. ~(k >= low) /\ ~(k - 1 >= low)
            BY <1>1, <1>2, <4>1, <4>2
          <5>3. QED
            BY <2>4, <4>1, <5>1, <5>2
        <4>3. CASE k = low
          <5>1. k >= low /\ ~(k - 1 >= low) /\ k - low + 1 = 1
            BY <1>1, <1>2, <4>1, <4>3
          <5>2. chain'[k] = f[1] /\ chain'[k - 1] = chain[low - 1]
            BY <2>4, <4>1, <4>3, <5>1
          <5>3. QED
            BY <2>1, <2>8, <2>10, <5>2
        <4>4. CASE k > low
          <5>1. k - low + 1 \in DOMAIN f /\ k - low + 1 # 1
            BY <1>2, <2>3, <4>1, <4>4, SMTT(30)
          <5>2. chain'[k] = f[k - low + 1] /\ chain'[k - 1] = f[(k - low + 1) - 1]
            <6>1. k >= low /\ k - 1 >= low /\ (k - 1) - low + 1 = (k - low + 1) - 1
              BY <1>1, <1>2, <4>1, <4>4
            <6>2. chain'[k] = f[k - low + 1] /\ chain'[k - 1] = f[(k - 1) - low + 1]
              BY <2>4, <4>1, <6>1
            <6>3. QED
              BY <6>1, <6>2
          <5>3. QED
            BY <2>8, <5>1, <5>2
        <4>5. QED
          BY <1>1, <1>2, <4>1, <4>2, <4>3, <4>4
      <3>3. QED
        BY <3>1, <3>2 DEF Linked
    <2>14. InfoIsTop'
      <3>1. Last(chain') = f[Len(f)]
        <4>1. n >= low /\ n - low + 1 = Len(f)
          BY <1>1, <1>2, <1>3, <2>1
        <4>2. QED
          BY <1>1, <2>4, <2>6, <4>1 DEF Last
      <3>2. info'.id = n /\ info'.hash = Hash(f[Len(f)])
        BY <2>7 DEF InfoOf
      <3>3. QED
        BY <1>1, <2>6, <3>1, <3>2 DEF InfoIsTop
    <2>15. AppliedInChain'
      <3> SUFFICES ASSUME NEW k \in Ids
                   PROVE  applied'[k] \subseteq
                            (IF k \in DOMAIN chain' THEN Effective(chain'[k]) ELSE {})
        BY DEF AppliedInChain
      <3>1. CASE k < low
        BY <1>1, <1>2, <2>1, <2>4, <2>5, <2>6, <3>1 DEF DataInv, AppliedInChain
      <3>2. CASE k > n
        BY <2>5, <3>2
      <3>3. CASE k >= low /\ k <= n
        <4>1. k \in 1..n
          BY <1>1, <3>3
        <4>2. applied'[k] = Effective(f[k - low + 1]) /\ chain'[k] = f[k - low + 1]
          BY <2>4, <2>5, <3>3, <4>1
        <4>3. QED
          BY <2>6, <4>1, <4>2
      <3>4. QED
        BY <1>1, <1>2, <3>1, <3>2, <3>3
    <2>16. ASSUME NEW j \in Ids, NEW k \in 1..n, j < k, k >= low
           PROVE  applied'[j] \cap TxSet(chain'[k]) = {}
      <3>1. k - low + 1 \in DOMAIN f /\ chain'[k] = f[k - low + 1]
        BY <2>3, <2>4, <2>16
      <3>2. CASE j < low
        BY <2>5, <2>9, <3>1, <3>2
      <3>3. CASE j >= low
        <4>1. j \in 1..n /\ j - low + 1 \in DOMAIN f /\ j - low + 1 # k - low + 1
          BY <1>1, <1>2, <2>3, <2>16, <3>3
        <4>2. applied'[j] = Effective(f[j - low + 1])
          BY <2>5, <3>3, <4>1
        <4>3. Effective(f[j - low + 1]) \cap Effective(f[k - low + 1]) = {}
          BY <2>8, <3>1, <4>1
        <4>4. QED
          BY <3>1, <4>2, <4>3 DEF Effective
      <3>4. QED
        BY <1>1, <1>2, <3>2, <3>3
    <2>17. NotLater'
      <3> SUFFICES ASSUME NEW k \in Ids, NEW m \in DOMAIN chain', k < m
                   PROVE  applied'[k] \cap TxSet(chain'[m]) = {}
        BY DEF NotLater
      <3>1. CASE m >= low
        BY <2>6, <2>16, <3>1
      <3>2. CASE m < low
        <4>1. m \in DOMAIN chain /\ k < low
          BY <1>1, <1>2, <2>6, <3>2
        <4>2. applied[k] \cap TxSet(chain[m]) = {}
          BY <4>1 DEF DataInv, NotLater
        <4>3. applied'[k] = applied[k] /\ chain'[m] = chain[m]
          <5>1. m \in 1..n /\ ~(m >= low)
            BY <1>1, <1>2, <2>6, <3>2
          <5>2. QED
            BY <2>4, <2>5, <4>1, <5>1
        <4>4. QED
          BY <4>2, <4>3
      <3>3. QED
        BY <1>1, <1>2, <2>6, <3>1, <3>2
    <2>18. NoDoubleEffect'
      <3>1. ASSUME NEW j \in Ids, NEW k \in Ids, j < k
            PROVE  applied'[j] \cap applied'[k] = {}
        <4>1. CASE k > n
          BY <2>5, <4>1
        <4>2. CASE k <= n /\ k >= low
          <5>1. k \in 1..n
            BY <1>1, <4>2
          <5>2. applied'[k] = Effective(f[k - low + 1]) /\ chain'[k] = f[k - low + 1]
            BY <2>4, <2>5, <4>2, <5>1
          <5>3. Effective(f[k - low + 1]) \subseteq TxSet(f[k - low + 1])
            BY <1>5, <2>3, <4>2, <5>1
          <5>4. applied'[j] \cap TxSet(chain'[k]) = {}
            BY <2>16, <3>1, <4>2, <5>1
          <5>5. QED
            BY <5>2, <5>3, <5>4
        <4>3. CASE k < low
          <5>1. j < low /\ j # k
            BY <1>1, <1>2, <3>1, <4>3
          <5>2. applied[j] \cap applied[k] = {}
            BY <5>1 DEF DataInv, NoDoubleEffect
          <5>3. QED
            BY <2>5, <4>3, <5>1, <5>2
        <4>4. QED
          BY <1>1, <1>2, <4>1, <4>2, <4>3
      <3>2. \A j, k \in Ids : j # k => j < k \/ k < j
        BY <1>1
      <3>3. QED
        BY <3>1, <3>2 DEF NoDoubleEffect
    <2>19. \A k \in Ids : applied[k] \subseteq applied'[k]
      BY <1>1, <1>2, <1>4, <2>5
    <2>20. info'.id = info.id /\ Len(chain') = n
      BY <2>6, <2>7 DEF InfoOf, n
    <2>21. QED
      BY <2>11, <2>12, <2>13, <2>14, <2>15, <2>17, <2>18, <2>19, <2>20 DEF DataInv, n
  <1>10. QED
    BY <1>8, <1>9

\* RollbackBlock with the deletion of our last block.
LEMMA DeletedKeeps ==
  ASSUME DataType, DataInv, UNCHANGED <<hosts, info, command>>,
         Len(chain) > 1, command # 0,
         applied' = RolledBack(applied, Last(chain)),
         chain' = SubSeq(chain, 1, Len(chain) - 1)
  PROVE  /\ DataType' /\ DataInv'
         /\ Len(chain') = Len(chain) - 1
         /\ \A k \in Ids : k < Len(chain) => applied'[k] = applied[k]
         /\ \A k \in Ids : k >= Len(chain) => applied'[k] = {}
  <1> DEFINE n == Len(chain)
  <1>1. /\ n \in Nat \ {0} /\ DOMAIN chain = 1..n /\ n \in DOMAIN chain
        /\ Ids = 1..MaxHeight /\ MaxHeight \in Nat /\ n <= MaxHeight /\ info.id \in Ids
    BY ChainLength
  <1>2. chain \in Seq(Blocks) /\ Numbered(chain)
    BY DEF DataType, DataInv, RowsNumbered
  <1>3. Last(chain) = chain[n] /\ chain[n] \in Blocks
    BY LastRow
  <1> HIDE DEF n
  <1>4. /\ chain' \in Seq(Blocks) /\ Len(chain') = n - 1 /\ DOMAIN chain' = 1..(n - 1)
        /\ \A k \in 1..(n - 1) : chain'[k] = chain[k]
    <2>1. n - 1 \in Nat /\ n - 1 <= Len(chain) /\ 1 <= n - 1
      BY <1>1 DEF n
    <2>2. chain' = SubSeq(chain, 1, n - 1)
      BY DEF n
    <2>3. /\ chain' \in Seq(Blocks) /\ Len(chain') = (n - 1) - 1 + 1
          /\ DOMAIN chain' = 1..Len(chain')
          /\ \A i \in DOMAIN chain' : chain'[i] = chain[1 + i - 1]
      BY <1>2, <2>1, <2>2, PartOfChain
    <2>4. QED
      BY <1>1, <2>3
  <1>5. \A k \in Ids : applied'[k] = applied[k] \ TxSet(chain[n])
    BY <1>3 DEF RolledBack
  <1>6. \A k \in Ids : k < n => applied'[k] = applied[k]
    BY <1>1, <1>5 DEF DataInv, NotLater
  <1>7. \A k \in Ids : k >= n => applied'[k] = {}
    <2>1. applied[n] \subseteq Effective(chain[n])
      BY <1>1 DEF DataInv, AppliedInChain
    <2>2. \A k \in Ids : k > n => applied[k] = {}
      BY <1>1 DEF DataInv, AppliedInChain
    <2>3. applied'[n] = {}
      BY <1>1, <1>3, <1>5, <2>1, TxsOfBlock
    <2>4. QED
      BY <1>1, <1>5, <2>2, <2>3
  <1>8. DataType'
    <2>1. applied' \in [Ids -> SUBSET Txs]
      BY DEF DataType, RolledBack
    <2>2. Len(chain') \in Ids
      BY <1>1, <1>4 DEF n
    <2>3. QED
      BY <1>4, <2>1, <2>2 DEF DataType
  <1>9. RowsNumbered' /\ Linked'
    BY <1>1, <1>4 DEF DataInv, RowsNumbered, Numbered, Linked, n
  <1>10. InfoIsTop'
    BY <1>1, <1>4 DEF DataInv, InfoIsTop, n
  <1>11. AppliedInChain'
    <2> SUFFICES ASSUME NEW k \in Ids
                 PROVE  applied'[k] \subseteq
                          (IF k \in DOMAIN chain' THEN Effective(chain'[k]) ELSE {})
      BY DEF AppliedInChain
    <2>1. CASE k >= n
      BY <1>7, <2>1
    <2>2. CASE k < n
      <3>1. k \in DOMAIN chain /\ k \in DOMAIN chain' /\ chain'[k] = chain[k]
        BY <1>1, <1>4, <2>2
      <3>2. applied[k] \subseteq Effective(chain[k])
        BY <3>1 DEF DataInv, AppliedInChain
      <3>3. QED
        BY <1>6, <2>2, <3>1, <3>2
    <2>3. QED
      BY <1>1, <2>1, <2>2
  <1>12. NoDoubleEffect'
    BY <1>5 DEF DataInv, NoDoubleEffect
  <1>13. NotLater'
    BY <1>1, <1>4, <1>5 DEF DataInv, NotLater
  <1>14. QED
    BY <1>4, <1>6, <1>7, <1>8, <1>9, <1>10, <1>11, <1>12, <1>13 DEF DataInv, n

-----------------------------------------------------------------------------
(***************************************************************************)
(* The environment.                                                        *)
(***************************************************************************)

\* The invariant of the holder of DBLock is about its own state alone.
LEMMA TaskStutters ==
  ASSUME TaskType, TaskInv, CommandInv,
         UNCHANGED <<chain, info, applied, pc, task, command>>
  PROVE  TaskType' /\ TaskInv' /\ CommandInv'
  BY DEF TaskType, TaskInv, CommandInv, StreamAhead, RawIsNext, ForkFits, Working, WithRaw, Raw

\* Nothing is expected of the task of a node that does not hold DBLock.
LEMMA NoTaskInv ==
  ASSUME pc \in {"idle", "wait", "hung", "down", "command"}
  PROVE  TaskInv
  BY DEF TaskInv, StreamAhead, RawIsNext, ForkFits, Working, WithRaw

\* A host that takes another numbered chain disturbs nothing of ours.
LEMMA HostsChange ==
  ASSUME Inv, UNCHANGED <<chain, info, applied, pc, task, command>>,
         NEW h \in Hosts, NEW c \in Seq(Blocks), Len(c) \in Ids, Numbered(c),
         hosts' = [hosts EXCEPT ![h] = c],
         slot' = slot, turn' \in [Authors -> 0..MaxSlot]
  PROVE  Inv'
  <1>1. EnvType'
    BY DEF Inv, EnvType
  <1>2. \A g \in Hosts : Numbered(hosts'[g])
    BY DEF Inv, EnvType, DataInv, RowsNumbered
  <1>3. DataType' /\ DataInv'
    BY <1>2 DEF Inv, DataType, DataInv, RowsNumbered, Numbered, Linked, InfoIsTop,
                AppliedInChain, NoDoubleEffect, NotLater, Last
  <1>4. TaskType' /\ TaskInv' /\ CommandInv'
    BY TaskStutters DEF Inv
  <1>5. QED
    BY <1>1, <1>3, <1>4 DEF Inv

\* The clock.
LEMMA TickKeeps == Inv /\ Tick => Inv'
  <1> SUFFICES ASSUME Inv, Tick PROVE Inv'
    OBVIOUS
  <1>1. EnvType'
    BY ChainAssumption DEF Inv, EnvType, Tick
  <1>2. UNCHANGED <<hosts, chain, info, applied, pc, task, command>>
    BY DEF Tick, db
  <1>3. QED
    BY <1>1, <1>2, DataStutters, TaskStutters DEF Inv

\* A host appends a block built on its last one.
LEMMA HostGenerateKeeps ==
  ASSUME NEW h \in Hosts, Inv, HostGenerate(h) PROVE Inv'
  <1>1. PICK txs \in TxLists :
          hosts' = [hosts EXCEPT ![h] = Append(hosts[h],
                      [author |-> h, time |-> slot, txs |-> txs,
                       prev |-> Hash(Last(hosts[h]))])]
    BY DEF HostGenerate
  <1> DEFINE c == hosts[h]
             b == [author |-> h, time |-> slot, txs |-> txs, prev |-> Hash(Last(c))]
  <1>2. /\ c \in Seq(Blocks) /\ Len(c) \in Ids /\ Numbered(c)
        /\ slot \in 0..MaxSlot /\ turn \in [Authors -> 0..MaxSlot]
    BY DEF Inv, EnvType, DataInv, RowsNumbered
  <1>3. Len(c) \in Nat \ {0} /\ DOMAIN c = 1..Len(c) /\ Len(c) < MaxHeight
    BY <1>2, LenProperties DEF Ids, HostGenerate
  <1>4. Last(c) \in Blocks /\ Id(Last(c)) = Len(c)
    BY <1>2, <1>3, ElementOfSeq DEF Last, Numbered
  <1>5. Hash(Last(c)) \in Seq(Contents) /\ Len(Hash(Last(c))) = Len(c)
    BY <1>4, HashOfBlock
  <1>6. b \in Blocks /\ Id(b) = Len(c) + 1
    BY <1>2, <1>5, ChainAssumption DEF Blocks, Authors, Id
  <1> HIDE DEF b
  <1>7. /\ Append(c, b) \in Seq(Blocks) /\ Len(Append(c, b)) = Len(c) + 1
        /\ \A i \in 1..Len(c) : Append(c, b)[i] = c[i]
        /\ Append(c, b)[Len(c) + 1] = b
    BY <1>2, <1>6, AppendProperties
  <1>8. Len(Append(c, b)) \in Ids
    BY <1>3, <1>7, ChainAssumption DEF Ids
  <1>9. DOMAIN Append(c, b) = 1..(Len(c) + 1)
    BY <1>7, LenProperties
  <1>10. Numbered(Append(c, b))
    BY <1>2, <1>3, <1>6, <1>7, <1>9 DEF Numbered
  <1>11. turn' \in [Authors -> 0..MaxSlot]
    BY <1>2 DEF HostGenerate
  <1>12. slot' = slot /\ UNCHANGED <<chain, info, applied, pc, task, command>>
    BY DEF HostGenerate, db
  <1>13. hosts' = [hosts EXCEPT ![h] = Append(c, b)]
    BY <1>1 DEF b
  <1>14. QED
    BY <1>7, <1>8, <1>10, <1>11, <1>12, <1>13, HostsChange

\* A host takes our chain or that of another host.
LEMMA HostFollowKeeps ==
  ASSUME NEW h \in Hosts, Inv, HostFollow(h) PROVE Inv'
  <1>1. PICK c \in {chain} \cup { hosts[g] : g \in Hosts } :
          hosts' = [hosts EXCEPT ![h] = c]
    BY DEF HostFollow
  <1>2. c \in Seq(Blocks) /\ Len(c) \in Ids /\ Numbered(c)
    BY <1>1 DEF Inv, EnvType, DataType, DataInv, RowsNumbered
  <1>3. /\ slot' = slot /\ UNCHANGED <<chain, info, applied, pc, task, command>>
        /\ turn' \in [Authors -> 0..MaxSlot]
    BY DEF HostFollow, db, Inv, EnvType
  <1>4. QED
    BY <1>1, <1>2, <1>3, HostsChange

\* A host is rolled back.
LEMMA HostRollbackKeeps ==
  ASSUME NEW h \in Hosts, Inv, HostRollback(h) PROVE Inv'
  <1>1. PICK n \in 1..(Len(hosts[h]) - 1) :
          hosts' = [hosts EXCEPT ![h] = SubSeq(hosts[h], 1, n)]
    BY DEF HostRollback
  <1> DEFINE c == SubSeq(hosts[h], 1, n)
  <1>2. hosts[h] \in Seq(Blocks) /\ Len(hosts[h]) \in Ids /\ Numbered(hosts[h])
    BY DEF Inv, EnvType, DataInv, RowsNumbered
  <1>3. n \in Nat /\ 1 <= n /\ n <= Len(hosts[h]) /\ n \in Ids
    BY <1>1, <1>2, ChainAssumption DEF Ids
  <1>4. /\ c \in Seq(Blocks) /\ Len(c) = n - 1 + 1
        /\ \A i \in DOMAIN c : Id(c[i]) = 1 + i - 1 /\ i \in 1..Len(c)
    BY <1>2, <1>3, PartOfChain
  <1> HIDE DEF c
  <1>5. Len(c) \in Ids /\ Numbered(c)
    <2>1. Len(c) = n
      BY <1>3, <1>4
    <2>2. \A i \in DOMAIN c : Id(c[i]) = i
      BY <1>3, <1>4
    <2>3. QED
      BY <1>3, <2>1, <2>2 DEF Numbered
  <1>6. /\ slot' = slot /\ UNCHANGED <<chain, info, applied, pc, task, command>>
        /\ turn' \in [Authors -> 0..MaxSlot]
    BY DEF HostRollback, db, Inv, EnvType
  <1>7. hosts' = [hosts EXCEPT ![h] = c]
    BY <1>1 DEF c
  <1>8. QED
    BY <1>4, <1>5, <1>6, <1>7, HostsChange

-----------------------------------------------------------------------------
(***************************************************************************)
(* The steps of this node.                                                 *)
(***************************************************************************)

\* The task of a node that does nothing.
LEMMA NoTaskType ==
  NoTask \in [host : Hosts, target : 0..MaxHeight, next : Nat, stream : Seq(Blocks),
              fork : Seq(Blocks), low : 0..MaxHeight, undo : 0..MaxHeight]
  <1>1. (CHOOSE h \in Hosts : TRUE) \in Hosts
    BY ChainAssumption
  <1>2. << >> \in Seq(Blocks)
    BY EmptySeq
  <1>3. 0 \in 0..MaxHeight
    BY ChainAssumption
  <1>4. QED
    BY <1>1, <1>2, <1>3 DEF NoTask

\* The end of an iteration.
LEMMA ReleaseKeeps ==
  ASSUME Inv, Release, UNCHANGED <<slot, hosts, turn, chain, info, applied, command>>
  PROVE  Inv'
  <1>1. EnvType'
    BY DEF Inv, EnvType
  <1>2. DataType' /\ DataInv'
    BY DataStutters DEF Inv
  <1>3. TaskType'
    BY NoTaskType DEF Inv, TaskType, Release
  <1>4. TaskInv' /\ CommandInv'
    BY DEF Release, TaskInv, StreamAhead, RawIsNext, ForkFits, Working, WithRaw, CommandInv
  <1>5. QED
    BY <1>1, <1>2, <1>3, <1>4 DEF Inv

\* The steps that change neither the tables nor the environment.
LEMMA TaskChanges ==
  ASSUME Inv, UNCHANGED <<slot, hosts, turn, chain, info, applied, command>>,
         TaskType', TaskInv', pc' # "command"
  PROVE  Inv'
  <1>1. EnvType'
    BY DEF Inv, EnvType
  <1>2. DataType' /\ DataInv'
    BY DataStutters DEF Inv
  <1>3. QED
    BY <1>1, <1>2 DEF Inv, CommandInv

\* A block generated on info_block is the block after our last one.
LEMMA GenerateKeeps == Inv /\ Generate => Inv'
  <1> SUFFICES ASSUME Inv, Generate PROVE Inv'
    OBVIOUS
  <1>1. PICK txs \in TxLists :
          /\ Check([author |-> Me, time |-> slot, txs |-> txs, prev |-> info.hash],
                   Hash(chain[info.id]))
          /\ PlaySafe([author |-> Me, time |-> slot, txs |-> txs, prev |-> info.hash])
    BY DEF Generate
  <1> DEFINE b == [author |-> Me, time |-> slot, txs |-> txs, prev |-> info.hash]
  <1>2. DataType /\ DataInv /\ EnvType
    BY DEF Inv
  <1>3. /\ Len(chain) \in Nat \ {0} /\ DOMAIN chain = 1..Len(chain)
        /\ Ids = 1..MaxHeight /\ MaxHeight \in Nat /\ info.id \in Ids
    BY <1>2, ChainLength
  <1>4. info.id = Len(chain) /\ info.hash = Hash(Last(chain))
    BY <1>2, <1>3 DEF Generate, DataInv, InfoIsTop
  <1>5. Last(chain) = chain[Len(chain)] /\ Len(info.hash) = Len(chain)
    BY <1>2, <1>4, LastRow
  <1>6. info.hash \in Seq(Contents)
    BY <1>2 DEF DataType
  <1>7. b \in Blocks /\ Id(b) = Len(chain) + 1
    BY <1>2, <1>5, <1>6, ChainAssumption DEF EnvType, Blocks, Authors, Id
  <1> HIDE DEF b
  <1>8. Id(b) \in Ids
    BY <1>3, <1>4, <1>7 DEF Generate
  <1>9. /\ CheckLogTx(b, applied) /\ CheckHash(b, Hash(chain[Len(chain)]))
        /\ PlaySafe(b)
    BY <1>1, <1>4 DEF Check, b
  <1>10. UNCHANGED <<slot, hosts, pc, task, command>> /\ pc \in {"idle", "wait"}
    BY DEF Generate
  <1>11. DataType' /\ DataInv'
    BY <1>2, <1>7, <1>8, <1>9, <1>10, PlaySafeKeeps
  <1>12. EnvType'
    BY <1>10 DEF Inv, EnvType, Generate
  <1>13. TaskType'
    BY <1>10 DEF Inv, TaskType
  <1>14. TaskInv' /\ CommandInv'
    BY <1>10 DEF TaskInv, StreamAhead, RawIsNext, ForkFits, Working, WithRaw, CommandInv
  <1>15. QED
    BY <1>11, <1>12, <1>13, <1>14 DEF Inv

\* A collection begins.
LEMMA StartCollectionKeeps ==
  ASSUME NEW h \in Hosts, Inv, StartCollection(h) PROVE Inv'
  <1>1. /\ UNCHANGED <<slot, hosts, turn, chain, info, applied, command>>
        /\ pc' = "wait" /\ task' = [NoTask EXCEPT !.host = h, !.target = Len(hosts[h])]
    BY DEF StartCollection, env, db
  <1>2. Len(hosts[h]) \in 0..MaxHeight
    BY ChainAssumption DEF Inv, EnvType, Ids
  <1>3. TaskType'
    BY <1>1, <1>2, NoTaskType DEF Inv, TaskType
  <1>4. TaskInv'
    BY <1>1 DEF TaskInv, StreamAhead, RawIsNext, ForkFits, Working, WithRaw
  <1>5. QED
    BY <1>1, <1>3, <1>4, TaskChanges

\* The queue parser begins, and asks for the blocks above info_block.
LEMMA StartQueueParserKeeps ==
  ASSUME NEW h \in Hosts, Inv, StartQueueParser(h) PROVE Inv'
  <1>1. /\ UNCHANGED <<slot, hosts, turn, chain, info, applied, command>>
        /\ pc' = "request"
        /\ task' = [NoTask EXCEPT !.host = h, !.target = Len(hosts[h]), !.next = info.id + 1]
    BY DEF StartQueueParser, env, db
  <1>2. Len(hosts[h]) \in 0..MaxHeight
    BY ChainAssumption DEF Inv, EnvType, Ids
  <1>3. info.id \in Nat
    BY ChainLength DEF Inv
  <1>4. TaskType
    BY DEF Inv
  <1>5. TaskType' /\ task'.next = info.id + 1
    <2>1. info.id + 1 \in Nat
      BY <1>3
    <2>2. QED
      BY <1>1, <1>2, <1>4, <2>1, NoTaskType DEF TaskType
  <1>6. TaskInv'
    BY <1>1, <1>3, <1>5 DEF TaskInv, StreamAhead, RawIsNext, ForkFits, Working, WithRaw
  <1>7. QED
    BY <1>1, <1>5, <1>6, TaskChanges

\* The collection gets the lock, and asks for the blocks above info_block.
LEMMA LockForCollectionKeeps == Inv /\ LockForCollection => Inv'
  <1> SUFFICES ASSUME Inv, LockForCollection PROVE Inv'
    OBVIOUS
  <1>1. /\ UNCHANGED <<slot, hosts, turn, chain, info, applied, command>>
        /\ pc' = "request" /\ task' = [task EXCEPT !.next = info.id + 1]
    BY DEF LockForCollection, env, db
  <1>2. info.id \in Nat
    BY ChainLength DEF Inv
  <1>3. TaskType' /\ task'.next = info.id + 1
    <2>1. TaskType
      BY DEF Inv
    <2>2. info.id + 1 \in Nat
      BY <1>2
    <2>3. QED
      BY <1>1, <2>1, <2>2 DEF TaskType
  <1>4. TaskInv'
    BY <1>1, <1>2, <1>3 DEF TaskInv, StreamAhead, RawIsNext, ForkFits, Working, WithRaw
  <1>5. QED
    BY <1>1, <1>3, <1>4, TaskChanges

\* A request: the answer holds consecutive blocks above info_block.
LEMMA RequestKeeps == Inv /\ Request => Inv'
  <1> SUFFICES ASSUME Inv, Request PROVE Inv'
    OBVIOUS
  <1> DEFINE c == hosts[task.host]
             from == task.next
             to == IF Len(c) < from + BlocksPerRequest
                   THEN Len(c) ELSE from + BlocksPerRequest - 1
             answer == SubSeq(c, from, to)
  <1>1. /\ UNCHANGED <<slot, hosts, turn, chain, info, applied, command>>
        /\ pc' = "play" /\ pc = "request"
    BY DEF Request, env, db
  <1>2. answer # << >>
    BY DEF Request, Answer
  <1>3. \E n \in (IF Lossy THEN 0..Len(answer) ELSE {Len(answer)}) :
          task' = [task EXCEPT !.stream = SubSeq(answer, 1, n)]
    BY DEF Request, Answer
  <1>4. task \in [host : Hosts, target : 0..MaxHeight, next : Nat, stream : Seq(Blocks),
               fork : Seq(Blocks), low : 0..MaxHeight, undo : 0..MaxHeight]
    BY DEF Inv, TaskType
  <1>5. /\ c \in Seq(Blocks) /\ Len(c) \in Ids /\ Numbered(c)
    BY <1>4 DEF Inv, EnvType, DataInv, RowsNumbered
  <1>6. from \in Nat /\ from > info.id /\ info.id \in Nat
    BY <1>1, <1>4, ChainLength DEF Inv, TaskInv, StreamAhead
  <1>7. Len(c) \in Nat /\ Len(c) <= MaxHeight /\ MaxHeight \in Nat /\ Ids = 1..MaxHeight
    BY <1>5, ChainAssumption DEF Ids
  <1>8. to \in Nat /\ to <= Len(c) /\ to < from + BlocksPerRequest /\ from \in Nat \ {0}
    BY <1>6, <1>7, ChainAssumption
  <1> HIDE DEF c, from, to
  <1>9. /\ answer \in Seq(Blocks) /\ DOMAIN answer = 1..Len(answer)
        /\ \A i \in DOMAIN answer : Id(answer[i]) = from + i - 1 /\ from + i - 1 <= to
    BY <1>5, <1>8, PartOfChain
  <1> HIDE DEF answer
  <1>10. Len(answer) \in Nat
    BY <1>9, LenProperties
  <1>11. PICK n \in 0..Len(answer) : task' = [task EXCEPT !.stream = SubSeq(answer, 1, n)]
    <2>1. (IF Lossy THEN 0..Len(answer) ELSE {Len(answer)}) \subseteq 0..Len(answer)
      BY <1>10
    <2>2. QED
      BY <1>3, <2>1
  <1> DEFINE s == SubSeq(answer, 1, n)
  <1>12. /\ s \in Seq(Blocks) /\ Len(s) = IF 1 <= n THEN n - 1 + 1 ELSE 0
         /\ \A i \in 1..(n - 1 + 1) : s[i] = answer[1 + i - 1]
    <2>1. \A i \in 1..n : answer[i] \in Blocks
      BY <1>9, <1>10, <1>11, ElementOfSeq
    <2>2. QED
      BY <1>10, <1>11, <2>1, SubSeqProperties
  <1>13. DOMAIN s = 1..Len(s)
    BY <1>12, LenProperties
  <1> HIDE DEF s
  <1>14. \A i \in DOMAIN s : i \in 1..Len(answer) /\ s[i] = answer[i]
    BY <1>10, <1>12, <1>13, <1>11
  <1>15. \A i \in DOMAIN s : /\ i \in Nat \ {0}
                             /\ Id(s[i]) = from + i - 1 /\ from + i - 1 <= to
    BY <1>9, <1>10, <1>14
  <1>16. TaskType' /\ task'.stream = s /\ task'.next = from
    BY <1>1, <1>4, <1>12, <1>11 DEF Inv, TaskType, s, from
  <1>17. StreamAhead'
    <2>1. info'.id < task'.next + BlocksPerRequest
      BY <1>1, <1>6, <1>16, ChainAssumption
    <2>2. ASSUME NEW i \in DOMAIN s
          PROVE  /\ Id(s[i]) \in Ids /\ Id(s[i]) > info.id
                 /\ Id(s[i]) < from + BlocksPerRequest
                 /\ \A j \in DOMAIN s : j < i => Id(s[j]) < Id(s[i])
      BY <1>6, <1>7, <1>8, <1>15, ChainAssumption
    <2>3. QED
      BY <1>1, <1>16, <2>1, <2>2 DEF StreamAhead
  <1>18. RawIsNext' /\ ForkFits'
    BY <1>1 DEF RawIsNext, ForkFits, WithRaw
  <1>19. QED
    BY <1>1, <1>16, <1>17, <1>18, TaskChanges DEF TaskInv

\* The host has nothing to send, and the node hangs.
LEMMA RequestNothingKeeps == Inv /\ RequestNothing => Inv'
  <1> SUFFICES ASSUME Inv, RequestNothing PROVE Inv'
    OBVIOUS
  <1>1. /\ UNCHANGED <<slot, hosts, turn, chain, info, applied, task, command>>
        /\ pc' = "hung"
    BY DEF RequestNothing, env, db
  <1>2. TaskType'
    BY <1>1 DEF Inv, TaskType
  <1>3. TaskInv'
    BY <1>1 DEF TaskInv, StreamAhead, RawIsNext, ForkFits, Working, WithRaw
  <1>4. QED
    BY <1>1, <1>2, <1>3, TaskChanges

\* The end of an answer: the next request is above what was played.
LEMMA StreamEndKeeps == Inv /\ StreamEnd => Inv'
  <1> SUFFICES ASSUME Inv, StreamEnd PROVE Inv'
    OBVIOUS
  <1>1. /\ UNCHANGED <<slot, hosts, turn, chain, info, applied, command>>
        /\ pc = "play" /\ pc' = "request"
        /\ task' = [task EXCEPT !.next = task.next + BlocksPerRequest]
    BY DEF StreamEnd, env, db
  <1>2. TaskType
    BY DEF Inv
  <1>3. task.next + BlocksPerRequest \in Nat
    BY <1>2, ChainAssumption DEF TaskType
  <1>4. TaskType' /\ task'.next = task.next + BlocksPerRequest
    BY <1>1, <1>2, <1>3 DEF TaskType
  <1>5. info.id < task.next + BlocksPerRequest
    BY <1>1 DEF Inv, TaskInv, StreamAhead, Working
  <1>6. info.id \in Nat
    BY ChainLength DEF Inv
  <1>7. TaskInv'
    BY <1>1, <1>3, <1>4, <1>5, <1>6
       DEF TaskInv, StreamAhead, RawIsNext, ForkFits, Working, WithRaw
  <1>8. QED
    BY <1>1, <1>4, <1>7, TaskChanges

\* What is known of the block being played.
LEMMA RawFacts ==
  ASSUME Inv, Working, task.stream # << >>
  PROVE  /\ Raw \in Blocks /\ Raw = task.stream[1] /\ 1 \in DOMAIN task.stream
         /\ Id(Raw) \in Ids /\ Id(Raw) > info.id
         /\ Id(Raw) < task.next + BlocksPerRequest
  <1>1. task.stream \in Seq(Blocks)
    BY DEF Inv, TaskType
  <1> DEFINE s == task.stream
  <1> HIDE DEF s
  <1>2. s \in Seq(Blocks) /\ s # << >>
    BY <1>1 DEF s
  <1>3. Head(s) \in Blocks /\ Head(s) = s[1] /\ 1 \in DOMAIN s
    <2>1. Len(s) \in Nat \ {0} /\ DOMAIN s = 1..Len(s)
      BY <1>2, EmptySeq, LenProperties
    <2>2. QED
      BY <1>2, <2>1, HeadTailProperties
  <1>4. Raw = s[1] /\ Raw \in Blocks /\ 1 \in DOMAIN task.stream
    BY <1>3 DEF Raw, s
  <1>5. QED
    BY <1>4 DEF Inv, TaskInv, StreamAhead, s

\* A block that has a block before it in our chain is the next one.
LEMMA PlayRawKeeps == Inv /\ PlayRaw => Inv'
  <1> SUFFICES ASSUME Inv, PlayRaw PROVE Inv'
    OBVIOUS
  <1>1. /\ UNCHANGED <<slot, hosts, turn, chain, info, applied, command>>
        /\ pc = "play" /\ task.stream # << >>
    BY DEF PlayRaw, env, db
  <1>2. CASE ~HasPrevious(Raw)
    BY <1>1, <1>2, ReleaseKeeps DEF PlayRaw
  <1>3. CASE HasPrevious(Raw)
    <2>1. pc' \in {"insert", "fork"} /\ task' = task
      BY <1>3 DEF PlayRaw
    <2>2. Raw \in Blocks /\ Id(Raw) \in Ids /\ Id(Raw) > info.id
      BY <1>1, RawFacts DEF Working
    <2>3. /\ Len(chain) \in Nat /\ DOMAIN chain = 1..Len(chain) /\ info.id \in Nat
          /\ Ids = 1..MaxHeight /\ MaxHeight \in Nat
      BY ChainLength DEF Inv
    <2>4. info.id >= Len(chain)
      BY DEF Inv, DataInv, InfoIsTop
    <2>5. Len(chain) = info.id /\ Id(Raw) = Len(chain) + 1
      <3>1. Id(Raw) - 1 \in 1..Len(chain) /\ Id(Raw) \in Nat
        BY <1>3, <2>2, <2>3 DEF HasPrevious
      <3>2. QED
        BY <2>2, <2>3, <2>4, <3>1
    <2>6. TaskType'
      BY <1>1, <2>1 DEF Inv, TaskType
    <2>7. StreamAhead'
      BY <1>1, <2>1 DEF Inv, TaskInv, StreamAhead, Working
    <2>8. RawIsNext' /\ ForkFits'
      BY <1>1, <2>1, <2>5 DEF RawIsNext, ForkFits, WithRaw, Raw
    <2>9. QED
      BY <1>1, <2>1, <2>6, <2>7, <2>8, TaskChanges DEF TaskInv
  <1>4. QED
    BY <1>2, <1>3

\* The next block is checked and played.
LEMMA InsertRawKeeps == Inv /\ InsertRaw => Inv'
  <1> SUFFICES ASSUME Inv, InsertRaw PROVE Inv'
    OBVIOUS
  <1>1. UNCHANGED <<slot, hosts, turn, command>> /\ pc = "insert"
    BY DEF InsertRaw, env
  <1>2. CASE ~Check(Raw, HashBefore(Raw))
    <2>1. Release /\ UNCHANGED <<chain, info, applied>>
      BY <1>2 DEF InsertRaw, db
    <2>2. QED
      BY <1>1, <2>1, ReleaseKeeps
  <1>3. CASE Check(Raw, HashBefore(Raw))
    <2>1. /\ PlaySafe(Raw) /\ pc' = "play"
          /\ task' = [task EXCEPT !.stream = Tail(task.stream), !.fork = << >>,
                                  !.low = 0, !.undo = 0]
      BY <1>3 DEF InsertRaw
    <2>2. task.stream # << >> /\ Id(Raw) = Len(chain) + 1
      BY <1>1 DEF Inv, TaskInv, RawIsNext, WithRaw
    <2>3. /\ Raw \in Blocks /\ Raw = task.stream[1] /\ 1 \in DOMAIN task.stream
          /\ Id(Raw) \in Ids /\ Id(Raw) < task.next + BlocksPerRequest
      BY <1>1, <2>2, RawFacts DEF Working
    <2>4. DataType /\ DataInv /\ TaskType
      BY DEF Inv
    <2>5. Id(Raw) - 1 = Len(chain)
      BY <2>2, <2>4, ChainLength
    <2>6. CheckLogTx(Raw, applied) /\ CheckHash(Raw, Hash(chain[Len(chain)]))
      BY <1>3, <2>5 DEF Check, HashBefore
    <2>7. DataType' /\ DataInv' /\ info'.id = Id(Raw)
      BY <1>1, <2>1, <2>2, <2>3, <2>4, <2>6, PlaySafeKeeps
    <2> DEFINE s == task.stream
    <2>8. s \in Seq(Blocks) /\ s # << >>
      BY <2>2, <2>4 DEF TaskType
    <2> HIDE DEF s
    <2>9. /\ Tail(s) \in Seq(Blocks) /\ Len(Tail(s)) = Len(s) - 1
          /\ \A i \in 1..Len(Tail(s)) : Tail(s)[i] = s[i + 1]
      BY <2>8, HeadTailProperties
    <2>10. /\ DOMAIN Tail(s) = 1..Len(Tail(s)) /\ DOMAIN s = 1..Len(s)
           /\ Len(s) \in Nat /\ Len(Tail(s)) \in Nat
      BY <2>8, <2>9, LenProperties
    <2>11. TaskType' /\ task'.stream = Tail(s) /\ task'.next = task.next
      <3>1. 0 \in 0..MaxHeight /\ << >> \in Seq(Blocks)
        BY ChainAssumption, EmptySeq
      <3>2. task' = [task EXCEPT !.stream = Tail(s), !.fork = << >>, !.low = 0, !.undo = 0]
        BY <2>1 DEF s
      <3>3. QED
        BY <1>1, <2>1, <2>4, <2>9, <3>1, <3>2 DEF TaskType
    <2>12. \A i \in DOMAIN s :
             /\ Id(s[i]) \in Ids
             /\ Id(s[i]) < task.next + BlocksPerRequest
             /\ \A j \in DOMAIN s : j < i => Id(s[j]) < Id(s[i])
      BY <1>1 DEF Inv, TaskInv, StreamAhead, Working, s
    <2>13. \A i \in DOMAIN Tail(s) : /\ i + 1 \in DOMAIN s /\ 1 < i + 1
                                     /\ Tail(s)[i] = s[i + 1]
      BY <2>9, <2>10
    <2>14. ASSUME NEW i \in DOMAIN Tail(s)
           PROVE  /\ Id(Tail(s)[i]) \in Ids /\ Id(Tail(s)[i]) > info'.id
                  /\ Id(Tail(s)[i]) < task.next + BlocksPerRequest
                  /\ \A j \in DOMAIN Tail(s) : j < i => Id(Tail(s)[j]) < Id(Tail(s)[i])
      <3>1. Id(s[1]) < Id(s[i + 1])
        BY <2>3, <2>12, <2>13 DEF s
      <3>2. Id(Tail(s)[i]) > info'.id
        <4>1. Id(s[1]) \in Ids /\ Id(s[i + 1]) \in Ids /\ Ids \subseteq Nat
          BY <2>3, <2>4, <2>12, <2>13, ChainLength DEF s
        <4>2. QED
          BY <2>3, <2>7, <2>13, <3>1, <4>1 DEF s
      <3>3. ASSUME NEW j \in DOMAIN Tail(s), j < i
            PROVE  Id(Tail(s)[j]) < Id(Tail(s)[i])
        <4>1. j + 1 < i + 1
          BY <2>10, <3>3
        <4>2. QED
          BY <2>12, <2>13, <4>1
      <3>4. QED
        BY <2>12, <2>13, <3>2, <3>3
    <2>15. StreamAhead'
      BY <2>1, <2>3, <2>7, <2>11, <2>14 DEF StreamAhead
    <2>16. RawIsNext' /\ ForkFits'
      BY <2>1 DEF RawIsNext, ForkFits, WithRaw
    <2>17. EnvType'
      BY <1>1 DEF Inv, EnvType
    <2>18. CommandInv'
      BY <2>1 DEF CommandInv
    <2>19. QED
      BY <2>7, <2>11, <2>15, <2>16, <2>17, <2>18 DEF Inv, TaskInv
  <1>4. QED
    BY <1>2, <1>3

\* The list of the host ends at the block before the one being played.
LEMMA FetchForkKeeps == Inv /\ FetchFork => Inv'
  <1> SUFFICES ASSUME Inv, FetchFork PROVE Inv'
    OBVIOUS
  <1> DEFINE c == hosts[task.host]
             top == Id(Raw) - 1
  <1>1. UNCHANGED <<slot, hosts, turn, chain, info, applied, command>> /\ pc = "fork"
    BY DEF FetchFork, env, db
  <1>2. CASE Release
    BY <1>1, <1>2, ReleaseKeeps
  <1>3. CASE \E k \in Received(c, top) :
               /\ pc' = "undo"
               /\ task' = [task EXCEPT !.fork = SubSeq(c, k, top),
                                       !.low = IF k > top THEN top ELSE k,
                                       !.undo = Len(chain)]
    <2>1. PICK k \in Received(c, top) :
            /\ pc' = "undo"
            /\ task' = [task EXCEPT !.fork = SubSeq(c, k, top),
                                    !.low = IF k > top THEN top ELSE k,
                                    !.undo = Len(chain)]
      BY <1>3
    <2>2. k \in 2..(top + 1) /\ (k # top + 1 => Len(c) >= top)
      BY <2>1 DEF Received
    <2>3. TaskType /\ DataType
      BY DEF Inv
    <2>4. /\ Len(chain) \in Nat \ {0} /\ DOMAIN chain = 1..Len(chain)
          /\ Len(chain) <= MaxHeight /\ MaxHeight \in Nat /\ Ids = 1..MaxHeight
      BY <2>3, ChainLength
    <2>5. /\ task.stream # << >> /\ Len(chain) = info.id /\ Id(Raw) = Len(chain) + 1
      BY <1>1 DEF Inv, TaskInv, RawIsNext, WithRaw
    <2>6. top = Len(chain)
      BY <2>4, <2>5
    <2>7. c \in Seq(Blocks) /\ Len(c) \in Nat /\ Numbered(c)
      <3>1. task.host \in Hosts
        BY <2>3 DEF TaskType
      <3>2. QED
        BY <3>1, LenProperties DEF Inv, EnvType, DataInv, RowsNumbered
    <2> DEFINE f == SubSeq(c, k, top)
               low == IF k > top THEN top ELSE k
    <2> HIDE DEF c, top
    <2>8. k \in Nat \ {0} /\ k > 1 /\ top \in Nat \ {0}
      BY <2>2, <2>4, <2>6
    <2>9. /\ f \in Seq(Blocks) /\ Len(f) = IF k <= top THEN top - k + 1 ELSE 0
          /\ \A i \in DOMAIN f : Id(f[i]) = k + i - 1
      <3>1. CASE k = top + 1
        <4>1. f = << >>
          BY <2>8, <3>1, SubSeqEmpty
        <4>2. QED
          BY <2>8, <3>1, <4>1, EmptySeq
      <3>2. CASE k # top + 1
        <4>1. top <= Len(c) /\ k <= top
          BY <2>2, <2>7, <2>8, <3>2
        <4>2. QED
          BY <2>7, <2>8, <4>1, PartOfChain
      <3>3. QED
        BY <3>1, <3>2
    <2>10. low \in 1..Len(chain) /\ low \in 0..MaxHeight /\ Len(chain) \in 0..MaxHeight
      BY <2>2, <2>4, <2>6, <2>8
    <2>11. task' = [task EXCEPT !.fork = f, !.low = low, !.undo = Len(chain)]
      BY <2>1
    <2>12. /\ f # << >> => k <= top
           /\ f # << >> => low > 1 /\ low + Len(f) = Len(chain) + 1
           /\ \A i \in DOMAIN f : Id(f[i]) = low + i - 1
      <3>1. CASE k <= top
        <4>1. low = k /\ Len(f) = top - k + 1
          <5>1. ~(k > top)
            BY <2>8, <3>1
          <5>2. QED
            BY <2>9, <3>1, <5>1
        <4>2. low + Len(f) = Len(chain) + 1 /\ low > 1
          <5>1. k + (top - k + 1) = top + 1
            BY <2>8
          <5>2. QED
            BY <2>6, <2>8, <4>1, <5>1
        <4>3. \A i \in DOMAIN f : Id(f[i]) = low + i - 1
          BY <2>9, <4>1
        <4>4. QED
          BY <3>1, <4>2, <4>3
      <3>2. CASE k > top
        <4>1. f = << >>
          BY <2>8, <3>2, SubSeqEmpty
        <4>2. DOMAIN f = {}
          BY <4>1
        <4>3. QED
          BY <4>1, <4>2
      <3>3. QED
        BY <2>8, <3>1, <3>2
    <2> HIDE DEF f, low
    <2>13. /\ TaskType' /\ task'.fork = f /\ task'.low = low /\ task'.undo = Len(chain)
           /\ task'.stream = task.stream /\ task'.next = task.next
      BY <1>1, <2>1, <2>3, <2>9, <2>10, <2>11 DEF TaskType
    <2>14. StreamAhead'
      BY <1>1, <2>1, <2>13 DEF Inv, TaskInv, StreamAhead, Working
    <2>15. RawIsNext'
      BY <1>1, <2>1, <2>5, <2>13 DEF RawIsNext, WithRaw, Raw
    <2>16. \A m \in Ids : m > Len(chain) => applied[m] = {}
      BY <2>4 DEF Inv, DataInv, AppliedInChain
    <2>17. ForkFits'
      BY <1>1, <2>4, <2>10, <2>12, <2>13, <2>16 DEF ForkFits
    <2>18. QED
      BY <1>1, <2>1, <2>13, <2>14, <2>15, <2>17, TaskChanges DEF TaskInv
  <1>4. QED
    BY <1>2, <1>3 DEF FetchFork

\* The iterations that end without having changed the tables.
LEMMA EndKeeps == Inv /\ (RequestsDone \/ ConnectionFails) => Inv'
  BY ReleaseKeeps DEF RequestsDone, ConnectionFails, env, db

\* Our newest block in effect is undone.
LEMMA UndoBlockKeeps ==
  ASSUME Inv, UndoBlock
  PROVE  /\ Inv'
         /\ task.undo \in Ids
         /\ \A m \in Ids : m >= task.undo => applied'[m] = {}
         /\ \A k \in Ids : k < task.undo => applied'[k] = applied[k]
  <1>1. /\ UNCHANGED <<slot, hosts, turn, chain, info, pc, command>> /\ pc = "undo"
        /\ task.undo >= task.low /\ task' = [task EXCEPT !.undo = task.undo - 1]
        /\ applied' = RolledBack(applied, chain[task.undo])
    BY DEF UndoBlock, env
  <1>2. DataType /\ DataInv /\ TaskType
    BY DEF Inv
  <1>3. /\ Len(chain) \in Nat \ {0} /\ DOMAIN chain = 1..Len(chain)
        /\ Len(chain) <= MaxHeight /\ MaxHeight \in Nat /\ Ids = 1..MaxHeight
    BY <1>2, ChainLength
  <1>4. /\ task.low \in 1..Len(chain)
        /\ task.undo \in (task.low - 1)..Len(chain)
        /\ task.fork # << >> => task.low > 1 /\ task.low + Len(task.fork) = Len(chain) + 1
        /\ \A i \in DOMAIN task.fork : Id(task.fork[i]) = task.low + i - 1
        /\ \A m \in Ids : m > task.undo => applied[m] = {}
    BY <1>1 DEF Inv, TaskInv, ForkFits
  <1> DEFINE u == task.undo
             low == task.low
  <1> HIDE DEF u, low
  <1>5. u \in 1..Len(chain) /\ low \in 1..Len(chain) /\ u >= low
    BY <1>1, <1>3, <1>4 DEF u, low
  <1>6. u \in Ids /\ u \in DOMAIN chain /\ u - 1 \in 0..MaxHeight
        /\ u - 1 \in (low - 1)..Len(chain)
    BY <1>3, <1>5
  <1>7. /\ DataType' /\ DataInv'
        /\ \A m \in Ids : m >= u => applied'[m] = {}
        /\ \A k \in Ids : k < u => applied'[k] = applied[k]
    <2>1. \A m \in Ids : m > u => applied[m] = {}
      BY <1>4 DEF u
    <2>2. applied' = RolledBack(applied, chain[u])
      BY <1>1 DEF u
    <2>3. QED
      BY <1>1, <1>2, <1>6, <2>1, <2>2, RolledBackKeeps
  <1>8. /\ TaskType' /\ task'.undo = u - 1 /\ task'.low = low /\ task'.fork = task.fork
        /\ task'.stream = task.stream /\ task'.next = task.next
    <2>1. task' = [task EXCEPT !.undo = u - 1]
      BY <1>1 DEF u
    <2>2. QED
      BY <1>1, <1>2, <1>6, <2>1 DEF TaskType, low
  <1>9. StreamAhead' /\ RawIsNext'
    BY <1>1, <1>8 DEF Inv, TaskInv, StreamAhead, RawIsNext, Working, WithRaw, Raw
  <1>10. ForkFits'
    <2>1. /\ low \in 1..Len(chain')
          /\ task.fork # << >> => low > 1 /\ low + Len(task.fork) = Len(chain') + 1
          /\ \A i \in DOMAIN task.fork : Id(task.fork[i]) = low + i - 1
      BY <1>1, <1>4 DEF low
    <2>2. u - 1 \in (low - 1)..Len(chain')
      BY <1>1, <1>6
    <2>3. \A m \in Ids : m > u - 1 => applied'[m] = {}
      BY <1>3, <1>5, <1>7
    <2>4. QED
      BY <1>8, <2>1, <2>2, <2>3 DEF ForkFits
  <1>11. EnvType' /\ CommandInv'
    BY <1>1 DEF Inv, EnvType, CommandInv
  <1>12. Inv'
    BY <1>7, <1>8, <1>9, <1>10, <1>11 DEF Inv, TaskInv
  <1>13. QED
    BY <1>6, <1>7, <1>12 DEF u

\* The fork replaces our blocks, or the update ends.
LEMMA ProcessBlocksKeeps ==
  ASSUME Inv, ProcessBlocks
  PROVE  Inv' /\ \A k \in Ids : applied[k] \subseteq applied'[k]
  <1>1. /\ UNCHANGED <<slot, hosts, turn, command>> /\ pc = "undo" /\ task.undo < task.low
    BY DEF ProcessBlocks, env
  <1>2. CASE ~ForkAccepted(task.fork)
    <2>1. Release /\ UNCHANGED <<chain, info, applied>>
      BY <1>2 DEF ProcessBlocks, db
    <2>2. QED
      BY <1>1, <2>1, ReleaseKeeps
  <1>3. CASE ForkAccepted(task.fork)
    <2>1. /\ chain' = [k \in DOMAIN chain |->
                         IF k >= task.low /\ k < task.low + Len(task.fork)
                         THEN task.fork[k - task.low + 1] ELSE chain[k]]
          /\ applied' = [k \in Ids |->
                           IF k >= task.low /\ k < task.low + Len(task.fork)
                           THEN applied[k] \cup Effective(task.fork[k - task.low + 1])
                           ELSE applied[k]]
          /\ info' = IF task.fork = << >> THEN info ELSE InfoOf(HeadOfFork(task.fork))
          /\ pc' = "insert" /\ task' = task
      BY <1>3 DEF ProcessBlocks
    <2>2. /\ DataType /\ DataInv /\ TaskType /\ ForkFits
          /\ Len(chain) = info.id
      BY <1>1 DEF Inv, TaskInv, RawIsNext, WithRaw
    <2>3. /\ DataType' /\ DataInv'
          /\ info'.id = info.id /\ Len(chain') = Len(chain)
          /\ \A k \in Ids : applied[k] \subseteq applied'[k]
      BY <1>1, <1>3, <2>1, <2>2, ForkKeeps
    <2>4. TaskType'
      BY <1>1, <2>1, <2>2 DEF TaskType
    <2>5. StreamAhead' /\ RawIsNext' /\ ForkFits'
      BY <1>1, <2>1, <2>3
         DEF Inv, TaskInv, StreamAhead, RawIsNext, ForkFits, Working, WithRaw, Raw
    <2>6. EnvType' /\ CommandInv'
      BY <1>1, <2>1 DEF Inv, EnvType, CommandInv
    <2>7. QED
      BY <2>3, <2>4, <2>5, <2>6 DEF Inv, TaskInv
  <1>4. QED
    BY <1>2, <1>3

\* A crash loses the task and nothing else; a restart loses nothing.
LEMMA CrashKeeps == Inv /\ (Crash \/ Restart) => Inv'
  <1> SUFFICES ASSUME Inv, Crash \/ Restart PROVE Inv'
    OBVIOUS
  <1>1. /\ UNCHANGED <<slot, hosts, turn, chain, info, applied, command>>
        /\ pc' \in {"down", "idle"} /\ task' \in {NoTask, task}
    BY DEF Crash, Restart, env, db
  <1>2. TaskType'
    BY <1>1, NoTaskType DEF Inv, TaskType
  <1>3. TaskInv'
    BY <1>1 DEF TaskInv, StreamAhead, RawIsNext, ForkFits, Working, WithRaw
  <1>4. QED
    BY <1>1, <1>2, <1>3, TaskChanges

\* The command is given the id of one of our blocks.
LEMMA RollbackCommandKeeps == Inv /\ RollbackCommand => Inv'
  <1> SUFFICES ASSUME Inv, RollbackCommand PROVE Inv'
    OBVIOUS
  <1>1. /\ UNCHANGED <<slot, hosts, turn, chain, info, applied, task>>
        /\ pc' = "command" /\ command' \in DOMAIN chain
    BY DEF RollbackCommand, env, db
  <1>2. DataType /\ DataInv /\ TaskType
    BY DEF Inv
  <1>3. /\ Len(chain) \in Nat \ {0} /\ DOMAIN chain = 1..Len(chain)
        /\ Len(chain) <= MaxHeight /\ MaxHeight \in Nat
    BY <1>2, ChainLength
  <1>4. command' \in 1..Len(chain) /\ command' # 0 /\ command' \in 0..MaxHeight
    BY <1>1, <1>3
  <1>5. EnvType' /\ TaskType' /\ CommandInv'
    BY <1>1, <1>4 DEF Inv, EnvType, TaskType, CommandInv
  <1>6. TaskInv'
    BY <1>1 DEF TaskInv, StreamAhead, RawIsNext, ForkFits, Working, WithRaw
  <1>7. DataType' /\ DataInv'
    BY <1>1, <1>2, <1>4 DEF DataType, DataInv, RowsNumbered, Numbered, Linked, InfoIsTop,
                            AppliedInChain, NoDoubleEffect, NotLater, Last
  <1>8. QED
    BY <1>5, <1>6, <1>7 DEF Inv

\* The command undoes and deletes our last block.
LEMMA ToBlockIDStepKeeps ==
  ASSUME Inv, ToBlockIDStep
  PROVE  /\ Inv'
         /\ Len(chain) \in Ids
         /\ \A k \in Ids : k < Len(chain) => applied'[k] = applied[k]
         /\ \A k \in Ids : k >= Len(chain) => applied'[k] = {}
  <1>1. /\ UNCHANGED <<slot, hosts, turn, info, pc, task, command>>
        /\ pc = "command" /\ Len(chain) > command
        /\ applied' = RolledBack(applied, Last(chain))
        /\ chain' = SubSeq(chain, 1, Len(chain) - 1)
    BY DEF ToBlockIDStep, env
  <1>2. DataType /\ DataInv /\ TaskType /\ command \in 1..Len(chain)
    BY <1>1 DEF Inv, CommandInv
  <1>3. Len(chain) \in Nat \ {0} /\ Len(chain) > 1 /\ command # 0
    BY <1>1, <1>2, ChainLength
  <1>4. /\ DataType' /\ DataInv' /\ Len(chain') = Len(chain) - 1
        /\ \A k \in Ids : k < Len(chain) => applied'[k] = applied[k]
        /\ \A k \in Ids : k >= Len(chain) => applied'[k] = {}
    BY <1>1, <1>2, <1>3, DeletedKeeps
  <1>5. CommandInv'
    BY <1>1, <1>2, <1>3, <1>4 DEF CommandInv
  <1>6. EnvType' /\ TaskType'
    BY <1>1 DEF Inv, EnvType, TaskType
  <1>7. TaskInv'
    BY <1>1 DEF TaskInv, StreamAhead, RawIsNext, ForkFits, Working, WithRaw
  <1>8. Len(chain) \in Ids
    BY <1>2 DEF DataType
  <1>9. QED
    BY <1>4, <1>5, <1>6, <1>7, <1>8 DEF Inv

\* The end of the command makes info_block our last row.
LEMMA ToBlockIDEndKeeps == Inv /\ ToBlockIDEnd => Inv'
  <1> SUFFICES ASSUME Inv, ToBlockIDEnd PROVE Inv'
    OBVIOUS
  <1>1. /\ UNCHANGED <<slot, hosts, turn, chain, applied, task>>
        /\ pc' = "down" /\ command' = 0 /\ info' = InfoOf(Last(chain))
    BY DEF ToBlockIDEnd, env
  <1>2. DataType /\ DataInv
    BY DEF Inv
  <1>3. Last(chain) \in Blocks /\ Id(Last(chain)) = Len(chain)
    BY <1>2, LastRow
  <1>4. Hash(Last(chain)) \in Seq(Contents)
    BY <1>3, HashOfBlock
  <1>5. info'.id = Len(chain) /\ info'.hash = Hash(Last(chain))
    BY <1>1, <1>3 DEF InfoOf
  <1>6. DataType'
    <2>1. Len(chain) \in Ids
      BY <1>2 DEF DataType
    <2>2. info' \in [id : Ids, hash : Seq(Contents)]
      BY <1>1, <1>3, <1>4, <2>1 DEF InfoOf
    <2>3. QED
      BY <1>1, <1>2, <2>2 DEF DataType
  <1>7. InfoIsTop'
    <2>1. Len(chain) \in Nat
      BY <1>2, ChainLength
    <2>2. QED
      BY <1>1, <1>5, <2>1 DEF InfoIsTop, Last
  <1>8. DataInv'
    BY <1>1, <1>2, <1>7 DEF DataInv, RowsNumbered, Numbered, Linked, AppliedInChain,
                            NoDoubleEffect, NotLater
  <1>9. EnvType' /\ TaskType'
    BY <1>1, ChainAssumption DEF Inv, EnvType, TaskType
  <1>10. TaskInv' /\ CommandInv'
    BY <1>1 DEF TaskInv, StreamAhead, RawIsNext, ForkFits, Working, WithRaw, CommandInv
  <1>11. QED
    BY <1>6, <1>8, <1>9, <1>10 DEF Inv

-----------------------------------------------------------------------------
(***************************************************************************)
(* The theorems.                                                           *)
(***************************************************************************)

\* The node starts from the first block.
LEMMA InitInv == Init => Inv
  <1> SUFFICES ASSUME Init PROVE Inv
    OBVIOUS
  <1>1. FirstBlock \in Blocks /\ Id(FirstBlock) = 1 /\ FirstBlock.prev = << >>
    <2>1. << >> \in Seq(Txs) /\ << >> \in Seq(Contents) /\ Len(<< >>) = 0
      BY EmptySeq
    <2>2. 0 \in 0..MaxSlot /\ Me \in Authors
      BY ChainAssumption DEF Authors
    <2>3. QED
      BY <2>1, <2>2 DEF FirstBlock, Blocks, Id
  <1>2. Hash(FirstBlock) \in Seq(Contents)
    BY <1>1, HashOfBlock
  <1>3. /\ <<FirstBlock>> \in Seq(Blocks) /\ Len(<<FirstBlock>>) = 1
        /\ DOMAIN <<FirstBlock>> = 1..1 /\ <<FirstBlock>>[1] = FirstBlock
    BY <1>1
  <1>4. 1 \in Ids /\ 0 \in 0..MaxHeight /\ 0 \in 0..MaxSlot /\ 1 \in 0..MaxSlot
    BY ChainAssumption DEF Ids
  <1>5. EnvType
    BY <1>3, <1>4 DEF Init, EnvType
  <1>6. DataType
    BY <1>1, <1>2, <1>3, <1>4 DEF Init, DataType, InfoOf
  <1>7. TaskType
    BY <1>4, NoTaskType DEF Init, TaskType
  <1>8. TaskInv /\ CommandInv
    BY DEF Init, TaskInv, StreamAhead, RawIsNext, ForkFits, Working, WithRaw, CommandInv
  <1>9. RowsNumbered
    BY <1>1, <1>3 DEF Init, RowsNumbered, Numbered
  <1>10. Linked
    BY <1>3 DEF Init, Linked
  <1>11. InfoIsTop
    BY <1>1, <1>3 DEF Init, InfoIsTop, InfoOf, Last
  <1>12. AppliedInChain /\ NoDoubleEffect /\ NotLater
    BY DEF Init, AppliedInChain, NoDoubleEffect, NotLater
  <1>13. QED
    BY <1>5, <1>6, <1>7, <1>8, <1>9, <1>10, <1>11, <1>12 DEF Inv, DataInv

\* Every step preserves the invariant.
LEMMA NextInv == Inv /\ [Next]_vars => Inv'
  <1> SUFFICES ASSUME Inv, [Next]_vars PROVE Inv'
    OBVIOUS
  <1>1. CASE Environment
    BY <1>1, TickKeeps, HostGenerateKeeps, HostFollowKeeps, HostRollbackKeeps DEF Environment
  <1>2. CASE Generate
    BY <1>2, GenerateKeeps
  <1>3. CASE Collector
    <2>1. CASE \E h \in Hosts : StartCollection(h) \/ StartQueueParser(h)
      BY <2>1, StartCollectionKeeps, StartQueueParserKeeps
    <2>2. CASE \/ LockForCollection \/ Request \/ RequestNothing \/ RequestsDone
               \/ ConnectionFails \/ StreamEnd
      BY <2>2, LockForCollectionKeeps, RequestKeeps, RequestNothingKeeps, EndKeeps,
         StreamEndKeeps
    <2>3. CASE PlayRaw \/ InsertRaw \/ FetchFork \/ UndoBlock \/ ProcessBlocks
      BY <2>3, PlayRawKeeps, InsertRawKeeps, FetchForkKeeps, UndoBlockKeeps,
         ProcessBlocksKeeps
    <2>4. QED
      BY <1>3, <2>1, <2>2, <2>3 DEF Collector
  <1>4. CASE Failures
    BY <1>4, CrashKeeps, RollbackCommandKeeps, ToBlockIDStepKeeps, ToBlockIDEndKeeps
       DEF Failures
  <1>5. CASE UNCHANGED vars
    <2>1. UNCHANGED <<slot, hosts, turn, chain, info, applied, pc, task, command>>
      BY <1>5 DEF vars
    <2>2. EnvType'
      BY <2>1 DEF Inv, EnvType
    <2>3. QED
      BY <2>1, <2>2, DataStutters, TaskStutters DEF Inv
  <1>6. QED
    BY <1>1, <1>2, <1>3, <1>4, <1>5 DEF Next

\* The inductive invariant holds in every behaviour, with every fault.
THEOREM InvHolds == Spec => []Inv
  BY InitInv, NextInv, PTL DEF Spec

\* Every variable keeps its type: no step of the collector reads a block of our
\* chain or of an answer that is not there.
THEOREM TypeCorrect == Spec => []TypeOK
  <1>1. Inv => TypeOK
    BY DEF Inv, EnvType, DataType, TaskType, TypeOK
  <1>2. QED
    BY <1>1, InvHolds, PTL

\* block_chain is a chain of signed hashes from the first block on, whatever
\* the hosts answer and wherever a crash, a broken connection or an unfinished
\* rollback falls.
THEOREM ChainLinked == Spec => []Linked
  <1>1. Inv => Linked
    BY DEF Inv, DataInv
  <1>2. QED
    BY <1>1, InvHolds, PTL

\* info_block names the last row, except while a rollback command is unfinished.
THEOREM InfoTop == Spec => []InfoIsTop
  <1>1. Inv => InfoIsTop
    BY DEF Inv, DataInv
  <1>2. QED
    BY <1>1, InvHolds, PTL

\* The tables never hold an effect of a block that is not in block_chain.
THEOREM EffectsOfChain == Spec => []AppliedInChain
  <1>1. Inv => AppliedInChain
    BY DEF Inv, DataInv
  <1>2. QED
    BY <1>1, InvHolds, PTL

\* No transaction is in effect twice, whatever is undone, replayed or replaced.
THEOREM EffectOnce == Spec => []NoDoubleEffect
  <1>1. Inv => NoDoubleEffect
    BY DEF Inv, DataInv
  <1>2. QED
    BY <1>1, InvHolds, PTL

\* Undoing that leaves what is below n and nothing from n upwards.
LEMMA UndoneAt ==
  ASSUME NEW n \in Ids, NEW before, NEW after,
         \A m \in Ids : m >= n => after[m] = {},
         \A k \in Ids : k < n => after[k] = before[k],
         NEW k \in Ids, ~(before[k] \subseteq after[k]),
         NEW m \in Ids, m > k
  PROVE  after[m] = {}
  <1>1. Ids \subseteq Nat
    BY DEF Ids
  <1>2. ~(k < n)
    OBVIOUS
  <1>3. m >= n
    BY <1>1, <1>2
  <1>4. QED
    BY <1>3

\* Effects are undone from the newest block to the oldest, by a fork and by the
\* rollback command alike.
THEOREM UndoneFromTop == Spec => UndoFromTop
  <1> DEFINE Step == \A k \in Ids : ~(applied[k] \subseteq applied'[k])
                       => \A m \in Ids : m > k => applied'[m] = {}
  <1>1. ASSUME Inv, [Next]_vars PROVE Step
    <2>1. CASE UNCHANGED applied
      BY <2>1
    <2>2. CASE UndoBlock
      <3>1. /\ task.undo \in Ids
            /\ \A m \in Ids : m >= task.undo => applied'[m] = {}
            /\ \A k \in Ids : k < task.undo => applied'[k] = applied[k]
        BY <1>1, <2>2, UndoBlockKeeps
      <3>2. QED
        BY <3>1, UndoneAt
    <2>3. CASE ToBlockIDStep
      <3>1. /\ Len(chain) \in Ids
            /\ \A m \in Ids : m >= Len(chain) => applied'[m] = {}
            /\ \A k \in Ids : k < Len(chain) => applied'[k] = applied[k]
        BY <1>1, <2>3, ToBlockIDStepKeeps
      <3>2. QED
        BY <3>1, UndoneAt
    <2>4. CASE ProcessBlocks
      BY <1>1, <2>4, ProcessBlocksKeeps
    <2>5. ASSUME NEW b, PlaySafe(b) PROVE Step
      <3>1. applied \in [Ids -> SUBSET Txs]
        BY <1>1 DEF Inv, DataType
      <3>2. \A k \in Ids : applied[k] \subseteq applied'[k]
        BY <2>5, <3>1 DEF PlaySafe, Played
      <3>3. QED
        BY <3>2
    <2>6. CASE Generate
      BY <2>5, <2>6 DEF Generate
    <2>7. CASE InsertRaw
      BY <2>1, <2>5, <2>7 DEF InsertRaw, db
    <2>8. QED
      BY <1>1, <2>1, <2>2, <2>3, <2>4, <2>6, <2>7
         DEF Next, vars, Environment, Collector, Failures, Tick, HostGenerate, HostFollow,
             HostRollback, StartCollection, StartQueueParser, LockForCollection, Request,
             RequestNothing, RequestsDone, ConnectionFails, StreamEnd, PlayRaw, FetchFork,
             Crash, Restart, RollbackCommand, ToBlockIDEnd, db
  <1>2. QED
    BY <1>1, InvHolds, PTL DEF Spec, UndoFromTop

\* A node left with info_block ahead of block_chain by an interrupted rollback
\* builds nothing on the gap: its rows change by another rollback command only.
THEOREM GapStays == Spec => GapIsNotBuiltOn
  <1> DEFINE Step == info.id > Len(chain) /\ pc # "command" => UNCHANGED <<chain, info>>
  <1>1. ASSUME Inv, [Next]_vars PROVE Step
    <2> SUFFICES ASSUME info.id > Len(chain), pc # "command"
                 PROVE  UNCHANGED <<chain, info>>
      OBVIOUS
    <2>1. /\ Len(chain) \in Nat /\ info.id \in Nat /\ DOMAIN chain = 1..Len(chain)
      BY <1>1, ChainLength DEF Inv
    <2>2. info.id \notin DOMAIN chain /\ info.id # Len(chain)
      BY <2>1
    <2>3. pc \notin {"insert", "undo"}
      BY <1>1, <2>2 DEF Inv, TaskInv, RawIsNext, WithRaw
    <2>4. ~Generate /\ ~InsertRaw /\ ~ProcessBlocks /\ ~ToBlockIDStep /\ ~ToBlockIDEnd
      BY <2>2, <2>3 DEF Generate, InsertRaw, ProcessBlocks, ToBlockIDStep, ToBlockIDEnd
    <2>5. QED
      BY <1>1, <2>4
         DEF Next, vars, Environment, Collector, Failures, Tick, HostGenerate, HostFollow,
             HostRollback, StartCollection, StartQueueParser, LockForCollection, Request,
             RequestNothing, RequestsDone, ConnectionFails, StreamEnd, PlayRaw, FetchFork,
             UndoBlock, Crash, Restart, RollbackCommand, db
  <1>2. QED
    BY <1>1, InvHolds, PTL DEF Spec, GapIsNotBuiltOn

-----------------------------------------------------------------------------
(***************************************************************************)
(* A fork is taken over as a whole.  While the hosts are honest and keep   *)
(* the chain they serve, no connection breaks and the process lives, the   *)
(* list of a fork that is no deeper than the limits always passes the      *)
(* checks of processBlocks, so our blocks are never undone for nothing:    *)
(* between two iterations the tables hold the effects of the whole chain.  *)
(*                                                                         *)
(* The argument is about hashes: a block commits to every block before it, *)
(* so the host's chain and ours agree below the lowest block of the list   *)
(* and differ at every block from there on; and an author makes one block  *)
(* per turn, so no block of the list meets its own time in our chain.      *)
(***************************************************************************)
\* The conditions of the theorems.
Honest ==
  /\ ~Regenerate /\ ~Switching /\ ~Lossy /\ ~Crashes
  /\ \A txs \in TxLists : NoDuplicates(txs)

\* The fork the node meets is within rollback_blocks and within one request.
ShallowForks ==
  pc = "fork" =>
    \E k \in 2..Len(chain) :
      /\ CheckHash(hosts[task.host][k], HashBefore(hosts[task.host][k]))
      /\ Len(chain) - k <= RollbackBlocks
      /\ Len(chain) - k < BlocksPerRequest

\* What a hash adds for a block, and a chain whose blocks commit to all the
\* blocks before them.
Content(b) == <<b.author, b.time, b.txs>>

Historic(c) ==
  /\ c[1] = FirstBlock
  /\ \A n \in DOMAIN c : \A k \in 1..(n - 1) : c[n].prev[k] = Content(c[k])

RowsOf(c) == { c[k] : k \in DOMAIN c }
Seen == RowsOf(chain) \cup UNION { RowsOf(hosts[h]) : h \in Hosts }

\* The chains of the node and of the hosts.
ChainsInv ==
  /\ Historic(chain)
  /\ \A h \in Hosts : Historic(hosts[h]) /\ ValidChain(hosts[h])

\* An author makes one block per turn, and lists no transaction twice.
TurnsInv ==
  /\ slot >= 1
  /\ \A a \in Authors : turn[a] <= slot
  /\ \A b \in Seen : b.time <= turn[b.author] /\ NoDuplicates(b.txs)
  /\ \A b, c \in Seen : b.author = c.author /\ b.time = c.time => b = c

\* The blocks still to play are in the chain of the host.
ServedInv ==
  Working => \A i \in DOMAIN task.stream :
    /\ Id(task.stream[i]) \in DOMAIN hosts[task.host]
    /\ task.stream[i] = hosts[task.host][Id(task.stream[i])]

\* The list of a fork: our chain and the host's part at task.low.
ForkInv ==
  /\ pc = "fork" => ~CheckHash(Raw, HashBefore(Raw))
  /\ pc = "undo" =>
       /\ task.low > 1
       /\ Len(task.fork) = Len(chain) - task.low + 1
       /\ Len(chain) < Len(hosts[task.host])
       /\ \A i \in DOMAIN task.fork : task.fork[i] = hosts[task.host][task.low + i - 1]
       /\ \A m \in DOMAIN chain : m < task.low <=> hosts[task.host][m] = chain[m]

\* The effects of every block that is not undone are in the tables.
FullInv ==
  /\ pc \notin {"down", "command"} /\ command = 0
  /\ \A k \in DOMAIN chain :
       (pc = "undo" => k <= task.undo) => applied[k] = Effective(chain[k])

HonestInv == ChainsInv /\ TurnsInv /\ ServedInv /\ ForkInv /\ FullInv

-----------------------------------------------------------------------------
(***************************************************************************)
(* Hashes.                                                                 *)
(***************************************************************************)

\* A chain of blocks as a function of the ids.
LEMMA ChainOf ==
  ASSUME NEW c \in Seq(Blocks)
  PROVE  Len(c) \in Nat /\ DOMAIN c = 1..Len(c) /\ \A k \in 1..Len(c) : c[k] \in Blocks
  BY LenProperties, ElementOfSeq

\* The entries of a hash.
LEMMA HashEntries ==
  ASSUME NEW b \in Blocks
  PROVE  /\ b.prev \in Seq(Contents) /\ Len(b.prev) \in Nat /\ Id(b) = Len(b.prev) + 1
         /\ Hash(b) \in Seq(Contents) /\ Len(Hash(b)) = Id(b)
         /\ \A k \in 1..Len(b.prev) : Hash(b)[k] = b.prev[k]
         /\ Hash(b)[Id(b)] = Content(b)
<1>1. /\ b.author \in Authors /\ b.time \in 0..MaxSlot
      /\ b.txs \in Seq(Txs) /\ b.prev \in Seq(Contents)
  BY DEF Blocks
<1>2. Content(b) \in Contents
  BY <1>1 DEF Contents, Content
<1>3. Hash(b) = Append(b.prev, Content(b))
  BY DEF Hash, Content
<1>4. /\ Append(b.prev, Content(b)) \in Seq(Contents)
      /\ Len(Append(b.prev, Content(b))) = Len(b.prev) + 1
      /\ \A k \in 1..Len(b.prev) : Append(b.prev, Content(b))[k] = b.prev[k]
      /\ Append(b.prev, Content(b))[Len(b.prev) + 1] = Content(b)
  BY <1>1, <1>2, AppendProperties
<1>5. Len(b.prev) \in Nat
  BY <1>1, LenProperties
<1> QED
  BY <1>1, <1>3, <1>4, <1>5 DEF Id

\* The history a block commits to has an entry for every block before it.
LEMMA PrevLength ==
  ASSUME NEW b \in Blocks, NEW n \in Nat, Id(b) = n
  PROVE  Len(b.prev) = n - 1 /\ b.prev \in Seq(Contents)
<1> DEFINE p == Len(b.prev)
<1>1. p \in Nat /\ n = p + 1 /\ b.prev \in Seq(Contents)
  BY HashEntries
<1> HIDE DEF p
<1>2. p = n - 1
  BY <1>1
<1> QED
  BY <1>1, <1>2 DEF p

\* Blocks with the same content and the same hash before them are the same.
LEMMA SameBlock ==
  ASSUME NEW b \in Blocks, NEW d \in Blocks, Content(b) = Content(d), b.prev = d.prev
  PROVE  b = d
<1>1. b.author = d.author /\ b.time = d.time /\ b.txs = d.txs
  BY DEF Content
<1> QED
  BY <1>1 DEF Blocks

\* Histories of the same length with the same entries are the same.
LEMMA SamePrev ==
  ASSUME NEW s \in Seq(Contents), NEW r \in Seq(Contents), Len(s) = Len(r),
         \A k \in 1..Len(s) : s[k] = r[k]
  PROVE  s = r
  BY SeqEqual

\* The hash of a block is what the next block of its chain was signed over.
LEMMA Joins ==
  ASSUME NEW c \in Seq(Blocks), Numbered(c), Historic(c), NEW k \in 1..Len(c), k > 1
  PROVE  c[k].prev = Hash(c[k - 1])
<1>1. Len(c) \in Nat /\ DOMAIN c = 1..Len(c) /\ \A j \in 1..Len(c) : c[j] \in Blocks
  BY ChainOf
<1>2. k - 1 \in 1..Len(c) /\ k \in Nat
  BY <1>1
<1>3. c[k] \in Blocks /\ c[k - 1] \in Blocks /\ Id(c[k]) = k /\ Id(c[k - 1]) = k - 1
  BY <1>1, <1>2 DEF Numbered
<1>4. Len(c[k].prev) = k - 1 /\ Len(c[k - 1].prev) = k - 2 /\ Len(Hash(c[k - 1])) = k - 1
      /\ c[k].prev \in Seq(Contents) /\ Hash(c[k - 1]) \in Seq(Contents)
  BY <1>2, <1>3, HashEntries, SMTT(30)
<1>5. ASSUME NEW j \in 1..(k - 1) PROVE c[k].prev[j] = Hash(c[k - 1])[j]
  <2>1. c[k].prev[j] = Content(c[j])
    BY <1>1 DEF Historic
  <2>2. CASE j = k - 1
    BY <1>3, <2>1, <2>2, HashEntries
  <2>3. CASE j < k - 1
    <3>1. j \in 1..(k - 2) /\ j \in 1..((k - 1) - 1)
      BY <1>2, <2>3
    <3>2. c[k - 1].prev[j] = Content(c[j])
      BY <1>1, <1>2, <3>1 DEF Historic
    <3>3. Hash(c[k - 1])[j] = c[k - 1].prev[j]
      BY <1>3, <1>4, <3>1, HashEntries
    <3> QED
      BY <2>1, <3>2, <3>3
  <2> QED
    BY <1>2, <2>2, <2>3
<1> QED
  BY <1>4, <1>5, SamePrev

\* A block built on a block of another chain: the two chains agree up to there.
LEMMA SameHistory ==
  ASSUME NEW c \in Seq(Blocks), Numbered(c), Historic(c),
         NEW d \in Seq(Blocks), Numbered(d), Historic(d),
         NEW n \in 1..Len(d), n + 1 \in 1..Len(c), c[n + 1].prev = Hash(d[n])
  PROVE  \A m \in 1..n : c[m] = d[m]
<1>1. /\ Len(c) \in Nat /\ DOMAIN c = 1..Len(c) /\ \A j \in 1..Len(c) : c[j] \in Blocks
      /\ Len(d) \in Nat /\ DOMAIN d = 1..Len(d) /\ \A j \in 1..Len(d) : d[j] \in Blocks
  BY ChainOf
<1>2. n \in Nat \ {0} /\ n <= Len(c) /\ n <= Len(d) /\ d[n] \in Blocks
      /\ Id(d[n]) = n /\ n \in DOMAIN d /\ n + 1 \in DOMAIN c
  BY <1>1 DEF Numbered
<1>3. ASSUME NEW m \in 1..n PROVE Content(c[m]) = Content(d[m])
  <2>1. c[n + 1].prev[m] = Content(c[m])
    <3>1. m \in 1..((n + 1) - 1)
      BY <1>2
    <3> QED
      BY <1>2, <3>1 DEF Historic
  <2>2. CASE m = n
    BY <1>2, <2>1, <2>2, HashEntries
  <2>3. CASE m < n
    <3>1. m \in 1..(n - 1) /\ m \in 1..Len(d[n].prev)
      BY <1>2, <2>3, HashEntries
    <3>2. Hash(d[n])[m] = d[n].prev[m] /\ d[n].prev[m] = Content(d[m])
      BY <1>2, <3>1, HashEntries DEF Historic
    <3> QED
      BY <2>1, <3>2
  <2> QED
    BY <1>2, <2>2, <2>3
<1>4. ASSUME NEW m \in 1..n PROVE c[m] = d[m]
  <2>1. m \in 1..Len(c) /\ m \in 1..Len(d) /\ m \in Nat
    BY <1>2
  <2>2. c[m] \in Blocks /\ d[m] \in Blocks /\ Id(c[m]) = m /\ Id(d[m]) = m
    BY <1>1, <2>1 DEF Numbered
  <2>3. Len(c[m].prev) = m - 1 /\ Len(d[m].prev) = m - 1
        /\ c[m].prev \in Seq(Contents) /\ d[m].prev \in Seq(Contents)
    BY <2>1, <2>2, PrevLength
  <2>4. ASSUME NEW k \in 1..(m - 1) PROVE c[m].prev[k] = d[m].prev[k]
    <3>1. k \in 1..n
      BY <1>2, <2>1
    <3> QED
      BY <1>1, <1>3, <2>1, <3>1 DEF Historic
  <2>5. c[m].prev = d[m].prev
    BY <2>3, <2>4, SamePrev
  <2> QED
    BY <1>3, <2>2, <2>5, SameBlock
<1> QED
  BY <1>4

\* A block built on the last block of a chain extends its history.
LEMMA ExtendHistory ==
  ASSUME NEW c \in Seq(Blocks), Numbered(c), Historic(c), Len(c) > 0,
         NEW b \in Blocks, b.prev = Hash(c[Len(c)])
  PROVE  /\ Append(c, b) \in Seq(Blocks) /\ Len(Append(c, b)) = Len(c) + 1
         /\ DOMAIN Append(c, b) = 1..(Len(c) + 1)
         /\ \A k \in 1..Len(c) : Append(c, b)[k] = c[k]
         /\ Append(c, b)[Len(c) + 1] = b
         /\ Historic(Append(c, b))
         /\ RowsOf(Append(c, b)) = RowsOf(c) \cup {b}
<1> DEFINE d == Append(c, b)
           n == Len(c)
<1>1. n \in Nat \ {0} /\ DOMAIN c = 1..n /\ \A k \in 1..n : c[k] \in Blocks
  BY ChainOf
<1>2. /\ d \in Seq(Blocks) /\ Len(d) = n + 1
      /\ \A k \in 1..n : d[k] = c[k]
      /\ d[n + 1] = b
  BY <1>1, AppendProperties
<1>3. DOMAIN d = 1..(n + 1)
  BY <1>2, LenProperties
<1> HIDE DEF d
<1>4. Historic(d)
  <2>1. d[1] = FirstBlock
    <3>1. 1 \in 1..n
      BY <1>1
    <3> QED
      BY <1>2, <3>1 DEF Historic
  <2>2. ASSUME NEW m \in 1..(n + 1), NEW k \in 1..(m - 1) PROVE d[m].prev[k] = Content(d[k])
    <3>1. k \in 1..n /\ d[k] = c[k]
      BY <1>1, <1>2
    <3>2. CASE m \in 1..n
      BY <1>1, <1>2, <3>1, <3>2 DEF Historic
    <3>3. CASE m = n + 1
      <4>1. d[m].prev[k] = Hash(c[n])[k] /\ c[n] \in Blocks /\ Id(c[n]) = n /\ n \in DOMAIN c
        BY <1>1, <1>2, <3>3 DEF Numbered
      <4>2. CASE k = n
        BY <3>1, <4>1, <4>2, HashEntries
      <4>3. CASE k # n
        <5>1. Len(c[n].prev) = n - 1
          BY <1>1, <4>1, PrevLength
        <5>4. k \in 1..(n - 1)
          <6> HIDE DEF n
          <6> QED
            BY <1>1, <3>1, <4>3
        <5>2. k \in 1..(n - 1) /\ k \in 1..Len(c[n].prev)
          BY <5>1, <5>4
        <5>3. Hash(c[n])[k] = c[n].prev[k] /\ c[n].prev[k] = Content(c[k])
          BY <4>1, <5>2, HashEntries DEF Historic
        <5> QED
          BY <3>1, <4>1, <5>3
      <4> QED
        BY <4>2, <4>3
    <3> QED
      BY <1>1, <3>2, <3>3
  <2> QED
    BY <1>3, <2>1, <2>2 DEF Historic
<1>5. RowsOf(d) = RowsOf(c) \cup {b}
  <2>1. \A k \in 1..(n + 1) : k \in 1..n \/ k = n + 1
    BY <1>1
  <2>2. 1..n \subseteq 1..(n + 1) /\ n + 1 \in 1..(n + 1)
    BY <1>1
  <2> QED
    BY <1>1, <1>2, <1>3, <2>1, <2>2 DEF RowsOf
<1> QED
  BY <1>2, <1>3, <1>4, <1>5 DEF d

-----------------------------------------------------------------------------
(***************************************************************************)
(* The chains and the turns of the authors.                                *)
(***************************************************************************)

\* The chains, with what Inv says of them.
LEMMA Chains ==
  ASSUME Inv, HonestInv
  PROVE  /\ chain \in Seq(Blocks) /\ Numbered(chain) /\ Historic(chain)
         /\ Len(chain) \in Nat \ {0} /\ DOMAIN chain = 1..Len(chain)
         /\ Len(chain) <= MaxHeight /\ MaxHeight \in Nat /\ Ids = 1..MaxHeight
         /\ \A h \in Hosts :
              /\ hosts[h] \in Seq(Blocks) /\ Numbered(hosts[h]) /\ Historic(hosts[h])
              /\ ValidChain(hosts[h])
              /\ Len(hosts[h]) \in Nat \ {0} /\ DOMAIN hosts[h] = 1..Len(hosts[h])
<1>1. DataType
  BY DEF Inv
<1>2. chain \in Seq(Blocks) /\ Numbered(chain) /\ Historic(chain)
  BY DEF Inv, DataType, DataInv, RowsNumbered, HonestInv, ChainsInv
<1>3. ASSUME NEW h \in Hosts
      PROVE  /\ hosts[h] \in Seq(Blocks) /\ Numbered(hosts[h]) /\ Historic(hosts[h])
             /\ ValidChain(hosts[h])
             /\ Len(hosts[h]) \in Nat \ {0} /\ DOMAIN hosts[h] = 1..Len(hosts[h])
  <2>1. /\ hosts[h] \in Seq(Blocks) /\ Numbered(hosts[h]) /\ Historic(hosts[h])
        /\ ValidChain(hosts[h]) /\ Len(hosts[h]) \in Ids
    BY DEF Inv, EnvType, DataInv, RowsNumbered, HonestInv, ChainsInv
  <2> QED
    BY <2>1, ChainOf, ChainAssumption DEF Ids
<1> QED
  BY <1>1, <1>2, <1>3, ChainLength

\* Steps that show no new block.
LEMMA NothingNew ==
  ASSUME TurnsInv, Seen' \subseteq Seen, slot' = slot, turn' = turn
  PROVE  TurnsInv'
  BY DEF TurnsInv

\* A block made in the author's turn.
LEMMA NewBlock ==
  ASSUME Inv, TurnsInv, NEW a \in Authors, turn[a] < slot,
         NEW b \in Blocks, b.author = a, b.time = slot, NoDuplicates(b.txs),
         Seen' \subseteq Seen \cup {b}, slot' = slot, turn' = [turn EXCEPT ![a] = slot],
         \A d \in Seen : d \in Blocks
  PROVE  TurnsInv'
<1>1. slot \in Nat /\ turn \in [Authors -> 0..MaxSlot] /\ MaxSlot \in Nat
  BY ChainAssumption DEF Inv, EnvType
<1>2. \A e \in Authors : turn[e] \in Nat /\ turn[e] <= turn'[e] /\ turn'[e] <= slot
  BY <1>1 DEF TurnsInv
<1>3. turn'[a] = slot
  BY <1>1
<1>4. \A d \in Seen : d.author \in Authors /\ d.time \in Nat
  BY <1>1 DEF Blocks
<1>5. ASSUME NEW d \in Seen'
      PROVE  d.time <= turn'[d.author] /\ NoDuplicates(d.txs)
  <2>1. CASE d = b
    BY <1>1, <1>3, <2>1
  <2>2. CASE d \in Seen
    <3>1. d.time <= turn[d.author] /\ NoDuplicates(d.txs)
      BY <2>2 DEF TurnsInv
    <3> QED
      BY <1>1, <1>2, <1>4, <2>2, <3>1
  <2> QED
    BY <2>1, <2>2
<1>6. ASSUME NEW d \in Seen PROVE ~(d.author = a /\ d.time = slot)
  <2>1. d.time <= turn[d.author]
    BY DEF TurnsInv
  <2> QED
    BY <1>1, <1>2, <1>4, <2>1
<1>7. ASSUME NEW c \in Seen', NEW d \in Seen', c.author = d.author, c.time = d.time
      PROVE  c = d
  <2>1. c \in Seen \/ c = b
    OBVIOUS
  <2>2. d \in Seen \/ d = b
    OBVIOUS
  <2> QED
    BY <1>6, <1>7, <2>1, <2>2 DEF TurnsInv
<1>8. slot' >= 1 /\ \A e \in Authors : turn'[e] <= slot'
  BY <1>2 DEF TurnsInv
<1> QED
  BY <1>5, <1>7, <1>8 DEF TurnsInv

\* Every block that is seen is a block.
LEMMA SeenBlocks == ASSUME Inv PROVE \A b \in Seen : b \in Blocks
<1>1. /\ chain \in Seq(Blocks) /\ \A h \in Hosts : hosts[h] \in Seq(Blocks)
  BY DEF Inv, DataType, EnvType
<1>2. ASSUME NEW c \in Seq(Blocks) PROVE RowsOf(c) \subseteq Blocks
  BY ChainOf DEF RowsOf
<1> QED
  BY <1>1, <1>2 DEF Seen

-----------------------------------------------------------------------------
(***************************************************************************)
(* The environment.                                                        *)
(***************************************************************************)

\* The task under way is not disturbed when the chain of its host only grows.
LEMMA HostGrows ==
  ASSUME Inv, HonestInv, UNCHANGED <<chain, info, applied, pc, task, command>>,
         Working => /\ DOMAIN hosts[task.host] \subseteq DOMAIN hosts'[task.host]
                    /\ Len(hosts[task.host]) <= Len(hosts'[task.host])
                    /\ Len(hosts'[task.host]) \in Nat
                    /\ \A m \in DOMAIN hosts[task.host] : hosts'[task.host][m] = hosts[task.host][m]
  PROVE  ServedInv' /\ ForkInv' /\ FullInv'
<1>1. task.host \in Hosts /\ task.fork \in Seq(Blocks) /\ task.low \in Nat
  BY ChainAssumption DEF Inv, TaskType
<1>2. ServedInv'
  BY DEF HonestInv, ServedInv, Working
<1>3. pc = "fork" => ~CheckHash(Raw, HashBefore(Raw))'
  BY DEF HonestInv, ForkInv, CheckHash, Raw, HashBefore
<1>4. ASSUME pc = "undo"
      PROVE  /\ Len(chain) < Len(hosts'[task.host])
             /\ \A i \in DOMAIN task.fork : task.fork[i] = hosts'[task.host][task.low + i - 1]
             /\ \A m \in DOMAIN chain : m < task.low <=> hosts'[task.host][m] = chain[m]
  <2> DEFINE c == hosts[task.host]
             low == task.low
             n == Len(chain)
  <2>1. /\ low > 1 /\ Len(task.fork) = n - low + 1 /\ n < Len(c)
        /\ \A i \in DOMAIN task.fork : task.fork[i] = c[low + i - 1]
        /\ \A m \in DOMAIN chain : m < low <=> c[m] = chain[m]
    BY <1>4 DEF HonestInv, ForkInv
  <2>2. /\ DOMAIN c = 1..Len(c) /\ Len(c) \in Nat /\ n \in Nat /\ DOMAIN chain = 1..n
        /\ DOMAIN task.fork = 1..(n - low + 1) /\ low \in Nat
    BY <1>1, <2>1, Chains, LenProperties
  <2>3. /\ Len(c) <= Len(hosts'[task.host]) /\ Len(hosts'[task.host]) \in Nat
        /\ \A m \in DOMAIN c : hosts'[task.host][m] = c[m]
    BY <1>4 DEF Working
  <2> HIDE DEF c, low, n
  <2>4. \A i \in DOMAIN task.fork : low + i - 1 \in DOMAIN c
    BY <2>1, <2>2
  <2>5. \A m \in DOMAIN chain : m \in DOMAIN c
    BY <2>1, <2>2
  <2>6. n < Len(hosts'[task.host])
    BY <2>1, <2>2, <2>3
  <2>7. /\ \A i \in DOMAIN task.fork : task.fork[i] = hosts'[task.host][low + i - 1]
        /\ \A m \in DOMAIN chain : m < low <=> hosts'[task.host][m] = chain[m]
    BY <2>1, <2>3, <2>4, <2>5
  <2> QED
    BY <2>6, <2>7 DEF n, low
<1>5. ForkInv'
  BY <1>3, <1>4 DEF HonestInv, ForkInv
<1>6. FullInv'
  BY DEF HonestInv, FullInv
<1> QED
  BY <1>2, <1>5, <1>6

\* A host takes another chain; nothing is said yet of who made its blocks.
LEMMA HostTakes ==
  ASSUME Inv, HonestInv, NEW h \in Hosts, NEW c,
         hosts' = [hosts EXCEPT ![h] = c], UNCHANGED chain
  PROVE  /\ hosts'[h] = c /\ \A g \in Hosts : g # h => hosts'[g] = hosts[g]
         /\ Seen' \subseteq Seen \cup RowsOf(c)
         /\ Historic(c) /\ ValidChain(c) => ChainsInv'
<1>1. hosts'[h] = c /\ \A g \in Hosts : g # h => hosts'[g] = hosts[g]
  BY DEF Inv, EnvType
<1>2. Seen' \subseteq Seen \cup RowsOf(c)
  <2> SUFFICES ASSUME NEW b \in Seen' PROVE b \in Seen \cup RowsOf(c)
    OBVIOUS
  <2>1. CASE b \in RowsOf(chain)
    BY <2>1 DEF Seen
  <2>2. CASE \E g \in Hosts : b \in RowsOf(hosts'[g])
    BY <1>1, <2>2 DEF Seen
  <2>3. b \in RowsOf(chain)' \/ \E g \in Hosts : b \in RowsOf(hosts'[g])
    BY DEF Seen, RowsOf
  <2> QED
    BY <2>1, <2>2, <2>3 DEF RowsOf
<1>3. ASSUME Historic(c), ValidChain(c) PROVE ChainsInv'
  BY <1>1, <1>3 DEF HonestInv, ChainsInv, Historic
<1> QED
  BY <1>1, <1>2, <1>3

\* A host generates in its turn.
LEMMA HostGenerateHonest ==
  ASSUME Honest, Inv, HonestInv, NEW h \in Hosts, HostGenerate(h)
  PROVE  HonestInv'
<1> DEFINE c == hosts[h]
<1>1. /\ turn[h] < slot /\ turn' = [turn EXCEPT ![h] = slot]
      /\ UNCHANGED <<slot, chain, info, applied, pc, task, command>>
  BY DEF HostGenerate, MayGenerate, Honest, db
<1>2. PICK txs \in TxLists :
        LET b == [author |-> h, time |-> slot, txs |-> txs, prev |-> Hash(Last(c))]
        IN  /\ ValidChain(Append(c, b))
            /\ hosts' = [hosts EXCEPT ![h] = Append(@, b)]
  BY DEF HostGenerate
<1> DEFINE b == [author |-> h, time |-> slot, txs |-> txs, prev |-> Hash(Last(c))]
<1>3. c \in Seq(Blocks) /\ Numbered(c) /\ Historic(c) /\ Len(c) \in Nat \ {0}
      /\ DOMAIN c = 1..Len(c)
  BY Chains
<1>4. b \in Blocks /\ b.author = h /\ b.time = slot /\ b.txs = txs /\ b.prev = Hash(c[Len(c)])
  <2>1. c[Len(c)] \in Blocks
    BY <1>3, ChainOf
  <2>2. txs \in Seq(Txs) /\ h \in Authors /\ slot \in 0..MaxSlot
    BY ChainAssumption DEF Authors, Inv, EnvType
  <2>3. Hash(c[Len(c)]) \in Seq(Contents)
    BY <2>1, HashOfBlock
  <2> QED
    BY <2>2, <2>3 DEF Blocks, Last
<1> DEFINE d == Append(c, b)
<1>5. ValidChain(d) /\ hosts' = [hosts EXCEPT ![h] = d]
  BY <1>2
<1> HIDE DEF b
<1>6. /\ d \in Seq(Blocks) /\ Len(d) = Len(c) + 1 /\ DOMAIN d = 1..(Len(c) + 1)
      /\ \A k \in 1..Len(c) : d[k] = c[k]
      /\ Historic(d) /\ RowsOf(d) = RowsOf(c) \cup {b}
  BY <1>3, <1>4, ExtendHistory
<1> HIDE DEF d
<1>7. /\ hosts'[h] = d /\ \A g \in Hosts : g # h => hosts'[g] = hosts[g]
      /\ Seen' \subseteq Seen \cup RowsOf(d) /\ ChainsInv'
  BY <1>1, <1>5, <1>6, HostTakes
<1>8. TurnsInv'
  <2>1. RowsOf(c) \subseteq Seen
    BY DEF Seen
  <2>2. Seen' \subseteq Seen \cup {b}
    BY <1>6, <1>7, <2>1
  <2>3. NoDuplicates(txs) /\ h \in Authors /\ TurnsInv
    BY DEF Honest, Authors, HonestInv
  <2> QED
    BY <1>1, <1>4, <2>2, <2>3, NewBlock, SeenBlocks
<1>9. ServedInv' /\ ForkInv' /\ FullInv'
  <2>1. /\ 1..Len(c) \subseteq 1..(Len(c) + 1) /\ Len(c) <= Len(c) + 1 /\ Len(c) + 1 \in Nat
    BY <1>3
  <2>2. task.host \in Hosts
    BY DEF Inv, TaskType
  <2>3. /\ DOMAIN hosts[task.host] \subseteq DOMAIN hosts'[task.host]
        /\ Len(hosts[task.host]) <= Len(hosts'[task.host])
        /\ Len(hosts'[task.host]) \in Nat
        /\ \A m \in DOMAIN hosts[task.host] : hosts'[task.host][m] = hosts[task.host][m]
    <3>1. CASE task.host = h
      BY <1>3, <1>6, <1>7, <2>1, <3>1
    <3>2. CASE task.host # h
      <4>1. hosts'[task.host] = hosts[task.host] /\ Len(hosts[task.host]) \in Nat
        BY <1>7, <2>2, <3>2, Chains
      <4> QED
        BY <4>1
    <3> QED
      BY <3>1, <3>2
  <2> QED
    BY <1>1, <2>3, HostGrows
<1> QED
  BY <1>7, <1>8, <1>9 DEF HonestInv

\* A host that serves no update follows a longer chain.
LEMMA HostFollowHonest ==
  ASSUME Honest, Inv, HonestInv, NEW h \in Hosts, HostFollow(h)
  PROVE  HonestInv'
<1>1. /\ ~Serving(h)
      /\ UNCHANGED <<slot, turn, chain, info, applied, pc, task, command>>
  BY DEF HostFollow, Honest, db
<1>2. PICK c \in {chain} \cup { hosts[g] : g \in Hosts } :
        ValidChain(c) /\ hosts' = [hosts EXCEPT ![h] = c]
  BY DEF HostFollow
<1>3. Historic(c) /\ RowsOf(c) \subseteq Seen
  BY Chains DEF Seen
<1>4. /\ \A g \in Hosts : g # h => hosts'[g] = hosts[g]
      /\ Seen' \subseteq Seen \cup RowsOf(c) /\ ChainsInv'
  BY <1>1, <1>2, <1>3, HostTakes
<1>5. TurnsInv'
  <2>1. Seen' \subseteq Seen /\ TurnsInv
    BY <1>3, <1>4 DEF HonestInv
  <2> QED
    BY <1>1, <2>1, NothingNew
<1>6. ServedInv' /\ ForkInv' /\ FullInv'
  <2>1. Working => hosts'[task.host] = hosts[task.host] /\ Len(hosts[task.host]) \in Nat
    BY <1>1, <1>4, Chains DEF Serving, Working, Inv, TaskType
  <2> QED
    BY <1>1, <2>1, HostGrows
<1> QED
  BY <1>4, <1>5, <1>6 DEF HonestInv

\* The clock, and a host whose operator rolls it back.
LEMMA EnvironmentHonest ==
  ASSUME Honest, Inv, HonestInv, Environment
  PROVE  HonestInv'
<1>1. CASE Tick
  <2>1. /\ slot' = slot + 1 /\ slot \in Nat
        /\ UNCHANGED <<hosts, turn, chain, info, applied, pc, task, command>>
    BY <1>1, ChainAssumption DEF Tick, db, Inv, EnvType
  <2>2. TurnsInv'
    <3>1. Seen' = Seen
      BY <2>1 DEF Seen, RowsOf
    <3>2. \A a \in Authors : turn[a] \in Nat
      BY ChainAssumption DEF Inv, EnvType
    <3>3. slot' >= 1 /\ \A a \in Authors : turn'[a] <= slot'
      BY <2>1, <3>2 DEF HonestInv, TurnsInv
    <3> QED
      BY <2>1, <3>1, <3>3 DEF HonestInv, TurnsInv
  <2>3. ChainsInv'
    BY <2>1 DEF HonestInv, ChainsInv, Historic
  <2>4. ServedInv' /\ ForkInv' /\ FullInv'
    <3>1. Working => Len(hosts[task.host]) \in Nat
      BY Chains DEF Inv, TaskType
    <3> QED
      BY <2>1, <3>1, HostGrows
  <2> QED
    BY <2>2, <2>3, <2>4 DEF HonestInv
<1>2. ASSUME NEW h \in Hosts, HostRollback(h) PROVE HonestInv'
  BY <1>2 DEF HostRollback, Honest
<1> QED
  BY <1>1, <1>2, HostGenerateHonest, HostFollowHonest DEF Environment

-----------------------------------------------------------------------------
(***************************************************************************)
(* This node.                                                              *)
(***************************************************************************)

\* Steps of a daemon that change no chain.
LEMMA ChainsStill ==
  ASSUME HonestInv, UNCHANGED <<slot, hosts, turn, chain>>
  PROVE  ChainsInv' /\ TurnsInv'
<1>1. Seen' = Seen
  BY DEF Seen, RowsOf
<1> QED
  BY <1>1 DEF HonestInv, ChainsInv, TurnsInv, Historic

\* Steps of a daemon that change no table, and after which no fork is under way.
LEMMA TableStill ==
  ASSUME HonestInv, UNCHANGED <<slot, hosts, turn, chain, info, applied, command>>,
         pc \in {"idle", "wait", "request", "play", "insert", "fork"},
         pc' \in {"idle", "wait", "request", "hung"}
  PROVE  HonestInv'
<1>1. ServedInv' /\ ForkInv'
  BY DEF ServedInv, ForkInv, Working
<1>2. FullInv'
  BY DEF HonestInv, FullInv
<1> QED
  BY <1>1, <1>2, ChainsStill DEF HonestInv

\* PlaySafe of the block after our last one.
LEMMA PlaySafeHonest ==
  ASSUME Inv, HonestInv, pc # "undo",
         NEW b \in Blocks, Id(b) = Len(chain) + 1, Id(b) \in Ids,
         CheckHash(b, Hash(chain[Len(chain)])), PlaySafe(b)
  PROVE  /\ Historic(chain') /\ RowsOf(chain)' = RowsOf(chain) \cup {b}
         /\ \A k \in DOMAIN chain' : applied'[k] = Effective(chain'[k])
<1> DEFINE n == Len(chain)
<1>1. /\ chain \in Seq(Blocks) /\ Numbered(chain) /\ Historic(chain)
      /\ n \in Nat \ {0} /\ DOMAIN chain = 1..n /\ Ids = 1..MaxHeight /\ n <= MaxHeight
      /\ MaxHeight \in Nat
  BY Chains
<1>2. Id(b) \notin DOMAIN chain
  BY <1>1
<1>3. chain' = Append(chain, b)
  BY <1>2 DEF PlaySafe, Inserted
<1>4. /\ DOMAIN chain' = 1..(n + 1) /\ Historic(chain')
      /\ \A k \in 1..n : chain'[k] = chain[k]
      /\ chain'[n + 1] = b
      /\ RowsOf(Append(chain, b)) = RowsOf(chain) \cup {b}
  BY <1>1, <1>3, ExtendHistory DEF CheckHash
<1>5. applied \in [Ids -> SUBSET Txs] /\ applied' = [applied EXCEPT ![Id(b)] = @ \cup Effective(b)]
  BY DEF Inv, DataType, PlaySafe, Played
<1>6. applied[Id(b)] = {}
  BY <1>2 DEF Inv, DataInv, AppliedInChain
<1>7. ASSUME NEW k \in 1..(n + 1) PROVE applied'[k] = Effective(chain'[k])
  <2>1. CASE k = n + 1
    BY <1>4, <1>5, <1>6, <2>1
  <2>2. CASE k \in 1..n
    <3>1. k # Id(b) /\ k \in Ids
      BY <1>1, <2>2
    <3> QED
      BY <1>1, <1>4, <1>5, <2>2, <3>1 DEF HonestInv, FullInv
  <2> QED
    BY <1>1, <2>1, <2>2
<1> QED
  BY <1>3, <1>4, <1>7 DEF RowsOf

\* BlockGenerator.
LEMMA GenerateHonest ==
  ASSUME Honest, Inv, HonestInv, Generate PROVE HonestInv'
<1>1. /\ pc \in {"idle", "wait"} /\ info.id < MaxHeight /\ info.id \in DOMAIN chain
      /\ turn[Me] < slot /\ turn' = [turn EXCEPT ![Me] = slot]
      /\ UNCHANGED <<slot, hosts, pc, task, command>>
  BY DEF Generate, MayGenerate, Honest
<1>2. PICK txs \in TxLists :
        LET b == [author |-> Me, time |-> slot, txs |-> txs, prev |-> info.hash]
        IN  Check(b, Hash(chain[info.id])) /\ PlaySafe(b)
  BY DEF Generate
<1> DEFINE b == [author |-> Me, time |-> slot, txs |-> txs, prev |-> info.hash]
<1>3. info.id = Len(chain) /\ info.hash = Hash(chain[Len(chain)])
  BY DEF HonestInv, FullInv, Inv, DataInv, InfoIsTop, Last
<1>4. chain[Len(chain)] \in Blocks /\ Id(chain[Len(chain)]) = Len(chain)
  <2>1. Len(chain) \in DOMAIN chain
    BY Chains
  <2> QED
    BY <2>1, Chains, ChainOf DEF Numbered
<1>5. /\ b \in Blocks /\ b.author = Me /\ b.time = slot /\ b.txs = txs
      /\ b.prev = Hash(chain[Len(chain)])
  <2>1. Hash(chain[Len(chain)]) \in Seq(Contents)
    BY <1>4, HashOfBlock
  <2>2. txs \in Seq(Txs) /\ Me \in Authors /\ slot \in 0..MaxSlot
    BY ChainAssumption DEF Authors, Inv, EnvType
  <2> QED
    BY <1>3, <2>1, <2>2 DEF Blocks
<1>6. PlaySafe(b)
  BY <1>2
<1> HIDE DEF b
<1>7. Id(b) = Len(chain) + 1 /\ Id(b) \in Ids
  <2>1. Len(b.prev) = Len(chain)
    BY <1>4, <1>5, HashOfBlock
  <2> QED
    BY <1>1, <1>3, <2>1, Chains DEF Id
<1>8. /\ Historic(chain') /\ RowsOf(chain)' = RowsOf(chain) \cup {b}
      /\ \A k \in DOMAIN chain' : applied'[k] = Effective(chain'[k])
  BY <1>1, <1>5, <1>6, <1>7, PlaySafeHonest DEF CheckHash
<1>9. ChainsInv'
  BY <1>1, <1>8, Chains DEF ChainsInv, Historic
<1>10. TurnsInv'
  <2>1. Seen' \subseteq Seen \cup {b}
    BY <1>1, <1>8 DEF Seen, RowsOf
  <2>2. NoDuplicates(b.txs) /\ Me \in Authors /\ TurnsInv
    BY <1>5 DEF Honest, Authors, HonestInv
  <2> QED
    BY <1>1, <1>5, <2>1, <2>2, NewBlock, SeenBlocks
<1>11. ServedInv' /\ ForkInv'
  BY <1>1 DEF ServedInv, ForkInv, Working
<1>12. FullInv'
  BY <1>1, <1>8 DEF HonestInv, FullInv
<1> QED
  BY <1>9, <1>10, <1>11, <1>12 DEF HonestInv

\* The block being played is the next one of the host's chain.
LEMMA RawIsServed ==
  ASSUME Inv, HonestInv, Working, task.stream # << >>
  PROVE  /\ Raw \in Blocks /\ task.host \in Hosts
         /\ Id(Raw) \in 1..Len(hosts[task.host]) /\ Raw = hosts[task.host][Id(Raw)]
<1>1. Raw \in Blocks /\ Raw = task.stream[1] /\ 1 \in DOMAIN task.stream
  BY RawFacts
<1>2. task.host \in Hosts
  BY DEF Inv, TaskType
<1> QED
  BY <1>1, <1>2, Chains DEF HonestInv, ServedInv

\* A request is answered out of the chain of the host.
LEMMA RequestHonest ==
  ASSUME Honest, Inv, HonestInv, Request PROVE HonestInv'
<1> DEFINE c == hosts[task.host]
           from == task.next
           to == IF Len(c) < from + BlocksPerRequest
                 THEN Len(c) ELSE from + BlocksPerRequest - 1
           answer == SubSeq(c, from, to)
<1>1. /\ UNCHANGED <<slot, hosts, turn, chain, info, applied, command>>
      /\ pc' = "play" /\ pc = "request"
  BY DEF Request, env, db
<1>2. task' = [task EXCEPT !.stream = SubSeq(answer, 1, Len(answer))]
  BY DEF Request, Answer, Honest
<1>3. /\ task \in [host : Hosts, target : 0..MaxHeight, next : Nat, stream : Seq(Blocks),
                   fork : Seq(Blocks), low : 0..MaxHeight, undo : 0..MaxHeight]
  BY DEF Inv, TaskType
<1>4. c \in Seq(Blocks) /\ Numbered(c) /\ Len(c) \in Nat /\ DOMAIN c = 1..Len(c)
  BY <1>3, Chains
<1>5. from \in Nat \ {0}
  <2>1. info.id \in Nat /\ from \in Nat /\ from > info.id
    BY <1>1, <1>3, ChainLength DEF Inv, TaskInv, StreamAhead
  <2> QED
    BY <2>1
<1>6. to \in Nat /\ to <= Len(c)
  BY <1>4, <1>5, ChainAssumption
<1> HIDE DEF c, from, to
<1>7. /\ answer \in Seq(Blocks) /\ DOMAIN answer = 1..Len(answer)
      /\ \A i \in DOMAIN answer : /\ answer[i] = c[from + i - 1]
                                  /\ Id(answer[i]) = from + i - 1 /\ from + i - 1 <= to
  BY <1>4, <1>5, <1>6, PartOfChain
<1> HIDE DEF answer
<1>8. Len(answer) \in Nat
  BY <1>7, LenProperties
<1> DEFINE s == SubSeq(answer, 1, Len(answer))
<1>9. s = answer
  <2>1. s = [i \in 1..Len(answer) |-> answer[i]]
    BY <1>7, <1>8
  <2> QED
    BY <1>7, <2>1
<1>10. task'.stream = answer /\ task'.host = task.host
  BY <1>2, <1>3, <1>9
<1>11. \A i \in DOMAIN answer : from + i - 1 \in DOMAIN c
  BY <1>4, <1>5, <1>6, <1>7, <1>8
<1>12. ServedInv'
  BY <1>1, <1>7, <1>10, <1>11 DEF ServedInv, c
<1>13. ForkInv' /\ FullInv'
  BY <1>1 DEF HonestInv, ForkInv, FullInv
<1> QED
  BY <1>1, <1>12, <1>13, ChainsStill DEF HonestInv

\* playRawBlock up to the comparison, and the ends of requests.
LEMMA PlayRawHonest ==
  ASSUME Honest, Inv, HonestInv, PlayRaw PROVE HonestInv'
<1>1. /\ UNCHANGED <<slot, hosts, turn, chain, info, applied, command>> /\ pc = "play"
  BY DEF PlayRaw, env, db
<1>2. CASE Release
  BY <1>1, <1>2, TableStill DEF Release
<1>3. CASE /\ pc' = IF CheckHash(Raw, HashBefore(Raw)) THEN "insert" ELSE "fork"
           /\ UNCHANGED task
  <2>1. ServedInv'
    BY <1>1, <1>3 DEF HonestInv, ServedInv, Working
  <2>2. ForkInv'
    BY <1>1, <1>3 DEF ForkInv, CheckHash, HashBefore, Raw
  <2>3. FullInv'
    BY <1>1, <1>3 DEF HonestInv, FullInv
  <2> QED
    BY <1>1, <2>1, <2>2, <2>3, ChainsStill DEF HonestInv
<1> QED
  BY <1>2, <1>3 DEF PlayRaw

\* The end of playRawBlock.
LEMMA InsertRawHonest ==
  ASSUME Honest, Inv, HonestInv, InsertRaw PROVE HonestInv'
<1>1. /\ UNCHANGED <<slot, hosts, turn, command>> /\ pc = "insert"
  BY DEF InsertRaw, env
<1>2. CASE Release /\ UNCHANGED db
  BY <1>1, <1>2, TableStill DEF Release, db
<1>3. CASE /\ Check(Raw, HashBefore(Raw)) /\ PlaySafe(Raw) /\ pc' = "play"
           /\ task' = [task EXCEPT !.stream = Tail(@), !.fork = << >>, !.low = 0, !.undo = 0]
  <2>1. task.stream # << >> /\ Id(Raw) = Len(chain) + 1 /\ Len(chain) \in Nat
    BY <1>1, Chains DEF Inv, TaskInv, RawIsNext, WithRaw
  <2>2. /\ Raw \in Blocks /\ task.host \in Hosts /\ Id(Raw) \in Ids
        /\ Id(Raw) \in 1..Len(hosts[task.host]) /\ Raw = hosts[task.host][Id(Raw)]
    BY <1>1, <2>1, RawIsServed, RawFacts DEF Working
  <2>3. CheckHash(Raw, Hash(chain[Len(chain)]))
    <3>1. Id(Raw) - 1 = Len(chain)
      BY <2>1
    <3> QED
      BY <1>3, <3>1 DEF Check, HashBefore
  <2>4. /\ Historic(chain') /\ RowsOf(chain)' = RowsOf(chain) \cup {Raw}
        /\ \A k \in DOMAIN chain' : applied'[k] = Effective(chain'[k])
    BY <1>1, <1>3, <2>1, <2>2, <2>3, PlaySafeHonest
  <2>5. Raw \in Seen
    BY <2>2, Chains DEF Seen, RowsOf
  <2>6. ChainsInv'
    BY <1>1, <2>4, Chains DEF ChainsInv, Historic
  <2>7. TurnsInv'
    <3>1. Seen' \subseteq Seen
      BY <1>1, <2>4, <2>5 DEF Seen, RowsOf
    <3> QED
      BY <1>1, <3>1, NothingNew DEF HonestInv
  <2>8. ServedInv'
    <3>1. task'.stream = Tail(task.stream) /\ task'.host = task.host
      BY <1>3 DEF Inv, TaskType
    <3>2. /\ task.stream \in Seq(Blocks) /\ Len(task.stream) \in Nat
          /\ DOMAIN task.stream = 1..Len(task.stream)
      BY ChainOf DEF Inv, TaskType
    <3>3. /\ DOMAIN Tail(task.stream) = 1..(Len(task.stream) - 1)
          /\ \A i \in 1..(Len(task.stream) - 1) : Tail(task.stream)[i] = task.stream[i + 1]
      BY <2>1, <3>2
    <3>4. \A i \in 1..(Len(task.stream) - 1) : i + 1 \in DOMAIN task.stream
      BY <3>2
    <3> QED
      BY <1>1, <1>3, <3>1, <3>3, <3>4 DEF HonestInv, ServedInv, Working
  <2>9. ForkInv' /\ FullInv'
    BY <1>1, <1>3, <2>4 DEF HonestInv, ForkInv, FullInv
  <2> QED
    BY <2>6, <2>7, <2>8, <2>9 DEF HonestInv
<1> QED
  BY <1>2, <1>3 DEF InsertRaw

-----------------------------------------------------------------------------
(***************************************************************************)
(* The fork.                                                               *)
(***************************************************************************)

\* The order of the natural numbers is well founded.
LEMMA LessThanWellFounded == IsWellFoundedOn({ p \in Nat \X Nat : p[1] < p[2] }, Nat)
<1>1. OpToRel(<, Nat) = { p \in Nat \X Nat : p[1] < p[2] }
  BY Zenon DEF OpToRel
<1> QED
  BY <1>1, NatLessThanWellFounded, Zenon

\* A set of numbers up to n has a greatest one.
LEMMA Greatest ==
  ASSUME NEW n \in Nat, NEW S \in SUBSET (0..n), S # {}
  PROVE  \E k \in S : \A j \in S : j <= k
<1> DEFINE R == { p \in Nat \X Nat : p[1] < p[2] }
           T == { i \in 0..n : n - i \in S }
<1>1. T \subseteq Nat
  OBVIOUS
<1>2. T # {}
  <2>1. PICK k \in S : TRUE
    OBVIOUS
  <2>2. n - k \in 0..n /\ n - (n - k) = k
    OBVIOUS
  <2> QED
    BY <2>1, <2>2
<1>3. IsWellFoundedOn(R, Nat)
  BY LessThanWellFounded
<1> HIDE DEF R, T
<1>4. PICK i \in T : \A y \in T : ~(<<y, i>> \in R)
  BY <1>1, <1>2, <1>3, WFMin
<1>5. i \in 0..n /\ n - i \in S
  BY <1>4 DEF T
<1>6. ASSUME NEW j \in S PROVE j <= n - i
  <2>1. j \in 0..n /\ n - j \in 0..n /\ n - (n - j) = j
    OBVIOUS
  <2>2. n - j \in T
    BY <2>1 DEF T
  <2>3. ~(<<n - j, i>> \in R)
    BY <1>4, <2>2
  <2>4. ~(n - j < i)
    BY <1>5, <2>1, <2>3 DEF R
  <2> QED
    BY <1>5, <2>1, <2>4
<1> QED
  BY <1>5, <1>6

\* getBlocks stops at some block: at the second at the latest.
LEMMA LowestStops ==
  ASSUME NEW c, NEW top \in Nat, top >= 2
  PROVE  LET k == Lowest(c, top)
         IN  /\ k \in 2..top /\ StopsAt(c, top, k)
             /\ \A j \in (k + 1)..top : ~StopsAt(c, top, j)
<1> DEFINE S == { k \in 2..top : StopsAt(c, top, k) }
<1>1. 2 \in S
  BY DEF StopsAt
<1>2. S \in SUBSET (0..top) /\ S # {}
  BY <1>1
<1> HIDE DEF S
<1>3. PICK k \in S : \A j \in S : j <= k
  BY <1>2, Greatest
<1>4. k \in 2..top /\ StopsAt(c, top, k)
  BY <1>3 DEF S
<1>5. ASSUME NEW j \in (k + 1)..top PROVE ~StopsAt(c, top, j)
  <2>1. j \in 2..top /\ ~(j <= k)
    BY <1>4
  <2> QED
    BY <1>3, <2>1 DEF S
<1>6. \E m \in 2..top : StopsAt(c, top, m) /\ \A j \in (m + 1)..top : ~StopsAt(c, top, j)
  BY <1>4, <1>5
<1> QED
  BY <1>6 DEF Lowest

\* The lowest block of the list of a shallow fork is built on a block of ours, and
\* no block above it is.
LEMMA ForkPoint ==
  ASSUME Inv, HonestInv, ShallowForks, pc = "fork"
  PROVE  LET c == hosts[task.host]
             low == Lowest(c, Len(chain))
         IN  /\ Id(Raw) = Len(chain) + 1 /\ Len(chain) >= 2 /\ Len(chain) < Len(c)
             /\ low \in 2..Len(chain)
             /\ c[low].prev = Hash(chain[low - 1])
             /\ \A j \in (low + 1)..(Len(chain) + 1) : c[j].prev # Hash(chain[j - 1])
<1> DEFINE c == hosts[task.host]
           n == Len(chain)
           low == Lowest(c, n)
<1>1. task.stream # << >> /\ Id(Raw) = n + 1
  BY DEF Inv, TaskInv, RawIsNext, WithRaw
<1>2. /\ task.host \in Hosts /\ n + 1 \in 1..Len(c) /\ Raw = c[n + 1]
  BY <1>1, RawIsServed DEF Working
<1>3. /\ c \in Seq(Blocks) /\ Numbered(c) /\ Len(c) \in Nat /\ DOMAIN c = 1..Len(c)
      /\ n \in Nat \ {0}
  BY <1>2, Chains
<1>4. \A k \in 2..(n + 1) : HashBefore(c[k]) = Hash(chain[k - 1])
  BY <1>2, <1>3 DEF HashBefore, Numbered
<1>5. PICK k \in 2..n : /\ CheckHash(c[k], HashBefore(c[k]))
                        /\ n - k <= RollbackBlocks /\ n - k < BlocksPerRequest
  BY DEF ShallowForks
<1>6. n >= 2 /\ n < Len(c)
  BY <1>2, <1>3, <1>5
<1>7. /\ low \in 2..n /\ StopsAt(c, n, low)
      /\ \A j \in (low + 1)..n : ~StopsAt(c, n, j)
  BY <1>3, <1>6, LowestStops
<1> HIDE DEF low, c, n
<1>8. StopsAt(c, n, k) /\ RollbackBlocks \in Nat /\ BlocksPerRequest \in Nat
  BY <1>5, ChainAssumption DEF StopsAt
<1>9. k <= low
  BY <1>3, <1>5, <1>7, <1>8
<1>10. CheckHash(c[low], HashBefore(c[low]))
  <2>1. CASE k = low
    BY <1>5, <2>1
  <2>2. CASE k < low
    <3>1. n - low + 1 < RollbackBlocks + 1 /\ n - low + 1 < BlocksPerRequest /\ low # 2
      BY <1>3, <1>5, <1>7, <1>8, <2>2
    <3> QED
      BY <1>7, <1>8, <3>1 DEF StopsAt
  <2> QED
    BY <1>5, <1>7, <1>9, <2>1, <2>2
<1>11. c[low].prev = Hash(chain[low - 1])
  BY <1>3, <1>4, <1>7, <1>10 DEF CheckHash
<1>12. ASSUME NEW j \in (low + 1)..(n + 1) PROVE c[j].prev # Hash(chain[j - 1])
  <2>1. j \in 2..(n + 1)
    BY <1>3, <1>7
  <2>2. CASE j = n + 1
    <3>1. ~CheckHash(Raw, HashBefore(Raw))
      BY DEF HonestInv, ForkInv
    <3> QED
      BY <1>2, <1>4, <2>1, <2>2, <3>1 DEF CheckHash
  <2>3. CASE j # n + 1
    <3>1. j \in (low + 1)..n
      BY <1>3, <1>7, <2>3
    <3> QED
      BY <1>4, <1>7, <2>1, <3>1 DEF StopsAt, CheckHash
  <2> QED
    BY <2>2, <2>3
<1> QED
  BY <1>1, <1>6, <1>7, <1>11, <1>12 DEF c, n, low

\* The list is the part of the host's chain in which it differs from ours.
LEMMA FetchForkHonest ==
  ASSUME Honest, Inv, HonestInv, ShallowForks, FetchFork PROVE HonestInv'
<1> DEFINE c == hosts[task.host]
           n == Len(chain)
           low == Lowest(c, n)
           f == SubSeq(c, low, n)
<1>1. UNCHANGED <<slot, hosts, turn, chain, info, applied, command>> /\ pc = "fork"
  BY DEF FetchFork, env, db
<1>2. /\ Id(Raw) = n + 1 /\ n >= 2 /\ n < Len(c) /\ low \in 2..n
      /\ c[low].prev = Hash(chain[low - 1])
      /\ \A j \in (low + 1)..(n + 1) : c[j].prev # Hash(chain[j - 1])
  BY <1>1, ForkPoint
<1>3. task \in [host : Hosts, target : 0..MaxHeight, next : Nat, stream : Seq(Blocks),
                fork : Seq(Blocks), low : 0..MaxHeight, undo : 0..MaxHeight]
  BY DEF Inv, TaskType
<1>4. /\ c \in Seq(Blocks) /\ Numbered(c) /\ Historic(c) /\ Len(c) \in Nat /\ DOMAIN c = 1..Len(c)
      /\ chain \in Seq(Blocks) /\ Numbered(chain) /\ Historic(chain)
      /\ n \in Nat /\ DOMAIN chain = 1..n
  BY <1>3, Chains
<1>5. Id(Raw) - 1 = n
  BY <1>2, <1>4
<1>6. Received(c, n) = {low}
  <2>1. ASSUME NEW k PROVE k \in Received(c, n) <=> k = low
    BY <1>2, <1>4 DEF Received, Honest
  <2> QED
    BY <2>1
<1>7. pc' = "undo" /\ task' = [task EXCEPT !.fork = f, !.low = low, !.undo = n]
  <2>1. ~(Len(c) < n) /\ ~(low > n)
    BY <1>2, <1>4
  <2> QED
    BY <1>5, <1>6, <2>1 DEF FetchFork
<1> HIDE DEF c, n, low
<1>8. /\ DOMAIN f = 1..Len(f) /\ Len(f) = n - low + 1
      /\ \A i \in DOMAIN f : f[i] = c[low + i - 1]
  <2>1. low \in Nat \ {0} /\ n <= Len(c) /\ low <= n
    BY <1>2, <1>4
  <2> QED
    BY <1>4, <2>1, PartOfChain
<1> HIDE DEF f
<1>9. /\ task'.fork = f /\ task'.low = low /\ task'.undo = n
      /\ task'.stream = task.stream /\ task'.host = task.host
  BY <1>3, <1>7
<1>10. ASSUME NEW m \in 1..n PROVE m < low <=> c[m] = chain[m]
  <2>1. CASE m < low
    <3>1. low - 1 \in 1..n /\ (low - 1) + 1 = low /\ low \in 1..Len(c) /\ m \in 1..(low - 1)
      BY <1>2, <1>4, <2>1
    <3>2. \A k \in 1..(low - 1) : c[k] = chain[k]
      <4> DEFINE p == low - 1
      <4>1. p \in 1..Len(chain) /\ p + 1 \in 1..Len(c) /\ c[p + 1].prev = Hash(chain[p])
        BY <1>2, <3>1 DEF n
      <4> HIDE DEF p
      <4>2. \A k \in 1..p : c[k] = chain[k]
        BY <1>4, <4>1, SameHistory
      <4> QED
        BY <4>2 DEF p
    <3> QED
      BY <2>1, <3>1, <3>2
  <2>2. CASE ~(m < low)
    <3>1. m + 1 \in (low + 1)..(n + 1) /\ m + 1 \in 1..Len(c) /\ m + 1 > 1 /\ (m + 1) - 1 = m
      BY <1>2, <1>4, <2>2
    <3>2. c[m + 1].prev = Hash(c[m])
      BY <1>4, <3>1, Joins
    <3>3. c[m + 1].prev # Hash(chain[m])
      BY <1>2, <3>1
    <3> QED
      BY <2>2, <3>2, <3>3
  <2> QED
    BY <2>1, <2>2
<1>11. ServedInv'
  BY <1>1, <1>7, <1>9 DEF HonestInv, ServedInv, Working
<1>12. ForkInv'
  <2>1. low > 1
    BY <1>2, <1>4
  <2>2. n < Len(hosts'[task.host]) /\ hosts'[task.host] = c /\ n = Len(chain')
    BY <1>1, <1>2 DEF c, n
  <2> QED
    BY <1>1, <1>4, <1>7, <1>8, <1>9, <1>10, <2>1, <2>2 DEF ForkInv
<1>13. FullInv'
  BY <1>1, <1>4, <1>7, <1>9 DEF HonestInv, FullInv
<1> QED
  BY <1>1, <1>11, <1>12, <1>13, ChainsStill DEF HonestInv

\* Our newest block in effect is undone, and nothing below it.
LEMMA UndoBlockHonest ==
  ASSUME Honest, Inv, HonestInv, UndoBlock PROVE HonestInv'
<1>1. /\ UNCHANGED <<slot, hosts, turn, chain, info, pc, command>> /\ pc = "undo"
      /\ task' = [task EXCEPT !.undo = task.undo - 1]
  BY DEF UndoBlock, env
<1>2. /\ task.undo \in Ids
      /\ \A k \in Ids : k < task.undo => applied'[k] = applied[k]
  BY UndoBlockKeeps
<1>3. /\ task'.undo = task.undo - 1 /\ task'.fork = task.fork /\ task'.low = task.low
      /\ task'.stream = task.stream /\ task'.host = task.host
  BY <1>1 DEF Inv, TaskType
<1>4. ServedInv'
  BY <1>1, <1>3 DEF HonestInv, ServedInv, Working
<1>5. ForkInv'
  BY <1>1, <1>3 DEF HonestInv, ForkInv
<1>6. FullInv'
  <2>1. ASSUME NEW k \in DOMAIN chain, k <= task.undo - 1 PROVE applied'[k] = Effective(chain[k])
    <3>1. k \in Ids /\ k < task.undo /\ k <= task.undo
      <4> DEFINE u == task.undo
      <4>1. u \in 1..MaxHeight /\ k \in 1..Len(chain) /\ Len(chain) \in Nat
            /\ Len(chain) <= MaxHeight /\ MaxHeight \in Nat /\ k <= u - 1
        BY <1>2, <2>1, Chains
      <4> HIDE DEF u
      <4>2. k \in 1..MaxHeight /\ k < u /\ k <= u
        BY <4>1
      <4> QED
        BY <4>2, Chains DEF u
    <3> QED
      BY <1>1, <1>2, <3>1 DEF HonestInv, FullInv
  <2> QED
    BY <1>1, <1>3, <2>1 DEF HonestInv, FullInv
<1> QED
  BY <1>1, <1>4, <1>5, <1>6, ChainsStill DEF HonestInv

\* The list of a fork passes every check of processBlocks.
LEMMA ForkIsAccepted ==
  ASSUME Honest, Inv, HonestInv, pc = "undo", task.undo < task.low
  PROVE  ForkAccepted(task.fork)
<1> DEFINE c == hosts[task.host]
           n == Len(chain)
           low == task.low
           f == task.fork
<1>1. /\ low > 1 /\ Len(f) = n - low + 1 /\ n < Len(c)
      /\ \A i \in DOMAIN f : f[i] = c[low + i - 1]
      /\ \A m \in DOMAIN chain : m < low <=> c[m] = chain[m]
  BY DEF HonestInv, ForkInv
<1>2. task.host \in Hosts /\ f \in Seq(Blocks) /\ low \in 1..n /\ task.undo \in Nat
  BY DEF Inv, TaskType, TaskInv, ForkFits
<1>3. /\ c \in Seq(Blocks) /\ Numbered(c) /\ Historic(c) /\ ValidChain(c)
      /\ Len(c) \in Nat /\ DOMAIN c = 1..Len(c)
      /\ chain \in Seq(Blocks) /\ Numbered(chain)
      /\ n \in Nat /\ DOMAIN chain = 1..n /\ n <= MaxHeight /\ MaxHeight \in Nat /\ Ids = 1..MaxHeight
  BY <1>2, Chains
<1>4. DOMAIN f = 1..(n - low + 1)
  BY <1>1, <1>2, LenProperties
<1>5. \A m \in Ids : m >= low => applied[m] = {}
  <2>1. \A m \in Ids : m > task.undo => applied[m] = {}
    BY DEF Inv, TaskInv, ForkFits
  <2>2. \A m \in Ids : m >= low => m > task.undo
    BY <1>2, <1>3
  <2> QED
    BY <2>1, <2>2
<1>6. \A m \in Ids : applied[m] \subseteq (IF m \in DOMAIN chain THEN Effective(chain[m]) ELSE {})
  BY DEF Inv, DataInv, AppliedInChain
<1>12. RowsOf(c) \subseteq Seen /\ RowsOf(chain) \subseteq Seen
  BY <1>2 DEF Seen
<1>13. TurnsInv /\ Inv
  BY DEF HonestInv
<1> HIDE DEF c, n, low, f
<1>7. ASSUME NEW i \in DOMAIN f
      PROVE  /\ low + i - 1 \in low..n /\ low + i - 1 \in DOMAIN c /\ low + i - 1 \in DOMAIN chain
             /\ low + i - 1 >= low /\ f[i] = c[low + i - 1] /\ f[i] \in Blocks
             /\ Id(f[i]) = low + i - 1
  <2>1. /\ low + i - 1 \in low..n /\ low + i - 1 \in 1..Len(c) /\ low + i - 1 \in 1..n
        /\ low + i - 1 >= low
    BY <1>1, <1>2, <1>3, <1>4
  <2> QED
    BY <1>1, <1>3, <2>1, ChainOf DEF Numbered
<1>8. ASSUME NEW i \in DOMAIN f
      PROVE  Check(f[i], IF i = 1 THEN HashBefore(f[1]) ELSE Hash(f[i - 1]))
  <2> DEFINE k == low + i - 1
             b == f[i]
  <2>1. /\ k \in low..n /\ k \in DOMAIN c /\ k \in DOMAIN chain /\ b = c[k] /\ b \in Blocks /\ Id(b) = k
        /\ k >= low
    BY <1>7
  <2>2. b \in Seen
    BY <1>12, <2>1 DEF RowsOf
  <2>3. b.time <= slot
    <3>1. b.time <= turn[b.author] /\ turn[b.author] <= slot
      BY <1>13, <2>1, <2>2 DEF TurnsInv, Blocks
    <3>2. b.time \in Nat /\ turn[b.author] \in Nat /\ slot \in Nat
      BY <1>13, <2>1, ChainAssumption DEF Blocks, Inv, EnvType
    <3> QED
      BY <3>1, <3>2
  <2>4. NoDuplicates(b.txs)
    BY <1>13, <2>2 DEF TurnsInv
  <2>5. ~BlockForTimeExists(b, chain)
    <3> SUFFICES ASSUME NEW j \in DOMAIN chain, chain[j].author = b.author, chain[j].time = b.time
                 PROVE  FALSE
      BY DEF BlockForTimeExists
    <3>1. chain[j] \in Seen
      BY <1>12 DEF RowsOf
    <3>2. chain[j] = b
      BY <1>13, <2>2, <3>1 DEF TurnsInv
    <3>3. j = k
      BY <1>3, <2>1, <3>2 DEF Numbered
    <3>4. ~(k < low)
      BY <1>2, <1>3, <2>1
    <3> QED
      BY <1>1, <2>1, <3>2, <3>3, <3>4
  <2>6. CheckLogTx(b, applied)
    <3>1. ASSUME NEW m \in Ids PROVE TxSet(b) \cap applied[m] = {}
      <4>1. CASE m >= low
        BY <1>5, <4>1
      <4>2. CASE ~(m >= low)
        <5>1. m \in DOMAIN chain /\ m < low /\ m \in DOMAIN c /\ m # k
          BY <1>1, <1>2, <1>3, <2>1, <4>2
        <5>2. applied[m] \subseteq Effective(c[m])
          BY <1>1, <1>6, <5>1
        <5>3. Effective(c[m]) \cap Effective(c[k]) = {}
          BY <1>3, <2>1, <5>1 DEF ValidChain
        <5> QED
          BY <2>1, <5>2, <5>3 DEF Effective
      <4> QED
        BY <4>1, <4>2
    <3> QED
      BY <3>1 DEF CheckLogTx, Logged
  <2>7. CheckHash(b, IF i = 1 THEN HashBefore(f[1]) ELSE Hash(f[i - 1]))
    <3>1. b.prev = Hash(c[k - 1])
      <4>1. k \in 1..Len(c) /\ k > 1
        BY <1>1, <1>2, <1>3, <2>1
      <4> QED
        BY <1>3, <4>1, <2>1, Joins
    <3>2. CASE i = 1
      <4>1. k = low /\ low - 1 \in DOMAIN chain /\ low - 1 < low
        BY <1>1, <1>2, <1>3, <3>2
      <4>2. c[low - 1] = chain[low - 1]
        BY <1>1, <4>1
      <4>3. HashBefore(f[1]) = Hash(chain[low - 1])
        BY <2>1, <3>2, <4>1 DEF HashBefore
      <4> QED
        BY <3>1, <3>2, <4>1, <4>2, <4>3 DEF CheckHash
    <3>3. CASE i # 1
      <4>1. i - 1 \in DOMAIN f /\ low + (i - 1) - 1 = k - 1
        BY <1>1, <1>2, <1>3, <1>4, <3>3
      <4>2. f[i - 1] = c[k - 1]
        BY <1>7, <4>1
      <4> QED
        BY <3>1, <3>3, <4>2 DEF CheckHash
    <3> QED
      BY <3>2, <3>3
  <2> QED
    BY <2>3, <2>4, <2>5, <2>6, <2>7 DEF Check
<1>9. ASSUME NEW i \in DOMAIN f, NEW j \in DOMAIN f, i # j
      PROVE  Effective(f[i]) \cap Effective(f[j]) = {}
  <2>1. low + i - 1 # low + j - 1
    BY <1>2, <1>3, <1>4, <1>9
  <2> QED
    BY <1>3, <1>7, <2>1 DEF ValidChain
<1>10. ForkAccepted(f)
  BY <1>8, <1>9 DEF ForkAccepted
<1> QED
  BY <1>10 DEF f

\* The list replaces our blocks, and its effects are in the tables.
LEMMA ProcessBlocksHonest ==
  ASSUME Honest, Inv, HonestInv, ProcessBlocks PROVE HonestInv'
<1> DEFINE c == hosts[task.host]
           n == Len(chain)
           low == task.low
           f == task.fork
<1>1. UNCHANGED <<slot, hosts, turn, command>> /\ pc = "undo" /\ task.undo < low
  BY DEF ProcessBlocks, env
<1>2. ForkAccepted(f)
  BY <1>1, ForkIsAccepted
<1>3. /\ chain' = [k \in DOMAIN chain |->
                     IF k >= low /\ k < low + Len(f) THEN f[k - low + 1] ELSE chain[k]]
      /\ applied' = [k \in Ids |->
                       IF k >= low /\ k < low + Len(f)
                       THEN applied[k] \cup Effective(f[k - low + 1]) ELSE applied[k]]
      /\ pc' = "insert" /\ UNCHANGED task
  BY <1>2 DEF ProcessBlocks
<1>4. /\ low > 1 /\ Len(f) = n - low + 1 /\ n < Len(c)
      /\ \A i \in DOMAIN f : f[i] = c[low + i - 1]
      /\ \A m \in DOMAIN chain : m < low <=> c[m] = chain[m]
  BY <1>1 DEF HonestInv, ForkInv
<1>5. /\ task.host \in Hosts /\ f \in Seq(Blocks) /\ low \in 1..n
      /\ task.undo \in (low - 1)..n
      /\ \A m \in Ids : m > task.undo => applied[m] = {}
  BY <1>1 DEF Inv, TaskType, TaskInv, ForkFits
<1>6. /\ Historic(c) /\ Len(c) \in Nat /\ DOMAIN c = 1..Len(c)
      /\ n \in Nat /\ DOMAIN chain = 1..n /\ n <= MaxHeight /\ MaxHeight \in Nat /\ Ids = 1..MaxHeight
  BY <1>5, Chains
<1>7. DOMAIN f = 1..(n - low + 1)
  BY <1>4, <1>5, LenProperties
<1>8. \A k \in 1..(low - 1) : applied[k] = Effective(chain[k])
  <2>1. \A k \in 1..(low - 1) : k \in DOMAIN chain /\ k <= task.undo
    BY <1>5, <1>6
  <2> QED
    BY <1>1, <2>1 DEF HonestInv, FullInv
<1> HIDE DEF c, n, low, f
<1>9. ASSUME NEW k \in 1..n PROVE chain'[k] = c[k] /\ applied'[k] = Effective(c[k])
  <2>1. k \in Ids
    BY <1>6
  <2>2. CASE k < low
    <3>1. k \in 1..(low - 1) /\ ~(k >= low)
      BY <1>5, <1>6, <2>2
    <3> QED
      BY <1>3, <1>4, <1>6, <1>8, <2>1, <2>2, <3>1
  <2>3. CASE ~(k < low)
    <3>1. /\ k >= low /\ k < low + Len(f) /\ k - low + 1 \in DOMAIN f
          /\ low + (k - low + 1) - 1 = k /\ k > task.undo
      BY <1>1, <1>4, <1>5, <1>6, <1>7, <2>3, SMTT(30)
    <3>2. f[k - low + 1] = c[k] /\ applied[k] = {}
      BY <1>4, <1>5, <2>1, <3>1
    <3> QED
      BY <1>3, <1>6, <2>1, <3>1, <3>2
  <2> QED
    BY <2>2, <2>3
<1>10. DOMAIN chain' = 1..n /\ 1..n \subseteq DOMAIN c /\ 1 \in 1..n
  BY <1>3, <1>4, <1>5, <1>6
<1>11. Historic(chain')
  <2>1. \A m \in 1..n : \A k \in 1..(m - 1) : k \in 1..n
    BY <1>6
  <2> QED
    BY <1>6, <1>9, <1>10, <2>1 DEF Historic
<1>12. ChainsInv'
  BY <1>1, <1>11, Chains DEF ChainsInv, Historic
<1>13. TurnsInv'
  <2>1. RowsOf(c) \subseteq Seen
    BY <1>5 DEF Seen, c
  <2>2. RowsOf(chain)' \subseteq RowsOf(c)
    BY <1>9, <1>10 DEF RowsOf
  <2>3. Seen' \subseteq Seen
    BY <1>1, <2>1, <2>2 DEF Seen, RowsOf
  <2> QED
    BY <1>1, <2>3, NothingNew DEF HonestInv
<1>14. ServedInv'
  BY <1>1, <1>3 DEF HonestInv, ServedInv, Working
<1>15. ForkInv'
  BY <1>3 DEF ForkInv
<1>16. FullInv'
  BY <1>1, <1>3, <1>9, <1>10 DEF HonestInv, FullInv
<1> QED
  BY <1>12, <1>13, <1>14, <1>15, <1>16 DEF HonestInv

\* Every step, while the forks are shallow.
LEMMA NextHonest ==
  Honest /\ Inv /\ HonestInv /\ ShallowForks /\ [Next]_vars => HonestInv'
<1> SUFFICES ASSUME Honest, Inv, HonestInv, ShallowForks, [Next]_vars PROVE HonestInv'
  OBVIOUS
<1>1. CASE UNCHANGED vars
  <2>1. UNCHANGED <<slot, hosts, turn, chain, info, applied, pc, task, command>>
    BY <1>1 DEF vars
  <2>2. Working => Len(hosts[task.host]) \in Nat
    BY Chains DEF Inv, TaskType
  <2> QED
    BY <2>1, <2>2, ChainsStill, HostGrows DEF HonestInv
<1>2. ASSUME NEW h \in Hosts, StartCollection(h) \/ StartQueueParser(h) PROVE HonestInv'
  BY <1>2, TableStill DEF StartCollection, StartQueueParser, env, db
<1>3. CASE LockForCollection \/ RequestNothing \/ RequestsDone \/ ConnectionFails \/ StreamEnd
  BY <1>3, TableStill
     DEF LockForCollection, RequestNothing, RequestsDone, ConnectionFails, StreamEnd, Release, env, db
<1>4. CASE Collector
  BY <1>2, <1>3, <1>4, RequestHonest, PlayRawHonest, InsertRawHonest, FetchForkHonest,
     UndoBlockHonest, ProcessBlocksHonest DEF Collector
<1>5. CASE Failures
  BY <1>5 DEF Failures, Crash, Restart, RollbackCommand, ToBlockIDStep, ToBlockIDEnd, Honest,
              HonestInv, FullInv
<1> QED
  BY <1>1, <1>4, <1>5, EnvironmentHonest, GenerateHonest DEF Next

\* Every chain is the first block at first.
LEMMA InitHonest == Init => HonestInv
<1> SUFFICES ASSUME Init PROVE HonestInv
  OBVIOUS
<1>1. chain = <<FirstBlock>> /\ \A h \in Hosts : hosts[h] = <<FirstBlock>>
  BY DEF Init
<1>2. DOMAIN <<FirstBlock>> = {1} /\ <<FirstBlock>>[1] = FirstBlock
  OBVIOUS
<1>3. Historic(<<FirstBlock>>) /\ ValidChain(<<FirstBlock>>)
  BY <1>2 DEF Historic, ValidChain
<1>4. RowsOf(<<FirstBlock>>) = {FirstBlock}
  BY <1>2 DEF RowsOf
<1>5. Seen \subseteq {FirstBlock}
  BY <1>1, <1>4 DEF Seen
<1>6. /\ FirstBlock.author = Me /\ FirstBlock.time = 0 /\ FirstBlock.txs = << >>
  BY DEF FirstBlock
<1>7. TurnsInv
  <2>1. slot >= 1 /\ \A a \in Authors : turn[a] <= slot
    BY DEF Init
  <2>2. turn[Me] = 0
    BY DEF Init, Authors
  <2>3. NoDuplicates(<< >>)
    BY DEF NoDuplicates
  <2>4. \A b \in Seen : b.time <= turn[b.author] /\ NoDuplicates(b.txs)
    BY <1>5, <1>6, <2>2, <2>3
  <2> QED
    BY <1>5, <2>1, <2>4 DEF TurnsInv
<1>8. ChainsInv
  BY <1>1, <1>3 DEF ChainsInv
<1>9. ServedInv /\ ForkInv
  BY DEF Init, ServedInv, ForkInv, Working
<1>10. FullInv
  <2>1. Effective(FirstBlock) = {}
    BY <1>6 DEF Effective, TxSet
  <2>2. applied[1] = {}
    BY ChainAssumption DEF Init, Ids
  <2> QED
    BY <1>1, <1>2, <2>1, <2>2 DEF Init, FullInv
<1> QED
  BY <1>7, <1>8, <1>9, <1>10 DEF HonestInv

\* Between two iterations the tables are the whole chain.
LEMMA HonestState == Inv /\ HonestInv => StateIsChain
<1> SUFFICES ASSUME Inv, HonestInv, AtRest, NEW k \in Ids
             PROVE  applied[k] = (IF k \in DOMAIN chain THEN Effective(chain[k]) ELSE {})
  BY DEF StateIsChain
<1>1. CASE k \in DOMAIN chain
  BY <1>1 DEF HonestInv, FullInv, AtRest
<1>2. CASE k \notin DOMAIN chain
  BY <1>2 DEF Inv, DataInv, AppliedInChain
<1> QED
  BY <1>1, <1>2

\* "If there are errors, then roll back to the former data": a fork within the
\* limits never needs it (GetBlocks, processBlocks).  While every fork that the
\* node meets is within rollback_blocks and one request, the tables hold the
\* effects of exactly the blocks of the chain whenever DBLock is free.
THEOREM ForksAreTakenWhole == Honest /\ Spec /\ []ShallowForks => []StateIsChain
<1>1. Init => HonestInv
  BY InitHonest
<1>2. Honest /\ Inv /\ HonestInv /\ ShallowForks /\ [Next]_vars => HonestInv'
  BY NextHonest
<1>3. Inv /\ HonestInv => StateIsChain
  BY HonestState
<1>4. ASSUME Honest PROVE Spec /\ []ShallowForks => []StateIsChain
  BY <1>1, <1>2, <1>3, <1>4, InvHolds, PTL DEF Spec
<1> QED
  BY <1>4

\* The chains of an instance are too short for a deeper fork.
ShortChains == MaxHeight - 2 <= BlocksPerRequest /\ MaxHeight - 2 <= RollbackBlocks + 1

\* Then every fork is shallow: the chains agree at least in the first block.
LEMMA ShortIsShallow == ShortChains /\ Inv /\ HonestInv => ShallowForks
<1> SUFFICES ASSUME ShortChains, Inv, HonestInv, pc = "fork"
             PROVE  \E k \in 2..Len(chain) :
                      /\ CheckHash(hosts[task.host][k], HashBefore(hosts[task.host][k]))
                      /\ Len(chain) - k <= RollbackBlocks
                      /\ Len(chain) - k < BlocksPerRequest
  BY DEF ShallowForks
<1> DEFINE c == hosts[task.host]
           n == Len(chain)
<1>1. task.stream # << >> /\ Id(Raw) = n + 1
  BY DEF Inv, TaskInv, RawIsNext, WithRaw
<1>2. task.host \in Hosts /\ n + 1 \in 1..Len(c) /\ Raw = c[n + 1] /\ n + 1 \in Ids
  BY <1>1, RawIsServed, RawFacts DEF Working
<1>3. /\ c \in Seq(Blocks) /\ Numbered(c) /\ Historic(c) /\ Len(c) \in Nat /\ DOMAIN c = 1..Len(c)
      /\ Historic(chain) /\ n \in Nat \ {0} /\ MaxHeight \in Nat /\ Ids = 1..MaxHeight
  BY <1>2, Chains
<1>4. ~CheckHash(Raw, HashBefore(Raw))
  BY DEF HonestInv, ForkInv
<1>5. c[1] = chain[1]
  BY <1>3 DEF Historic
<1>6. RollbackBlocks \in Nat /\ BlocksPerRequest \in Nat
      /\ MaxHeight - 2 <= BlocksPerRequest /\ MaxHeight - 2 <= RollbackBlocks + 1
  BY ChainAssumption DEF ShortChains
<1> HIDE DEF c, n
<1>7. 2 \in 1..Len(c) /\ 2 > 1 /\ 2 - 1 = 1 /\ n + 1 >= 2
  BY <1>2, <1>3
<1>8. c[2].prev = Hash(c[1]) /\ HashBefore(c[2]) = Hash(chain[1])
  <2>1. c[2].prev = Hash(c[2 - 1])
    BY <1>3, <1>7, Joins
  <2> QED
    BY <1>3, <1>7, <2>1 DEF HashBefore, Numbered
<1>9. CheckHash(c[2], HashBefore(c[2]))
  BY <1>5, <1>8 DEF CheckHash
<1>10. n # 1
  BY <1>2, <1>4, <1>9
<1>11. 2 \in 2..n /\ n - 2 <= RollbackBlocks /\ n - 2 < BlocksPerRequest
  BY <1>2, <1>3, <1>6, <1>10
<1> QED
  BY <1>9, <1>11 DEF c, n

\* The instance that TLC checks, and every other one with such chains, however
\* many hosts, slots and transactions it has (UpdateChain, GetBlocks).
THEOREM StateMatchesChain == Honest /\ ShortChains /\ Spec => []StateIsChain
<1>1. Init => HonestInv
  BY InitHonest
<1>2. Honest /\ ShortChains /\ Inv /\ HonestInv /\ [Next]_vars => HonestInv'
  BY NextHonest, ShortIsShallow
<1>3. Inv /\ HonestInv => StateIsChain
  BY HonestState
<1>4. ASSUME Honest, ShortChains PROVE Spec => []StateIsChain
  BY <1>1, <1>2, <1>3, <1>4, InvHolds, PTL DEF Spec
<1> QED
  BY <1>4
=============================================================================
