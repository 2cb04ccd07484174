-------------------------- MODULE GenerationQueue --------------------------
(***************************************************************************)
(* The block generation queue (packages/protocols/generation-queue.go) and *)
(* the places that use it to admit a block: the BlockGenerator daemon,     *)
(* which asks whether it is this node's turn, and Block.Check, which asks  *)
(* whether the author already has a block in the slot of the block's time, *)
(* of a single block and of the blocks of a fork that replaces our own.    *)
(*                                                                         *)
(* Time is divided in slots of Duration after the time of the first block; *)
(* the slots are given to the full nodes round robin.  Times are counted   *)
(* in milliseconds; the header of a block holds whole seconds.             *)
(***************************************************************************)
EXTENDS Integers, Sequences

CONSTANTS
  FirstBlockTime,  \* Unix time of block 1, in seconds
  Duration,        \* max_block_generation_time + gap_between_blocks, in ms
  NumberNodes,     \* number of full nodes
  MyPosition,      \* position of this node among the full nodes
  Authors,         \* positions whose blocks this node receives from peers
  Step,            \* granularity of the clock, in ms
  MaxTime,         \* bound on the clock, in ms
  MaxBlocks,       \* bound on the number of blocks
  MaxList,         \* bound on the length of a fork's list
  MaxWrites        \* bound on the number of writes to block_chain

ASSUME QueueAssumption ==
  /\ FirstBlockTime \in Nat
  /\ Duration \in Nat \ {0}
  /\ NumberNodes \in Nat \ {0}
  /\ MyPosition \in 0..(NumberNodes - 1)
  /\ Authors \subseteq 0..(NumberNodes - 1)

ASSUME BoundAssumption ==
  /\ Step \in Nat \ {0}
  /\ MaxTime \in Nat
  /\ MaxBlocks \in Nat
  /\ MaxList \in Nat
  /\ MaxWrites \in Nat

VARIABLES
  now,     \* the clock, in ms
  blocks,  \* the rows of block_chain after block 1: position, Unix time and
           \* the number of the write that committed the row
  writes,  \* the number of writes so far (a history variable)
  pc       \* the generator: "idle", or "collecting" while it holds DBLock

vars == <<now, blocks, writes, pc>>

Positions == 0..(NumberNodes - 1)
Rows == [position : Positions, time : Nat, write : Nat]
Start == FirstBlockTime * 1000

-----------------------------------------------------------------------------
(***************************************************************************)
(* The arithmetic of BlockTimeCounter.                                     *)
(***************************************************************************)

\* time.Time.Unix: the seconds of a time given in ms.
Unix(t) == t \div 1000

\* queue fails with TimeError for a time before the first block.
TimeError(t) == Unix(t) * 1000 < Start

\* The number of the slot of a time.  The division of (t - start - 1ns) by
\* the duration is a Go division: it truncates, so the first block's own
\* second belongs to slot 0.
queue(t) ==
  LET sinceStart == Unix(t) * 1000 - Start
  IN  IF sinceStart = 0 THEN 0 ELSE (sinceStart - 1) \div Duration

nodePosition(t) == queue(t) % NumberNodes

\* A plausible slip: the range leaves out the first second of the slot.
RangeStartLate(t) == Start + Duration * queue(t) + 2000

\* The first and the last instant of the slot of a time, in ms.
RangeStart(t) == Start + Duration * queue(t) + 1000
RangeEnd(t) == RangeStart(t) + (Duration - 1000)

\* GetNodeBlocksAtTime compares whole seconds, both ends included.
InRange(second, from, to) == Unix(from) <= second /\ second <= Unix(to)

BlockForTimeExists(t, position) ==
  \E i \in DOMAIN blocks :
    /\ blocks[i].position = position
    /\ InRange(blocks[i].time, RangeStart(t), RangeEnd(t))

TimeToGenerate(t, position) == nodePosition(t) = position

\* A plausible slip: a node asked in its own slot is told that slot again.
nextTimeSame(t, position) ==
  LET cur == queue(t) % NumberNodes
      d   == IF cur > position THEN position - cur + NumberNodes
                               ELSE position - cur
  IN  Start + Duration * (queue(t) + d) + 1

\* 1 ms after the start of the first slot of a position after the slot of t.
nextTime(t, position) ==
  LET cur == queue(t) % NumberNodes
      d   == IF cur >= position THEN position - cur + NumberNodes
                                ELSE position - cur
  IN  Start + Duration * (queue(t) + d) + 1

-----------------------------------------------------------------------------
(***************************************************************************)
(* The steps that read the clock and the table.                            *)
(***************************************************************************)

Init ==
  /\ now = Start
  /\ blocks = << >>
  /\ writes = 0
  /\ pc = "idle"

Tick ==
  /\ now + Step <= MaxTime
  /\ now' = now + Step
  /\ UNCHANGED <<blocks, writes, pc>>

\* BlockGenerator up to the collection of transactions.  DBLock is taken; the
\* iteration goes on only in a slot of this node that has no block of its own.
StartGenerate ==
  /\ pc = "idle"
  /\ ~TimeError(now)
  /\ ~BlockForTimeExists(now, MyPosition)
  /\ TimeToGenerate(now, MyPosition)
  /\ pc' = "collecting"
  /\ UNCHANGED <<now, blocks, writes>>

\* No transaction was collected, or collecting failed: nothing is generated.
GiveUp ==
  /\ pc = "collecting"
  /\ pc' = "idle"
  /\ UNCHANGED <<now, blocks, writes>>

\* What Block.Check and InsertIntoBlockchain ask of a block's time: it is not
\* in the future, and its author has no block in the slot of that time.
\* GetNodeBlocksAtTime reads DBConn, hence the committed rows only.
TimeChecks(b) ==
  /\ b.time * 1000 <= now
  /\ ~TimeError(b.time * 1000)
  /\ ~BlockForTimeExists(b.time * 1000, b.position)

\* Blocks are written to the rows of their ids and committed; a row that was
\* there is deleted first, the rows above stay.
Write(list) ==
  /\ DOMAIN list \subseteq 1..MaxBlocks
  /\ writes < MaxWrites
  /\ writes' = writes + 1
  /\ blocks' = [i \in DOMAIN blocks \cup DOMAIN list |->
                  IF i \in DOMAIN list
                    THEN [position |-> list[i].position, time |-> list[i].time,
                          write |-> writes + 1]
                    ELSE blocks[i]]

\* The rest of BlockGenerator: the header is stamped with the time of now, not
\* with the time that was checked, and the block is checked and inserted over
\* the block info_block names, the last one or, after a fork that failed
\* half-way, one below it.
FinishGenerate ==
  LET b == [position |-> MyPosition, time |-> Unix(now)]
  IN  /\ pc = "collecting"
      /\ pc' = "idle"
      /\ IF TimeChecks(b)
           THEN \E id \in 1..(Len(blocks) + 1) : Write([i \in {id} |-> b])
           ELSE UNCHANGED <<blocks, writes>>
      /\ UNCHANGED now

\* A single block of a peer passes Block.Check; it is inserted under DBLock.
AcceptBlock ==
  /\ pc = "idle"
  /\ \E p \in Authors, s \in 0..Unix(now) :
       LET b == [position |-> p, time |-> s]
       IN  /\ TimeChecks(b)
           /\ \E id \in 1..(Len(blocks) + 1) : Write([i \in {id} |-> b])
  /\ UNCHANGED <<now, pc>>

\* processBlocks, for the list of a fork: every block passes its checks before
\* any is committed, so they are checked against the rows the list replaces
\* (RollbackBlock leaves them in block_chain) and not against each other.
processBlocks ==
  /\ pc = "idle"
  /\ \E below \in 0..Len(blocks), n \in 1..MaxList :
       \E list \in [(below + 1)..(below + n) -> [position : Authors, time : 0..Unix(now)]] :
         /\ \A i \in DOMAIN list : TimeChecks(list[i])
         /\ Write(list)
  /\ UNCHANGED <<now, pc>>

Next ==
  Tick \/ StartGenerate \/ GiveUp \/ FinishGenerate \/ AcceptBlock \/ processBlocks

Spec == Init /\ [][Next]_vars

-----------------------------------------------------------------------------
(***************************************************************************)
(* Properties.                                                             *)
(***************************************************************************)

\* The types of the state: the clock is never before the first block, and a
\* row holds a position and a Unix time that is not before the first block.
TypeOK ==
  /\ now \in Nat /\ now >= Start
  /\ blocks \in Seq(Rows)
  /\ \A i \in DOMAIN blocks : blocks[i].time >= FirstBlockTime
  /\ writes \in Nat
  /\ \A i \in DOMAIN blocks : blocks[i].write <= writes
  /\ pc \in {"idle", "collecting"}

\* A node has at most one block in a slot of its own or of another node, as
\* Block.Check (block.go:312) and InsertIntoBlockchain (db.go:142) intend with
\* BlockForTimeExists; the blocks of one node in one slot that are in the table
\* all the same came in one list of a fork, for processBlocks
\* (blocks_collection.go:425-485) commits a list only at its end.  The second
\* of the first block itself is left out: it is counted to slot 0 by queue but
\* is outside the range RangeByTime returns.
OnePerNodeAndSlot ==
  \A i, j \in DOMAIN blocks :
    /\ blocks[i].position = blocks[j].position
    /\ blocks[i].time > FirstBlockTime
    /\ blocks[j].time > FirstBlockTime
    /\ queue(blocks[i].time * 1000) = queue(blocks[j].time * 1000)
    => i = j \/ blocks[i].write = blocks[j].write

\* nextTime points to the next turn: the first whole second at or after it is
\* in a later slot, of the position asked for, and no second between the slot
\* of now and it is in a slot of that position.
NextTimeIsNextTurn ==
  \A p \in Positions :
    LET s == (nextTime(now, p) + 999) \div 1000
    IN  Duration >= 1000 =>
          /\ TimeToGenerate(s * 1000, p)
          /\ queue(s * 1000) > queue(now)
          /\ \A u \in Unix(now)..(s - 1) :
               TimeToGenerate(u * 1000, p) => queue(u * 1000) = queue(now)
=============================================================================
