----------------------- MODULE GenerationQueue_proofs -----------------------
(***************************************************************************)
(* Proofs about the generation queue: the range of a slot is the slot, for *)
(* every duration, a node has at most one block in a slot but for those of *)
(* one list of a fork, and nextTime points to the next turn of a node.     *)
(***************************************************************************)
EXTENDS GenerationQueue, SequenceTheorems, TLAPS

\* What the integer division of the slot number means, for any duration.
LEMMA DivIsSlot ==
  ASSUME NEW D \in Nat \ {0}, NEW x \in Nat, NEW q \in Nat
  PROVE  (x \div D = q) <=> (D * q <= x /\ x < D * (q + 1))
  <1>1. x = D * (x \div D) + (x % D) /\ x % D \in 0..(D - 1) /\ x \div D \in Int
    OBVIOUS
  <1>2. QED
    BY <1>1

\* Unix undoes the conversion of seconds to ms.
LEMMA UnixOfSeconds ==
  ASSUME NEW u \in Nat
  PROVE  Unix(u * 1000) = u
  BY DEF Unix

\* The slot number of a second after the first block is the division of the
\* ms since the first block, less one, and it is a natural number.
LEMMA QueueOfSecond ==
  ASSUME NEW u \in Nat, u > FirstBlockTime
  PROVE  /\ u * 1000 - Start - 1 \in Nat
         /\ queue(u * 1000) = (u * 1000 - Start - 1) \div Duration
         /\ queue(u * 1000) \in Nat
  <1>1. Unix(u * 1000) = u
    BY UnixOfSeconds
  <1>2. u * 1000 - Start - 1 \in Nat /\ u * 1000 - Start # 0
    BY QueueAssumption DEF Start
  <1>3. queue(u * 1000) = (u * 1000 - Start - 1) \div Duration
    BY <1>1, <1>2 DEF queue
  <1>4. (u * 1000 - Start - 1) \div Duration \in Nat
    <2>1. \A x \in Nat, D \in Nat \ {0} : x \div D \in Nat
      OBVIOUS
    <2>2. QED
      BY <2>1, <1>2, QueueAssumption
  <1>5. QED
    BY <1>2, <1>3, <1>4

\* A time is numbered by its second alone.
LEMMA QueueByUnix ==
  ASSUME NEW t \in Nat
  PROVE  /\ Unix(t) \in Nat
         /\ queue(t) = queue(Unix(t) * 1000)
  <1>1. Unix(t) \in Nat
    BY DEF Unix
  <1>2. Unix(Unix(t) * 1000) = Unix(t)
    BY <1>1, UnixOfSeconds
  <1>3. QED
    BY <1>1, <1>2 DEF queue

\* RangeByTime returns exactly the whole seconds of the slot, whatever the
\* duration is: no second of the slot is outside, no other second is inside.
THEOREM RangeIsSlotOfTime ==
  ASSUME NEW t \in Nat, NEW u \in Nat,
         Unix(t) > FirstBlockTime, u > FirstBlockTime
  PROVE  InRange(u, RangeStart(t), RangeEnd(t)) <=> queue(u * 1000) = queue(t)
  <1> DEFINE q == queue(t)
             lo == Start + Duration * q
             hi == Start + Duration * (q + 1)
  <1>1. q \in Nat
    BY QueueByUnix, QueueOfSecond
  <1>2. Duration * q \in Nat /\ Duration * (q + 1) \in Nat
    BY <1>1, QueueAssumption
  <1>3. lo \in Nat /\ hi \in Nat /\ Start \in Nat
    BY <1>2, QueueAssumption DEF Start
  <1>4. RangeStart(t) = lo + 1000 /\ RangeEnd(t) = hi
    <2>1. Duration * (q + 1) = Duration * q + Duration
      BY <1>1, QueueAssumption
    <2>2. QED
      BY <2>1, <1>2, <1>3, QueueAssumption DEF RangeStart, RangeEnd
  <1> HIDE DEF q
  <1>5. InRange(u, RangeStart(t), RangeEnd(t)) <=> lo < 1000 * u /\ 1000 * u <= hi
    <2> HIDE DEF lo, hi
    <2>1. Unix(lo + 1000) <= u <=> lo < 1000 * u
      BY <1>3 DEF Unix
    <2>2. u <= Unix(hi) <=> 1000 * u <= hi
      BY <1>3 DEF Unix
    <2>3. QED
      BY <1>4, <2>1, <2>2 DEF InRange
  <1>6. queue(u * 1000) = q
          <=> /\ Duration * q <= u * 1000 - Start - 1
              /\ u * 1000 - Start - 1 < Duration * (q + 1)
    <2> DEFINE x == u * 1000 - Start - 1
    <2>1. x \in Nat /\ queue(u * 1000) = x \div Duration
      BY QueueOfSecond
    <2> HIDE DEF x
    <2>2. (x \div Duration = q) <=> (Duration * q <= x /\ x < Duration * (q + 1))
      BY <1>1, <2>1, DivIsSlot, QueueAssumption
    <2>3. QED
      BY <2>1, <2>2 DEF x
  <1>7. QED
    BY <1>2, <1>3, <1>5, <1>6 DEF q

-----------------------------------------------------------------------------
(***************************************************************************)
(* The rows.  A write is of one or several blocks that lie side by side,   *)
(* from the id lo to the id hi.                                            *)
(***************************************************************************)

Blocks == [position : Positions, time : Nat]

\* A write keeps the rows a sequence, and says which row is which.
LEMMA WrittenRows ==
  ASSUME TypeOK,
         NEW lo \in 1..(Len(blocks) + 1), NEW hi \in Nat, lo <= hi,
         NEW list \in [lo..hi -> Blocks], Write(list)
  PROVE  /\ writes' = writes + 1
         /\ DOMAIN blocks = 1..Len(blocks) /\ Len(blocks) \in Nat
         /\ DOMAIN blocks' = DOMAIN blocks \cup (lo..hi)
         /\ \A i \in lo..hi :
              /\ blocks'[i].position = list[i].position
              /\ blocks'[i].time = list[i].time
              /\ blocks'[i].write = writes + 1
         /\ \A i \in DOMAIN blocks : i \notin lo..hi => blocks'[i] = blocks[i]
         /\ blocks' \in Seq(Rows)
  <1>1. /\ DOMAIN blocks = 1..Len(blocks) /\ Len(blocks) \in Nat
        /\ blocks \in Seq(Rows) /\ writes \in Nat /\ DOMAIN list = lo..hi
    BY DEF TypeOK
  <1>2. /\ writes' = writes + 1
        /\ blocks' = [i \in DOMAIN blocks \cup (lo..hi) |->
                       IF i \in lo..hi
                         THEN [position |-> list[i].position, time |-> list[i].time,
                               write |-> writes + 1]
                         ELSE blocks[i]]
    BY <1>1 DEF Write
  <1>3. \A i \in DOMAIN blocks : blocks[i] \in Rows
    BY <1>1, ElementOfSeq
  <1>4. \A i \in lo..hi :
          [position |-> list[i].position, time |-> list[i].time, write |-> writes + 1] \in Rows
    BY <1>1 DEF Rows, Blocks
  <1>5. \A i \in DOMAIN blocks \cup (lo..hi) : blocks'[i] \in Rows
    BY <1>2, <1>3, <1>4
  <1> DEFINE m == IF hi > Len(blocks) THEN hi ELSE Len(blocks)
  <1>6. m \in Nat /\ DOMAIN blocks \cup (lo..hi) = 1..m
    BY <1>1
  <1> HIDE DEF m
  <1>7. blocks' \in [1..m -> Rows]
    <2>1. blocks' = [i \in 1..m |-> blocks'[i]]
      BY <1>2, <1>6
    <2>2. \A i \in 1..m : blocks'[i] \in Rows
      BY <1>5, <1>6
    <2>3. QED
      BY <2>1, <2>2
  <1>8. blocks' \in Seq(Rows)
    BY <1>6, <1>7
  <1>9. \A i \in lo..hi :
          /\ blocks'[i].position = list[i].position
          /\ blocks'[i].time = list[i].time
          /\ blocks'[i].write = writes + 1
    BY <1>2
  <1>10. \A i \in DOMAIN blocks : i \notin lo..hi => blocks'[i] = blocks[i]
    BY <1>2
  <1>11. DOMAIN blocks' = DOMAIN blocks \cup (lo..hi)
    BY <1>2
  <1>12. QED
    BY <1>1, <1>2, <1>8, <1>9, <1>10, <1>11

\* A write of blocks that passed the time checks keeps the types of the rows.
LEMMA WriteTypes ==
  ASSUME TypeOK,
         NEW lo \in 1..(Len(blocks) + 1), NEW hi \in Nat, lo <= hi,
         NEW list \in [lo..hi -> Blocks], Write(list),
         \A i \in lo..hi : TimeChecks(list[i])
  PROVE  /\ blocks' \in Seq(Rows)
         /\ \A i \in DOMAIN blocks' : blocks'[i].time >= FirstBlockTime
         /\ writes' \in Nat
         /\ \A i \in DOMAIN blocks' : blocks'[i].write <= writes'
  <1>1. /\ writes' = writes + 1
        /\ DOMAIN blocks' = DOMAIN blocks \cup (lo..hi)
        /\ \A i \in lo..hi :
              /\ blocks'[i].time = list[i].time
              /\ blocks'[i].write = writes + 1
        /\ \A i \in DOMAIN blocks : i \notin lo..hi => blocks'[i] = blocks[i]
        /\ blocks' \in Seq(Rows)
    BY WrittenRows
  <1>2. \A i \in lo..hi : list[i].time >= FirstBlockTime
    <2> TAKE i \in lo..hi
    <2>1. list[i].time \in Nat /\ TimeChecks(list[i])
      BY DEF Blocks
    <2> DEFINE t == list[i].time
    <2>2. t \in Nat /\ ~(Unix(t * 1000) * 1000 < Start)
      BY <2>1 DEF TimeChecks, TimeError
    <2> HIDE DEF t
    <2>3. Unix(t * 1000) = t
      BY <2>2, UnixOfSeconds
    <2>4. t >= FirstBlockTime
      BY <2>2, <2>3, QueueAssumption DEF Start
    <2>5. QED
      BY <2>4 DEF t
  <1>3. writes \in Nat /\ \A i \in DOMAIN blocks : blocks[i].write \in Nat /\ blocks[i].write <= writes
    <2>1. blocks \in Seq(Rows)
      BY DEF TypeOK
    <2>2. \A i \in DOMAIN blocks : blocks[i] \in Rows
      BY <2>1, ElementOfSeq
    <2>3. QED
      BY <2>2 DEF TypeOK, Rows
  <1>4. \A i \in DOMAIN blocks' : blocks'[i].time >= FirstBlockTime
    BY <1>1, <1>2 DEF TypeOK
  <1>5. \A i \in DOMAIN blocks' : blocks'[i].write <= writes'
    BY <1>1, <1>3
  <1>6. QED
    BY <1>1, <1>3, <1>4, <1>5

\* The blocks a step writes: one of the generator, one of a peer, or a list.
LEMMA OneWritten ==
  ASSUME TypeOK, NEW b \in Blocks, NEW id \in 1..(Len(blocks) + 1),
         Write([i \in {id} |-> b]), TimeChecks(b)
  PROVE  /\ id \in Nat /\ id..id = {id}
         /\ [i \in {id} |-> b] \in [id..id -> Blocks]
         /\ \A i \in id..id : TimeChecks([k \in {id} |-> b][i])
  BY DEF TypeOK

\* The time stamped by the generator, and the one of a block of a peer.
LEMMA BlockTypes ==
  ASSUME TypeOK
  PROVE  /\ [position |-> MyPosition, time |-> Unix(now)] \in Blocks
         /\ \A p \in Authors, s \in 0..Unix(now) : [position |-> p, time |-> s] \in Blocks
         /\ [position : Authors, time : 0..Unix(now)] \subseteq Blocks
  <1>1. Unix(now) \in Nat
    BY QueueByUnix DEF TypeOK
  <1>2. MyPosition \in Positions /\ Authors \subseteq Positions
    BY QueueAssumption DEF Positions
  <1>3. 0..Unix(now) \subseteq Nat
    BY <1>1
  <1>4. QED
    BY <1>1, <1>2, <1>3 DEF Blocks

\* Every step that writes is a write of blocks that lie side by side, each of
\* which has passed the time checks against the rows before the step.
LEMMA StepWrites ==
  ASSUME TypeOK, [Next]_vars, ~UNCHANGED <<blocks, writes>>
  PROVE  \E lo \in 1..(Len(blocks) + 1), hi \in Nat :
           /\ lo <= hi
           /\ \E list \in [lo..hi -> Blocks] :
                /\ Write(list)
                /\ \A i \in lo..hi : TimeChecks(list[i])
  <1>0. Len(blocks) \in Nat
    BY DEF TypeOK
  <1>1. ASSUME NEW b \in Blocks, TimeChecks(b),
               NEW id \in 1..(Len(blocks) + 1), Write([i \in {id} |-> b])
        PROVE  \E lo \in 1..(Len(blocks) + 1), hi \in Nat :
                 /\ lo <= hi
                 /\ \E list \in [lo..hi -> Blocks] :
                      /\ Write(list)
                      /\ \A i \in lo..hi : TimeChecks(list[i])
    <2>1. /\ id \in Nat /\ id <= id
          /\ [i \in {id} |-> b] \in [id..id -> Blocks]
          /\ \A i \in id..id : TimeChecks([k \in {id} |-> b][i])
      BY <1>0, <1>1, OneWritten
    <2>2. QED
      BY <1>1, <2>1
  <1>2. CASE FinishGenerate
    <2> DEFINE b == [position |-> MyPosition, time |-> Unix(now)]
    <2>1. b \in Blocks
      BY BlockTypes
    <2>2. PICK id \in 1..(Len(blocks) + 1) : TimeChecks(b) /\ Write([i \in {id} |-> b])
      BY <1>2 DEF FinishGenerate
    <2> HIDE DEF b
    <2>3. QED
      BY <1>1, <2>1, <2>2
  <1>3. CASE AcceptBlock
    <2>1. PICK p \in Authors, s \in 0..Unix(now), id \in 1..(Len(blocks) + 1) :
            LET b == [position |-> p, time |-> s]
            IN  TimeChecks(b) /\ Write([i \in {id} |-> b])
      BY <1>3 DEF AcceptBlock
    <2> DEFINE b == [position |-> p, time |-> s]
    <2>2. b \in Blocks
      BY BlockTypes
    <2>3. TimeChecks(b) /\ Write([i \in {id} |-> b])
      BY <2>1
    <2> HIDE DEF b
    <2>4. QED
      BY <1>1, <2>2, <2>3
  <1>4. CASE processBlocks
    <2>1. PICK below \in 0..Len(blocks), n \in 1..MaxList :
            \E list \in [(below + 1)..(below + n) -> [position : Authors, time : 0..Unix(now)]] :
              /\ \A i \in DOMAIN list : TimeChecks(list[i])
              /\ Write(list)
      BY <1>4 DEF processBlocks
    <2> DEFINE lo == below + 1
               hi == below + n
    <2>2. PICK list \in [lo..hi -> [position : Authors, time : 0..Unix(now)]] :
            /\ \A i \in DOMAIN list : TimeChecks(list[i])
            /\ Write(list)
      BY <2>1
    <2>3. lo \in 1..(Len(blocks) + 1) /\ hi \in Nat /\ lo <= hi
      BY <1>0, BoundAssumption
    <2> HIDE DEF lo, hi
    <2>4. list \in [lo..hi -> Blocks] /\ DOMAIN list = lo..hi
      <3>1. [position : Authors, time : 0..Unix(now)] \subseteq Blocks
        BY BlockTypes
      <3>2. QED
        BY <2>2, <3>1
    <2>5. QED
      BY <2>2, <2>3, <2>4
  <1>5. QED
    BY <1>2, <1>3, <1>4 DEF Next, Tick, StartGenerate, GiveUp, vars

\* The rows of block_chain and the clock keep their types.
THEOREM TypeCorrect == Spec => []TypeOK
  <1>1. Init => TypeOK
    BY QueueAssumption DEF Init, TypeOK, Start, Positions
  <1>2. TypeOK /\ [Next]_vars => TypeOK'
    <2> SUFFICES ASSUME TypeOK, [Next]_vars
                 PROVE  TypeOK'
      OBVIOUS
    <2>1. now' \in Nat /\ now' >= Start /\ pc' \in {"idle", "collecting"}
      <3>1. Start \in Nat /\ Step \in Nat
        BY QueueAssumption, BoundAssumption DEF Start
      <3>2. QED
        BY <3>1 DEF TypeOK, Next, Tick, StartGenerate, GiveUp, FinishGenerate, AcceptBlock,
                    processBlocks, vars
    <2>2. CASE UNCHANGED <<blocks, writes>>
      BY <2>1, <2>2 DEF TypeOK
    <2>3. CASE ~UNCHANGED <<blocks, writes>>
      <3>1. PICK lo \in 1..(Len(blocks) + 1), hi \in Nat :
              /\ lo <= hi
              /\ \E list \in [lo..hi -> Blocks] :
                   /\ Write(list)
                   /\ \A i \in lo..hi : TimeChecks(list[i])
        BY <2>3, StepWrites
      <3>2. PICK list \in [lo..hi -> Blocks] :
              Write(list) /\ \A i \in lo..hi : TimeChecks(list[i])
        BY <3>1
      <3>3. /\ blocks' \in Seq(Rows)
            /\ \A i \in DOMAIN blocks' : blocks'[i].time >= FirstBlockTime
            /\ writes' \in Nat
            /\ \A i \in DOMAIN blocks' : blocks'[i].write <= writes'
        BY <3>1, <3>2, WriteTypes
      <3>4. QED
        BY <2>1, <3>3 DEF TypeOK
    <2>4. QED
      BY <2>2, <2>3
  <1>3. QED
    BY <1>1, <1>2, PTL DEF Spec

\* A block that passes the time checks shares its slot with no committed block
\* of its author.
LEMMA TimeChecksSeparate ==
  ASSUME TypeOK, NEW b \in Blocks, TimeChecks(b),
         NEW i \in DOMAIN blocks,
         blocks[i].position = b.position,
         blocks[i].time > FirstBlockTime, b.time > FirstBlockTime
  PROVE  queue(blocks[i].time * 1000) # queue(b.time * 1000)
  <1>1. b.time \in Nat /\ blocks[i].time \in Nat
    <2>1. blocks \in Seq(Rows)
      BY DEF TypeOK
    <2>2. blocks[i] \in Rows
      BY <2>1, ElementOfSeq
    <2>3. QED
      BY <2>2 DEF Rows, Blocks
  <1>2. b.time * 1000 \in Nat /\ Unix(b.time * 1000) > FirstBlockTime
    BY <1>1, UnixOfSeconds
  <1>3. InRange(blocks[i].time, RangeStart(b.time * 1000), RangeEnd(b.time * 1000))
          <=> queue(blocks[i].time * 1000) = queue(b.time * 1000)
    BY <1>1, <1>2, RangeIsSlotOfTime
  <1>4. QED
    BY <1>3 DEF TimeChecks, BlockForTimeExists

\* In the table of a node no full node ever has two blocks in one slot, but for
\* blocks that one list of a fork brought.
THEOREM OneBlockPerSlot == Spec => []OnePerNodeAndSlot
  <1>1. Init => OnePerNodeAndSlot
    BY DEF Init, OnePerNodeAndSlot
  <1>2. TypeOK /\ OnePerNodeAndSlot /\ [Next]_vars => OnePerNodeAndSlot'
    <2> SUFFICES ASSUME TypeOK, OnePerNodeAndSlot, [Next]_vars
                 PROVE  OnePerNodeAndSlot'
      OBVIOUS
    <2>1. CASE UNCHANGED <<blocks, writes>>
      BY <2>1 DEF OnePerNodeAndSlot, queue, Unix
    <2>2. CASE ~UNCHANGED <<blocks, writes>>
      <3>1. PICK lo \in 1..(Len(blocks) + 1), hi \in Nat :
              /\ lo <= hi
              /\ \E list \in [lo..hi -> Blocks] :
                   /\ Write(list)
                   /\ \A i \in lo..hi : TimeChecks(list[i])
        BY <2>2, StepWrites
      <3>2. PICK list \in [lo..hi -> Blocks] :
              Write(list) /\ \A i \in lo..hi : TimeChecks(list[i])
        BY <3>1
      <3>3. /\ DOMAIN blocks' = DOMAIN blocks \cup (lo..hi)
            /\ \A i \in lo..hi :
                 /\ blocks'[i].position = list[i].position
                 /\ blocks'[i].time = list[i].time
                 /\ blocks'[i].write = writes + 1
            /\ \A i \in DOMAIN blocks : i \notin lo..hi => blocks'[i] = blocks[i]
        BY <3>1, <3>2, WrittenRows
      <3>4. ASSUME NEW i \in DOMAIN blocks, NEW j \in lo..hi,
                   blocks[i].position = list[j].position,
                   blocks[i].time > FirstBlockTime, list[j].time > FirstBlockTime
            PROVE  queue(blocks[i].time * 1000) # queue(list[j].time * 1000)
        <4>1. list[j] \in Blocks /\ TimeChecks(list[j])
          BY <3>2
        <4>2. QED
          BY <3>4, <4>1, TimeChecksSeparate
      <3>5. ASSUME NEW i \in DOMAIN blocks', NEW j \in DOMAIN blocks',
                   blocks'[i].position = blocks'[j].position,
                   blocks'[i].time > FirstBlockTime,
                   blocks'[j].time > FirstBlockTime,
                   queue(blocks'[i].time * 1000) = queue(blocks'[j].time * 1000)
            PROVE  i = j \/ blocks'[i].write = blocks'[j].write
        <4>1. CASE i \in lo..hi /\ j \in lo..hi
          BY <3>3, <4>1
        <4>2. CASE i \in lo..hi /\ j \notin lo..hi
          BY <3>3, <3>4, <3>5, <4>2
        <4>3. CASE i \notin lo..hi /\ j \in lo..hi
          BY <3>3, <3>4, <3>5, <4>3
        <4>4. CASE i \notin lo..hi /\ j \notin lo..hi
          BY <3>3, <3>5, <4>4 DEF OnePerNodeAndSlot
        <4>5. QED
          BY <4>1, <4>2, <4>3, <4>4
      <3>6. QED
        BY <3>5 DEF OnePerNodeAndSlot, queue, Unix
    <2>3. QED
      BY <2>1, <2>2
  <1>3. QED
    BY <1>1, <1>2, TypeCorrect, PTL DEF Spec

-----------------------------------------------------------------------------
(***************************************************************************)
(* The next turn of a node.                                                *)
(***************************************************************************)

\* The slot number of a second that is not before the first block: what the
\* division means, with the second of the first block in slot 0.
LEMMA SlotOfSecond ==
  ASSUME NEW u \in Nat, u >= FirstBlockTime, NEW q \in Nat
  PROVE  /\ queue(u * 1000) \in Nat
         /\ q > 0 =>
              (queue(u * 1000) >= q <=> Duration * q < u * 1000 - Start)
  <1> DEFINE x == u * 1000 - Start - 1
             n == x \div Duration
  <1>1. Start = FirstBlockTime * 1000 /\ Start \in Nat /\ Duration \in Nat \ {0}
    BY QueueAssumption DEF Start
  <1>2. CASE u = FirstBlockTime
    <2>1. u * 1000 - Start = 0 /\ Unix(u * 1000) = u
      BY <1>1, <1>2, UnixOfSeconds
    <2>0. queue(u * 1000) = 0
      BY <2>1 DEF queue
    <2>2. Duration * q \in Nat
      BY <1>1
    <2>3. QED
      BY <2>0, <2>1, <2>2
  <1>3. CASE u > FirstBlockTime
    <2>1. x \in Nat /\ queue(u * 1000) = n /\ n \in Nat
      BY <1>3, QueueOfSecond
    <2> HIDE DEF x
    <2>2. Duration * n <= x /\ x < Duration * (n + 1)
      BY <1>1, <2>1, DivIsSlot
    <2> HIDE DEF n
    <2>3. n >= q => Duration * q <= Duration * n
      BY <1>1, <2>1
    <2>4. n < q => Duration * (n + 1) <= Duration * q
      BY <1>1, <2>1
    <2>5. Duration * q \in Nat /\ Duration * n \in Nat /\ Duration * (n + 1) \in Nat
      BY <1>1, <2>1
    <2>6. Duration * q < u * 1000 - Start <=> Duration * q <= x
      BY <1>1, <2>5 DEF x
    <2>7. QED
      BY <2>1, <2>2, <2>3, <2>4, <2>5, <2>6
  <1>4. QED
    BY <1>2, <1>3, QueueAssumption

\* What nextTime adds to the slot number q for the position p of N.
Ahead(q, p, N) == IF q % N >= p THEN p - (q % N) + N ELSE p - (q % N)

\* It is the smallest number above 0 that leads to a slot of the position.
LEMMA TurnDistance ==
  ASSUME NEW N \in Nat \ {0}, NEW q \in Nat, NEW p \in 0..(N - 1)
  PROVE  /\ Ahead(q, p, N) \in 1..N
         /\ (q + Ahead(q, p, N)) % N = p
         /\ \A e \in 1..(Ahead(q, p, N) - 1) : (q + e) % N # p
  <1> DEFINE a == q \div N
             c == q % N
             d == Ahead(q, p, N)
  <1>1. q = N * a + c /\ c \in 0..(N - 1) /\ a \in Nat
    OBVIOUS
  <1>0. d = IF c >= p THEN p - c + N ELSE p - c
    BY DEF Ahead
  <1> HIDE DEF a, c, d
  <1>2. \A b \in Nat, r \in 0..(N - 1) : (N * b + r) % N = r
    OBVIOUS
  <1>3. d \in 1..N
    BY <1>0, <1>1
  <1>4. (q + d) % N = p
    <2>1. CASE c >= p
      <3>1. q + d = N * (a + 1) + p /\ a + 1 \in Nat
        BY <1>0, <1>1, <2>1
      <3>2. QED
        BY <1>2, <3>1
    <2>2. CASE c < p
      <3>1. q + d = N * a + p
        BY <1>0, <1>1, <2>2
      <3>2. QED
        BY <1>1, <1>2, <3>1
    <2>3. QED
      BY <1>1, <2>1, <2>2
  <1>5. ASSUME NEW e \in 1..(d - 1)
        PROVE  (q + e) % N # p
    <2>1. CASE c + e < N
      <3>1. q + e = N * a + (c + e) /\ c + e \in 0..(N - 1)
        BY <1>1, <1>3, <2>1
      <3>2. (q + e) % N = c + e
        BY <1>1, <1>2, <3>1
      <3>3. c + e # p
        BY <1>0, <1>1, <1>3
      <3>4. QED
        BY <3>2, <3>3
    <2>2. CASE c + e >= N
      <3>1. q + e = N * (a + 1) + (c + e - N) /\ c + e - N \in 0..(N - 1) /\ a + 1 \in Nat
        BY <1>1, <1>3, <2>2
      <3>2. (q + e) % N = c + e - N
        BY <1>2, <3>1
      <3>3. c + e - N # p
        BY <1>0, <1>1, <1>3, <2>2
      <3>4. QED
        BY <3>2, <3>3
    <2>3. QED
      BY <1>1, <1>3, <2>1, <2>2
  <1>6. QED
    BY <1>3, <1>4, <1>5 DEF d

\* For every duration of a second or more and every number of nodes, the time
\* that nextTime names is in the next slot of the position, never in the one
\* under way, and no second in between belongs to the position.
THEOREM NextTurn == Spec => []NextTimeIsNextTurn
  <1>1. ASSUME TypeOK, NEW p \in Positions, Duration >= 1000
        PROVE  LET s == (nextTime(now, p) + 999) \div 1000
               IN  /\ TimeToGenerate(s * 1000, p)
                   /\ queue(s * 1000) > queue(now)
                   /\ \A u \in Unix(now)..(s - 1) :
                        TimeToGenerate(u * 1000, p) => queue(u * 1000) = queue(now)
    <2> DEFINE q == queue(now)
               d == Ahead(q, p, NumberNodes)
               m == Start + Duration * (q + d)
               s == (nextTime(now, p) + 999) \div 1000
    <2>1. now \in Nat /\ Unix(now) \in Nat /\ Unix(now) >= FirstBlockTime
      BY <1>1, QueueAssumption, QueueByUnix DEF TypeOK, Start, Unix
    <2>2. q \in Nat /\ q = queue(Unix(now) * 1000)
      BY <2>1, SlotOfSecond, QueueByUnix
    <2> HIDE DEF q
    <2>3. /\ d \in 1..NumberNodes
          /\ (q + d) % NumberNodes = p
          /\ \A e \in 1..(d - 1) : (q + e) % NumberNodes # p
      <3>1. NumberNodes \in Nat \ {0} /\ p \in 0..(NumberNodes - 1) /\ q \in Nat
        BY <2>2, QueueAssumption DEF Positions
      <3>2. QED
        BY <3>1, TurnDistance
    <2>4. nextTime(now, p) = m + 1
      BY DEF nextTime, q, m, d, Ahead
    <2> HIDE DEF d
    <2>5. /\ Start = FirstBlockTime * 1000 /\ Start \in Nat
          /\ Duration \in Nat \ {0} /\ NumberNodes \in Nat \ {0} /\ FirstBlockTime \in Nat
      BY QueueAssumption DEF Start
    <2>6. d \in Nat /\ q + d \in Nat /\ q + d > q /\ q + d > 0
      BY <2>2, <2>3, <2>5
    <2> DEFINE D0 == Duration * (q + d)
               D1 == Duration * (q + d + 1)
    <2>7. D0 \in Nat /\ D1 = D0 + Duration /\ D1 \in Nat
      BY <2>5, <2>6
    <2>8. m = Start + D0 /\ m \in Nat
      BY <2>5, <2>7
    <2> HIDE DEF m, D0, D1
    <2>9. s \in Nat /\ m < s * 1000 /\ s * 1000 <= m + 1000
      BY <2>4, <2>8
    <2> HIDE DEF s
    <2>10. s >= FirstBlockTime
      BY <2>5, <2>7, <2>8, <2>9
    <2>11. queue(s * 1000) = q + d
      <3>1. queue(s * 1000) >= q + d
        <4>1. queue(s * 1000) >= q + d <=> D0 < s * 1000 - Start
          BY <2>6, <2>9, <2>10, SlotOfSecond DEF D0
        <4>2. QED
          BY <4>1, <2>5, <2>7, <2>8, <2>9
      <3>2. ~(queue(s * 1000) >= q + d + 1)
        <4>1. queue(s * 1000) >= q + d + 1 <=> D1 < s * 1000 - Start
          BY <2>6, <2>9, <2>10, SlotOfSecond DEF D1
        <4>2. QED
          BY <4>1, <1>1, <2>5, <2>7, <2>8, <2>9
      <3>3. queue(s * 1000) \in Nat
        BY <2>9, <2>10, SlotOfSecond
      <3>4. QED
        BY <3>1, <3>2, <3>3, <2>6
    <2>12. TimeToGenerate(s * 1000, p)
      BY <2>3, <2>11 DEF TimeToGenerate, nodePosition
    <2>13. ASSUME NEW u \in Unix(now)..(s - 1), TimeToGenerate(u * 1000, p)
           PROVE  queue(u * 1000) = q
      <3>1. u \in Nat /\ u >= FirstBlockTime /\ u >= Unix(now) /\ u + 1 <= s
        BY <2>1, <2>5, <2>9
      <3>2. queue(u * 1000) \in Nat
        BY <3>1, SlotOfSecond
      <3>3. queue(u * 1000) < q + d
        <4>1. queue(u * 1000) >= q + d <=> D0 < u * 1000 - Start
          BY <3>1, <2>6, SlotOfSecond DEF D0
        <4>2. u * 1000 <= m
          BY <3>1, <2>8, <2>9
        <4>3. QED
          BY <4>1, <4>2, <3>1, <3>2, <2>5, <2>6, <2>7, <2>8
      <3>4. queue(u * 1000) >= q
        <4>1. CASE q = 0
          BY <3>2, <4>1
        <4>2. CASE q > 0
          <5> DEFINE D == Duration * q
          <5>1. D \in Nat
            BY <2>2, <2>5
          <5>2. /\ queue(u * 1000) >= q <=> D < u * 1000 - Start
                /\ queue(Unix(now) * 1000) >= q <=> D < Unix(now) * 1000 - Start
            BY <2>1, <2>2, <3>1, <4>2, SlotOfSecond
          <5> HIDE DEF D
          <5>3. QED
            BY <5>1, <5>2, <2>1, <2>2, <2>5, <3>1
        <4>3. QED
          BY <2>2, <4>1, <4>2
      <3>5. queue(u * 1000) # q => FALSE
        <4> SUFFICES ASSUME queue(u * 1000) # q PROVE FALSE
          OBVIOUS
        <4> DEFINE e == queue(u * 1000) - q
        <4>1. e \in 1..(d - 1) /\ q + e = queue(u * 1000)
          BY <2>2, <2>6, <3>2, <3>3, <3>4
        <4>2. (q + e) % NumberNodes = p
          BY <2>13, <4>1 DEF TimeToGenerate, nodePosition
        <4>3. QED
          BY <2>3, <4>1, <4>2
      <3>6. QED
        BY <3>5
    <2>14. QED
      BY <2>2, <2>6, <2>11, <2>12, <2>13 DEF s, q
  <1>2. TypeOK => NextTimeIsNextTurn
    BY <1>1 DEF NextTimeIsNextTurn
  <1>3. QED
    BY <1>2, TypeCorrect, PTL
=============================================================================
