---------------------------- MODULE MCNode_proofs ----------------------------
(***************************************************************************)
(* Proofs about the services of a node (MCNode).  Each service has an      *)
(* inductive invariant of its own; a step of another machine leaves its    *)
(* variables alone.                                                        *)
(***************************************************************************)
EXTENDS MCNode, FiniteSetTheorems, TLAPS

-----------------------------------------------------------------------------
(***************************************************************************)
(* The system parameters.                                                  *)
(***************************************************************************)

\* While nothing was undone without a look at the flags, the cache is what the
\* transaction or the block sees, also when a parameter has just been changed;
\* a transaction that has changed none sees its savepoint.
CacheInv ==
  /\ phase \in {"idle", "block", "tx"}
  /\ tainted \in BOOLEAN /\ txFlag \in BOOLEAN
  /\ phase \in {"block", "tx"} /\ ~tainted => cache = dbT
  /\ phase = "idle" /\ ~tainted => cache = dbC
  /\ phase = "tx" /\ ~txFlag => dbT = sp

\* It holds in the beginning: everything is Zero (InitDB, SysUpdate).
LEMMA CacheInvInit == S!Init => CacheInv
  BY DEF S!Init, CacheInv

\* A transaction (UpdateSysParam, Play) keeps it: the cache goes the way of the
\* rows, and back with them when the transaction fails.
LEMMA TxKeepsCacheInv ==
  ASSUME CacheInv,
         \/ S!BeginTx
         \/ \E name, value : S!UpdateSysParam(name, value)
         \/ S!TxDone \/ S!TxFails \/ S!LimitStop
  PROVE  CacheInv'
<1>1. CASE S!BeginTx
  BY <1>1 DEF CacheInv, S!BeginTx
<1>2. CASE \E name, value : S!UpdateSysParam(name, value)
  BY <1>2 DEF CacheInv, S!UpdateSysParam, S!SysUpdate
<1>3. CASE S!TxDone
  BY <1>3 DEF CacheInv, S!TxDone
<1>4. CASE S!TxFails
  BY <1>4 DEF CacheInv, S!TxFails, S!SysUpdate
<1>5. CASE S!LimitStop
  BY <1>5 DEF CacheInv, S!LimitStop
<1> QED
  BY <1>1, <1>2, <1>3, <1>4, <1>5

\* The begin and the end of a block, a rollback and a restart (PlaySafe,
\* processBlocks, RollbackBlock, RunAllDaemons) keep it.
LEMMA BlockKeepsCacheInv ==
  ASSUME CacheInv,
         \/ \E r \in {"generate", "receive", "process"} : S!BeginBlock(r)
         \/ S!PlaySafe \/ S!EndOfBlock \/ S!Abort \/ S!RollbackBlock \/ S!Restart
  PROVE  CacheInv'
<1>1. CASE \E r \in {"generate", "receive", "process"} : S!BeginBlock(r)
  BY <1>1 DEF CacheInv, S!BeginBlock
<1>2. CASE S!PlaySafe
  BY <1>2 DEF CacheInv, S!PlaySafe, S!SysUpdate
<1>3. CASE S!EndOfBlock
  BY <1>3 DEF CacheInv, S!EndOfBlock, S!SysUpdate
<1>4. CASE S!Abort
  BY <1>4 DEF CacheInv, S!Abort
<1>5. CASE S!RollbackBlock
  BY <1>5 DEF CacheInv, S!RollbackBlock
<1>6. CASE S!Restart
  BY <1>6 DEF CacheInv, S!Restart
<1> QED
  BY <1>1, <1>2, <1>3, <1>4, <1>5, <1>6

\* A step of any machine keeps it (MCNode!Next).
LEMMA CacheInvNext == CacheInv /\ [Next]_vars => CacheInv'
<1> SUFFICES ASSUME CacheInv, [Next]_vars
             PROVE  CacheInv'
  OBVIOUS
<1>1. CASE S!Next
  BY <1>1, TxKeepsCacheInv, BlockKeepsCacheInv DEF S!Next
<1>2. CASE UNCHANGED sys
  BY <1>2 DEF sys, CacheInv
<1> QED
  BY <1>1, <1>2 DEF Next, vars

\* Whatever blocks are made, received, processed, cut, failed or rolled back:
\* unless one of these left the cache behind, it is what the transactions of
\* the block, or between blocks the database, say (SysUpdate, Play, PlaySafe).
THEOREM CacheAlwaysFollows == Spec => []CacheFollowsState
<1>1. Init => CacheInv
  BY CacheInvInit DEF Init
<1>2. CacheInv => CacheFollowsState
  BY DEF CacheInv, CacheFollowsState, S!CacheFollowsState
<1> QED
  BY <1>1, <1>2, CacheInvNext, PTL DEF Spec

-----------------------------------------------------------------------------
(***************************************************************************)
(* Bad blocks and bans.                                                    *)
(***************************************************************************)
Reports == [producer : Suspects, consumer : Nodes \cup {Me}, id : BadIds, time : Nat, deleted : BOOLEAN]

Deleted(r) == [r EXCEPT !.deleted = TRUE]

\* A committed report is a row, marked or not.
CommittedIsRow == \A r \in committed : r \in rows \/ Deleted(r) \in rows

\* What a ban is based on is marked, and so the next block has no other view of
\* it: the count reads the committed table, which is a block behind the marks.
SpentIsMarked ==
  \A x \in spent :
    /\ x[1] \in Reports /\ x[1].deleted = FALSE /\ x[2] \in Nat /\ x[2] <= now
    /\ Deleted(x[1]) \in rows /\ x[1] \notin rows
    /\ x[2] < now => x[1] \notin committed

BanInv ==
  /\ now \in Nat
  /\ txs \subseteq Reports /\ rows \subseteq Reports /\ committed \subseteq Reports
  /\ CommittedIsRow /\ SpentIsMarked /\ B!ReportsCountOnce

\* A mark is put on once, and only the mark changes (UpdateNodesBan).
LEMMA MarkOfReport ==
  ASSUME NEW r \in Reports
  PROVE  /\ Deleted(r) \in Reports /\ Deleted(r).deleted = TRUE
         /\ r.deleted => Deleted(r) = r
  BY DEF Reports, Deleted

\* It holds in the beginning: there is no report.
LEMMA BanInvInit == B!Init => BanInv
  BY DEF B!Init, BanInv, CommittedIsRow, SpentIsMarked, B!ReportsCountOnce

\* A report of this node is one (localBan, newBadBlock).
LEMMA RegisterKeepsBanInv ==
  ASSUME BanInv, NEW p \in Suspects, NEW b \in BadIds, B!RegisterBadBlock(p, b)
  PROVE  BanInv'
<1>1. UNCHANGED <<now, rows, committed, spent>>
  BY DEF B!RegisterBadBlock
<1>2. txs' \subseteq Reports
  <2>1. [producer |-> p, consumer |-> Me, id |-> b, time |-> now, deleted |-> FALSE] \in Reports
    BY DEF BanInv, Reports
  <2> QED
    BY <2>1 DEF BanInv, B!RegisterBadBlock, B!LocalBan
<1> QED
  BY <1>1, <1>2 DEF BanInv, CommittedIsRow, SpentIsMarked, B!ReportsCountOnce

\* A report that was counted does not come back: its mark keeps it out
\* (NewBadBlock).
LEMMA NewBadBlockKeepsBanInv ==
  ASSUME BanInv, NEW r \in Reports, ~r.deleted, B!NewBadBlock(r)
  PROVE  BanInv'
<1>1. /\ Deleted(r) \notin rows /\ rows' = rows \cup {r} /\ txs' \subseteq txs
      /\ UNCHANGED <<now, committed, spent>>
  BY DEF B!NewBadBlock, Deleted
<1>2. CommittedIsRow'
  BY <1>1 DEF BanInv, CommittedIsRow
<1>3. SpentIsMarked'
  BY <1>1 DEF BanInv, SpentIsMarked
<1> QED
  BY <1>1, <1>2, <1>3 DEF BanInv, B!ReportsCountOnce

\* A block is committed: the table that the count reads has the marks of it
\* (CallDelayedContract in the block before).
LEMMA EndBlockKeepsBanInv ==
  ASSUME BanInv, B!EndBlock
  PROVE  BanInv'
<1>1. now' = now + 1 /\ committed' = rows /\ UNCHANGED <<txs, rows, spent>>
  BY DEF B!EndBlock
<1>2. CommittedIsRow' /\ SpentIsMarked'
  BY <1>1 DEF BanInv, CommittedIsRow, SpentIsMarked
<1> QED
  BY <1>1, <1>2 DEF BanInv, B!ReportsCountOnce

\* The count marks what it counts, and nothing that a block before has counted
\* (GetNeedToBanNodes, GetNodeBlocks, UpdateNodesBan).
LEMMA CheckKeepsBanInv ==
  ASSUME BanInv, B!CallDelayedContract
  PROVE  BanInv'
<1> DEFINE guilty == {p \in Nodes : B!NeedToBan(p, now)}
           counted == UNION {B!NodeBlocks(p, now) : p \in guilty}
           mark(r) == IF r \in counted THEN Deleted(r) ELSE r
<1>1. UNCHANGED <<now, txs, committed>> /\ spent' = spent \cup {<<r, now>> : r \in counted}
  BY DEF B!CallDelayedContract, B!UpdateNodesBan
<1>2. rows' = {mark(r) : r \in rows}
  BY DEF B!CallDelayedContract, B!UpdateNodesBan, B!MarkDeleted, Deleted
<1>3. counted \subseteq committed /\ \A r \in counted : ~r.deleted
  BY DEF B!NodeBlocks, B!Recent
<1> HIDE DEF counted, guilty
<1>4. rows' \subseteq Reports
  <2>1. \A r \in rows : mark(r) \in Reports
    BY MarkOfReport DEF BanInv
  <2> QED
    BY <1>2, <2>1
<1>5. ASSUME NEW r \in Reports, r \in rows \/ Deleted(r) \in rows
      PROVE  r \in rows' \/ Deleted(r) \in rows'
  <2>1. CASE r \in rows
    BY <2>1, <1>2
  <2>2. CASE Deleted(r) \in rows
    BY <2>2, <1>2, <1>3, MarkOfReport
  <2> QED
    BY <1>5, <2>1, <2>2
<1>6. ASSUME NEW r \in Reports, Deleted(r) \in rows
      PROVE  Deleted(r) \in rows'
  BY <1>6, <1>2, <1>3, MarkOfReport
<1>7. ASSUME NEW r \in Reports, ~r.deleted, r \in rows'
      PROVE  r \in rows /\ r \notin counted
  <2>1. PICK s \in rows : r = mark(s)
    BY <1>7, <1>2
  <2>2. s \in Reports
    BY DEF BanInv
  <2>3. s \notin counted
    BY <1>7, <2>1, <2>2, MarkOfReport
  <2> QED
    BY <2>1, <2>3
<1>8. CommittedIsRow'
  BY <1>1, <1>5 DEF BanInv, CommittedIsRow
<1>9. ASSUME NEW r \in counted
      PROVE  r \in Reports /\ ~r.deleted /\ Deleted(r) \in rows' /\ r \notin rows'
  <2>1. r \in Reports /\ ~r.deleted
    BY <1>3 DEF BanInv
  <2>2. r \notin rows'
    BY <2>1, <1>7
  <2>3. r \in rows' \/ Deleted(r) \in rows'
    BY <2>1, <1>3, <1>5 DEF BanInv, CommittedIsRow
  <2> QED
    BY <2>1, <2>2, <2>3
<1>10. ASSUME NEW x \in spent
       PROVE  /\ x[1] \in Reports /\ Deleted(x[1]) \in rows' /\ x[1] \notin rows'
              /\ x[1] \in counted => x[2] = now
  <2>1. /\ x[1] \in Reports /\ x[1].deleted = FALSE /\ x[2] \in Nat /\ x[2] <= now
        /\ Deleted(x[1]) \in rows /\ x[1] \notin rows
        /\ x[2] < now => x[1] \notin committed
    BY DEF BanInv, SpentIsMarked
  <2>2. Deleted(x[1]) \in rows'
    BY <2>1, <1>6
  <2>3. x[1] \notin rows'
    BY <2>1, <1>7
  <2>4. x[1] \in counted => x[2] = now
    BY <2>1, <1>3 DEF BanInv
  <2> QED
    BY <2>1, <2>2, <2>3, <2>4
<1>11. SpentIsMarked'
  <2>1. ASSUME NEW x \in spent'
        PROVE  /\ x[1] \in Reports /\ x[1].deleted = FALSE /\ x[2] \in Nat /\ x[2] <= now
               /\ Deleted(x[1]) \in rows' /\ x[1] \notin rows'
               /\ x[2] < now => x[1] \notin committed
    <3>1. CASE x \in spent
      BY <3>1, <1>10 DEF BanInv, SpentIsMarked
    <3>2. CASE \E r \in counted : x = <<r, now>>
      <4>1. PICK r \in counted : x = <<r, now>>
        BY <3>2
      <4> QED
        BY <4>1, <1>9 DEF BanInv, Reports
    <3> QED
      BY <3>1, <3>2, <1>1
  <2> QED
    BY <2>1, <1>1 DEF SpentIsMarked
<1>12. B!ReportsCountOnce'
  <2>1. ASSUME NEW x \in spent', NEW y \in spent', x[1] = y[1]
        PROVE  x[2] = y[2]
    <3>1. CASE x \in spent /\ y \in spent
      BY <3>1, <2>1 DEF BanInv, B!ReportsCountOnce
    <3>2. \A z \in spent' : z \in spent \/ (z[1] \in counted /\ z[2] = now)
      BY <1>1
    <3> QED
      BY <2>1, <3>1, <3>2, <1>10
  <2> QED
    BY <2>1 DEF B!ReportsCountOnce
<1> QED
  BY <1>1, <1>4, <1>8, <1>11, <1>12 DEF BanInv

\* A step of any machine keeps it (MCNode!Next).
LEMMA BanInvNext == BanInv /\ [Next]_vars => BanInv'
<1> SUFFICES ASSUME BanInv, [Next]_vars
             PROVE  BanInv'
  OBVIOUS
<1>1. CASE B!Next
  <2>1. ASSUME NEW p \in Suspects, NEW b \in BadIds, B!RegisterBadBlock(p, b)
        PROVE  BanInv'
    BY <2>1, RegisterKeepsBanInv
  <2>2. CASE B!FilterBannedHosts
    BY <2>2 DEF B!FilterBannedHosts, BanInv, CommittedIsRow, SpentIsMarked, B!ReportsCountOnce
  <2>3. ASSUME NEW p \in Suspects, NEW c \in Nodes, NEW b \in BadIds, NEW t \in 1..MaxTime,
               B!NewBadBlock([producer |-> p, consumer |-> c, id |-> b, time |-> t, deleted |-> FALSE])
        PROVE  BanInv'
    <3> DEFINE r == [producer |-> p, consumer |-> c, id |-> b, time |-> t, deleted |-> FALSE]
    <3>1. r \in Reports /\ ~r.deleted
      BY DEF Reports
    <3> QED
      BY <3>1, <2>3, NewBadBlockKeepsBanInv
  <2> QED
    BY <1>1, <2>1, <2>2, <2>3, CheckKeepsBanInv, EndBlockKeepsBanInv DEF B!Next
<1>2. CASE UNCHANGED ban
  BY <1>2 DEF ban, BanInv, CommittedIsRow, SpentIsMarked, B!ReportsCountOnce
<1> QED
  BY <1>1, <1>2 DEF Next, vars

\* No report counts towards two bans, although the check reads a table that is
\* a block behind the marks, may run more than once in a block, and may meet
\* the same report again (UpdateNodesBan, NewBadBlock): the safety half of
\* BansAreRight.
THEOREM ReportsNeverCountTwice == Spec => []B!ReportsCountOnce
<1>1. Init => BanInv
  BY BanInvInit DEF Init
<1>2. BanInv => B!ReportsCountOnce
  BY DEF BanInv
<1> QED
  BY <1>1, <1>2, BanInvNext, PTL DEF Spec

-----------------------------------------------------------------------------
(***************************************************************************)
(* The disseminator.                                                       *)
(***************************************************************************)
DisType ==
  /\ trs \subseteq Txs /\ hosts \subseteq Hosts
  /\ con \in [Hosts -> {"none", "asked", "done", "error"}]
  /\ want \in [Hosts -> SUBSET Txs] /\ have \in [Hosts -> SUBSET Txs] /\ body \in [Hosts -> SUBSET Txs]
  /\ pool \in [Txs -> {"none", "unsent", "sent"}]

\* What a goroutine stands for: a host that was asked has a transaction or has
\* asked for it, and one that is done has it, gets it, or it is lost.  Between
\* two rounds there is no goroutine.
ConIsTrue ==
  /\ ~sending => \A h \in Hosts : con[h] = "none"
  /\ \A h \in Hosts :
       /\ con[h] = "asked" => trs \subseteq have[h] \cup want[h]
       /\ con[h] = "done" => trs \subseteq have[h] \cup body[h] \cup lost

DisInv == DisType /\ ConIsTrue /\ D!SentIsTaken

\* It holds in the beginning: nothing is sent.
LEMMA DisInvInit == D!Init => DisInv
  BY DEF D!Init, DisInv, DisType, ConIsTrue, D!SentIsTaken

\* The daemon begins a round (Disseminator).
LEMMA RoundKeepsDisInv ==
  ASSUME DisInv, NEW away \in SUBSET Hosts, D!Disseminator(away)
  PROVE  DisInv'
<1>1. /\ trs' \subseteq Txs /\ hosts' \subseteq Hosts /\ sending' = TRUE /\ ~sending
      /\ UNCHANGED <<con, want, have, pool, body, lost, alone>>
  BY DEF D!Disseminator, D!Unsent
<1>2. ConIsTrue'
  BY <1>1 DEF DisInv, ConIsTrue
<1> QED
  BY <1>1, <1>2 DEF DisInv, DisType, D!SentIsTaken

\* What was taken stays taken while a body becomes a row or is lost: the tables
\* of the hosts, what is under way and what is lost only grow together.
LEMMA TakenStaysTaken ==
  ASSUME D!SentIsTaken, UNCHANGED <<pool, alone>>, lost \subseteq lost',
         \A h \in Hosts : have[h] \cup body[h] \subseteq have'[h] \cup body'[h] \cup lost'
  PROVE  D!SentIsTaken'
<1> SUFFICES ASSUME NEW t \in Txs, pool[t] = "sent", ~alone, t \notin lost'
             PROVE  \E h \in Hosts : t \in have'[h] \cup body'[h]
  BY DEF D!SentIsTaken
<1>1. PICK h \in Hosts : t \in have[h] \cup body[h]
  BY DEF D!SentIsTaken
<1> QED
  BY <1>1

\* The goroutine of a host (sendBlockWithTxHashes, Type1, Type2): a refusal says
\* nothing of the transactions, an answer names those that are missing, and the
\* bodies of these are sent or lost.
LEMMA HostKeepsDisInv ==
  ASSUME DisInv, NEW h \in Hosts,
         D!Refuse(h) \/ D!Type1(h) \/ D!SendBodies(h) \/ D!SaveNewTransactions(h) \/ D!Type2(h)
  PROVE  DisInv'
<1>1. CASE D!Refuse(h)
  <2>1. /\ con' = [con EXCEPT ![h] = "error"] /\ want' = [want EXCEPT ![h] = {}] /\ sending
        /\ UNCHANGED <<pool, sending, trs, hosts, have, body, lost, alone>>
    BY <1>1 DEF D!Refuse
  <2>2. DisType'
    BY <2>1 DEF DisInv, DisType
  <2>3. ConIsTrue'
    BY <2>1 DEF DisInv, DisType, ConIsTrue
  <2> QED
    BY <2>1, <2>2, <2>3 DEF DisInv, D!SentIsTaken
<1>2. CASE D!Type1(h)
  <2>1. /\ con' = [con EXCEPT ![h] = "asked"] /\ want' = [want EXCEPT ![h] = trs \ have[h]] /\ sending
        /\ UNCHANGED <<pool, sending, trs, hosts, have, body, lost, alone>>
    BY <1>2 DEF D!Type1
  <2>2. DisType'
    BY <2>1 DEF DisInv, DisType
  <2>3. ConIsTrue'
    BY <2>1 DEF DisInv, DisType, ConIsTrue
  <2> QED
    BY <2>1, <2>2, <2>3 DEF DisInv, D!SentIsTaken
<1>3. CASE D!SendBodies(h)
  <2>1. /\ con[h] = "asked" /\ con' = [con EXCEPT ![h] = "done"] /\ want' = [want EXCEPT ![h] = {}]
        /\ sending /\ UNCHANGED <<pool, sending, trs, hosts, have, alone>>
        /\ \/ lost' = lost \cup want[h] /\ UNCHANGED body
           \/ body' = [body EXCEPT ![h] = @ \cup want[h]] /\ UNCHANGED lost
    BY <1>3 DEF D!SendBodies
  <2>2. DisType'
    BY <2>1 DEF DisInv, DisType
  <2>3. /\ lost \subseteq lost' /\ want[h] \subseteq body'[h] \cup lost'
        /\ \A g \in Hosts : body[g] \subseteq body'[g]
    BY <2>1 DEF DisInv, DisType
  <2>4. ConIsTrue'
    BY <2>1, <2>3 DEF DisInv, DisType, ConIsTrue
  <2>5. D!SentIsTaken'
    BY <2>1, <2>3, TakenStaysTaken DEF DisInv
  <2> QED
    BY <2>2, <2>4, <2>5 DEF DisInv
<1>4. CASE D!SaveNewTransactions(h)
  <2>1. /\ body' = [body EXCEPT ![h] = {}]
        /\ UNCHANGED <<pool, sending, trs, hosts, con, want, alone>>
        /\ \/ have' = [have EXCEPT ![h] = @ \cup body[h]] /\ UNCHANGED lost
           \/ lost' = lost \cup body[h] /\ UNCHANGED have
    BY <1>4 DEF D!SaveNewTransactions
  <2>2. DisType'
    BY <2>1 DEF DisInv, DisType
  <2>3. /\ lost \subseteq lost' /\ \A g \in Hosts : have[g] \subseteq have'[g]
        /\ \A g \in Hosts : have[g] \cup body[g] \subseteq have'[g] \cup body'[g] \cup lost'
    BY <2>1 DEF DisInv, DisType
  <2>4. ConIsTrue'
    BY <2>1, <2>3 DEF DisInv, DisType, ConIsTrue
  <2>5. D!SentIsTaken'
    BY <2>1, <2>3, TakenStaysTaken DEF DisInv
  <2> QED
    BY <2>2, <2>4, <2>5 DEF DisInv
<1>5. CASE D!Type2(h)
  <2>1. /\ con' = [con EXCEPT ![h] = "done"] /\ lost' = lost \cup trs /\ sending
        /\ UNCHANGED <<pool, sending, trs, hosts, want, have, body, alone>>
    BY <1>5 DEF D!Type2
  <2>2. DisType'
    BY <2>1 DEF DisInv, DisType
  <2>3. ConIsTrue'
    BY <2>1 DEF DisInv, DisType, ConIsTrue
  <2>4. D!SentIsTaken'
    BY <2>1 DEF DisInv, D!SentIsTaken
  <2> QED
    BY <2>2, <2>3, <2>4 DEF DisInv
<1> QED
  BY <1>1, <1>2, <1>3, <1>4, <1>5

\* The end of a round (SendFullBlockToAll, MarkTransactionSentBatches): not all
\* hosts have failed, so that one is done, or there was none.
LEMMA MarkKeepsDisInv ==
  ASSUME DisInv, D!MarkSent
  PROVE  DisInv'
<1>1. /\ \A h \in hosts : con[h] \in {"done", "error"}
      /\ sending' = FALSE /\ trs' = {} /\ hosts' = {} /\ con' = [h \in Hosts |-> "none"]
      /\ UNCHANGED <<want, have, body, lost>>
  BY DEF D!MarkSent
<1>2. \/ UNCHANGED <<pool, alone>>
      \/ /\ ~D!AllFailed /\ alone' = (alone \/ hosts = {})
         /\ pool' = [t \in Txs |-> IF t \in trs THEN "sent" ELSE pool[t]]
  BY DEF D!MarkSent
<1>3. DisType'
  BY <1>1, <1>2 DEF DisInv, DisType
<1>4. ConIsTrue'
  BY <1>1 DEF ConIsTrue
<1>5. D!SentIsTaken'
  <2>1. CASE UNCHANGED <<pool, alone>>
    BY <1>1, <2>1 DEF DisInv, D!SentIsTaken
  <2>2. CASE ~D!AllFailed /\ alone' = (alone \/ hosts = {}) /\ pool' = [t \in Txs |-> IF t \in trs THEN "sent" ELSE pool[t]]
    <3>1. CASE hosts = {}
      BY <2>2, <3>1 DEF D!SentIsTaken
    <3>2. CASE hosts # {}
      <4>1. PICK h \in hosts : con[h] = "done"
        BY <1>1, <2>2, <3>2 DEF D!AllFailed
      <4>2. h \in Hosts /\ trs \subseteq have[h] \cup body[h] \cup lost
        BY <4>1 DEF DisInv, DisType, ConIsTrue
      <4>3. ASSUME NEW t \in Txs, pool'[t] = "sent"
            PROVE  alone' \/ t \in lost' \/ \E g \in Hosts : t \in have'[g] \cup body'[g]
        <5>1. CASE t \in trs
          BY <5>1, <4>2, <1>1
        <5>2. CASE t \notin trs
          <6>1. pool[t] = "sent"
            BY <5>2, <4>3, <2>2
          <6> QED
            BY <6>1, <1>1, <2>2 DEF DisInv, D!SentIsTaken
        <5> QED
          BY <5>1, <5>2
      <4> QED
        BY <4>3 DEF D!SentIsTaken
    <3> QED
      BY <3>1, <3>2
  <2> QED
    BY <1>2, <2>1, <2>2
<1> QED
  BY <1>3, <1>4, <1>5 DEF DisInv

\* What comes from elsewhere, and a crash in the middle of a round: nothing is
\* marked by it.
LEMMA OthersKeepDisInv ==
  ASSUME DisInv,
         \/ D!UpdBlockInfo \/ D!Crash
         \/ \E t \in Txs : D!NewTx(t) \/ \E h \in Hosts : D!OtherRoute(h, t)
  PROVE  DisInv'
<1>1. CASE D!UpdBlockInfo
  BY <1>1 DEF D!UpdBlockInfo, DisInv, DisType, ConIsTrue, D!SentIsTaken
<1>2. CASE D!Crash
  <2>1. /\ con' = [h \in Hosts |-> "none"] /\ want' = [h \in Hosts |-> {}] /\ trs' = {} /\ hosts' = {}
        /\ UNCHANGED <<pool, have, body, lost, alone>>
    BY <1>2 DEF D!Crash
  <2> QED
    BY <2>1 DEF DisInv, DisType, ConIsTrue, D!SentIsTaken
<1>3. ASSUME NEW t \in Txs, D!NewTx(t)
      PROVE  DisInv'
  <2>1. /\ pool' = [pool EXCEPT ![t] = "unsent"]
        /\ UNCHANGED <<sending, trs, hosts, con, want, have, body, lost, alone>>
    BY <1>3 DEF D!NewTx
  <2>2. DisType' /\ ConIsTrue'
    BY <2>1 DEF DisInv, DisType, ConIsTrue
  <2>3. D!SentIsTaken'
    BY <2>1 DEF DisInv, DisType, D!SentIsTaken
  <2> QED
    BY <2>2, <2>3 DEF DisInv
<1>4. ASSUME NEW t \in Txs, NEW h \in Hosts, D!OtherRoute(h, t)
      PROVE  DisInv'
  <2>1. /\ have' = [have EXCEPT ![h] = @ \cup {t}]
        /\ UNCHANGED <<pool, sending, trs, hosts, con, want, body, lost, alone>>
    BY <1>4 DEF D!OtherRoute
  <2>2. DisType' /\ \A g \in Hosts : have[g] \subseteq have'[g]
    BY <2>1 DEF DisInv, DisType
  <2>3. ConIsTrue'
    BY <2>1, <2>2 DEF DisInv, DisType, ConIsTrue
  <2>4. D!SentIsTaken'
    BY <2>1, <2>2, TakenStaysTaken DEF DisInv
  <2> QED
    BY <2>2, <2>3, <2>4 DEF DisInv
<1> QED
  BY <1>1, <1>2, <1>3, <1>4

\* A step of any machine keeps it (MCNode!Next).
LEMMA DisInvNext == DisInv /\ [Next]_vars => DisInv'
<1> SUFFICES ASSUME DisInv, [Next]_vars
             PROVE  DisInv'
  OBVIOUS
<1>1. CASE D!Next
  BY <1>1, RoundKeepsDisInv, HostKeepsDisInv, MarkKeepsDisInv, OthersKeepDisInv DEF D!Next
<1>2. CASE UNCHANGED dis
  BY <1>2 DEF dis, DisInv, DisType, ConIsTrue, D!SentIsTaken
<1> QED
  BY <1>1, <1>2 DEF Next, vars

\* A transaction is marked sent only when a host has it, gets it or had asked
\* for it, or when there was no host to send to: connections that fail, hosts
\* that refuse or break off and a crash in a round never mark one (Disseminator,
\* ErrNodesUnavailable): the safety half of SendingIsTrue.
THEOREM SentMeansTaken == Spec => []D!SentIsTaken
<1>1. Init => DisInv
  BY DisInvInit DEF Init
<1>2. DisInv => D!SentIsTaken
  BY DEF DisInv
<1> QED
  BY <1>1, <1>2, DisInvNext, PTL DEF Spec

-----------------------------------------------------------------------------
(***************************************************************************)
(* Start and stop.                                                         *)
(***************************************************************************)
Gone == {d \in Daemons : daemon[d] = "gone"}

LifeType ==
  /\ daemon \in [Daemons -> {"none", "waitdb", "handler", "sleep", "return", "gone"}]
  /\ count \in Nat /\ names \in [L!Stoppers -> Nat]
  /\ stopper \in [L!Stoppers -> {"none", "delete", "wait", "receive", "closed"}]

\* Every daemon is counted once Start has gone on from StartDaemons, and nobody
\* receives names before that.
StopAfterStart ==
  /\ boot # "daemons" => count = Cardinality(Daemons)
  /\ stopper["WaitForSignals"] # "none" => boot # "daemons"
  /\ row = "written" => boot # "daemons"
  /\ stopper["WaitStopTime"] \in {"receive", "closed"} => boot # "daemons"

\* Each name that a stopper has received is that of a daemon that has ended.
NamesAreGone == \A s \in L!Stoppers : names[s] <= Cardinality(Gone)

\* A closed database has no daemon left, asleep or at work.
ClosedIsQuiet == ~db => Gone = Daemons

LifeInv == LifeType /\ StopAfterStart /\ NamesAreGone /\ ClosedIsQuiet

\* The number of daemons that Lifecycle compares with is the cardinality.
LEMMA LifecycleCounts == \A T : L!Cardinality(T) = Cardinality(T)
  BY Zenon DEF L!Cardinality, Cardinality

\* The daemons that have ended can be counted.
LEMMA GoneIsFinite ==
  /\ IsFiniteSet(Gone) /\ Cardinality(Gone) \in Nat /\ Cardinality(Daemons) \in Nat
  /\ Cardinality(Gone) >= Cardinality(Daemons) => Gone = Daemons
<1>1. Gone \subseteq Daemons /\ IsFiniteSet(Daemons)
  BY ListsAreFinite DEF Gone
<1>2. IsFiniteSet(Gone) /\ Cardinality(Gone) \in Nat /\ Cardinality(Daemons) \in Nat
  BY <1>1, FS_Subset, FS_CardinalityType
<1>3. Cardinality(Gone) <= Cardinality(Daemons) /\ (Cardinality(Daemons) = Cardinality(Gone) => Daemons = Gone)
  BY <1>1, FS_Subset
<1> QED
  BY <1>2, <1>3

\* It holds in the beginning: nothing is started.
LEMMA LifeInvInit == L!Init => LifeInv
<1> SUFFICES ASSUME L!Init
             PROVE  LifeInv
  OBVIOUS
<1>1. LifeType
  BY DEF L!Init, LifeType, L!Stoppers
<1>2. StopAfterStart
  BY DEF L!Init, StopAfterStart, L!Stoppers
<1>3. NamesAreGone
  BY GoneIsFinite DEF L!Init, NamesAreGone
<1>4. ClosedIsQuiet
  BY DEF L!Init, ClosedIsQuiet
<1> QED
  BY <1>1, <1>2, <1>3, <1>4 DEF LifeInv

\* A step in which no daemon ends and nothing is closed keeps what is said of
\* the daemons that have ended.
LEMMA SameGone ==
  ASSUME LifeInv, Gone' = Gone, UNCHANGED <<names, db>>
  PROVE  NamesAreGone' /\ ClosedIsQuiet'
  BY DEF LifeInv, NamesAreGone, ClosedIsQuiet

\* Start (StartDaemons, Start, WaitForSignals).
LEMMA StartKeepsLifeInv ==
  ASSUME LifeInv,
         \/ L!CountDaemon \/ L!StartServices \/ L!WaitForSignals
         \/ \E d \in Daemons : L!StartDaemon(d)
  PROVE  LifeInv'
<1>1. CASE L!CountDaemon
  <2>1. /\ boot = "daemons" /\ count' = count + 1
        /\ UNCHANGED <<boot, daemon, row, stopper, names, db>>
    BY <1>1 DEF L!CountDaemon
  <2>2. Gone' = Gone
    BY <2>1 DEF Gone
  <2>3. LifeType' /\ StopAfterStart'
    BY <2>1 DEF LifeInv, LifeType, StopAfterStart
  <2> QED
    BY <2>1, <2>2, <2>3, SameGone DEF LifeInv
<1>2. CASE L!StartServices
  <2>1. /\ boot' = "signals" /\ count = Cardinality(Daemons)
        /\ UNCHANGED <<daemon, count, row, stopper, names, db>>
    BY <1>2, LifecycleCounts DEF L!StartServices
  <2>2. Gone' = Gone
    BY <2>1 DEF Gone
  <2>3. LifeType' /\ StopAfterStart'
    BY <2>1 DEF LifeInv, LifeType, StopAfterStart
  <2> QED
    BY <2>1, <2>2, <2>3, SameGone DEF LifeInv
<1>3. CASE L!WaitForSignals
  <2>1. /\ boot = "signals" /\ boot' = "done" /\ stopper' = [stopper EXCEPT !["WaitForSignals"] = "wait"]
        /\ UNCHANGED <<daemon, count, row, names, db>>
    BY <1>3 DEF L!WaitForSignals
  <2>2. Gone' = Gone
    BY <2>1 DEF Gone
  <2>3. LifeType' /\ StopAfterStart'
    BY <2>1 DEF LifeInv, LifeType, StopAfterStart, L!Stoppers
  <2> QED
    BY <2>1, <2>2, <2>3, SameGone DEF LifeInv
<1>4. ASSUME NEW d \in Daemons, L!StartDaemon(d)
      PROVE  LifeInv'
  <2>1. /\ daemon[d] = "none" /\ daemon' = [daemon EXCEPT ![d] = "waitdb"]
        /\ UNCHANGED <<boot, count, row, stopper, names, db>>
    BY <1>4 DEF L!StartDaemon
  <2>2. Gone' = Gone
    BY <2>1 DEF Gone, LifeInv, LifeType
  <2>3. LifeType' /\ StopAfterStart'
    BY <2>1 DEF LifeInv, LifeType, StopAfterStart
  <2> QED
    BY <2>1, <2>2, <2>3, SameGone DEF LifeInv
<1> QED
  BY <1>1, <1>2, <1>3, <1>4

\* A daemon ends: what is said of the ended ones stays true, and there may be a
\* name more.
LEMMA OneMoreGone ==
  ASSUME LifeInv, NEW d \in Daemons, daemon[d] # "gone", daemon' = [daemon EXCEPT ![d] = "gone"], db' = db,
         \A s \in L!Stoppers : names'[s] \in {names[s], names[s] + 1}
  PROVE  NamesAreGone' /\ ClosedIsQuiet'
<1>1. Gone' = Gone \cup {d} /\ d \notin Gone
  BY DEF Gone, LifeInv, LifeType
<1>2. Cardinality(Gone') = Cardinality(Gone) + 1
  BY <1>1, GoneIsFinite, FS_AddElement
<1>3. \A s \in L!Stoppers : names[s] \in Nat /\ names[s] <= Cardinality(Gone)
  BY DEF LifeInv, LifeType, NamesAreGone
<1>4. \A s \in L!Stoppers : names'[s] <= Cardinality(Gone) + 1
  BY <1>3, GoneIsFinite
<1>5. db
  BY <1>1 DEF LifeInv, ClosedIsQuiet
<1> QED
  BY <1>2, <1>4, <1>5 DEF NamesAreGone, ClosedIsQuiet

\* A daemon (WaitDB, daemonLoop): no handler begins once the database is closed,
\* for then there is no daemon.
LEMMA DaemonKeepsLifeInv ==
  ASSUME LifeInv, NEW d \in Daemons,
         L!WaitDB(d) \/ L!EndHandler(d) \/ L!Panic(d) \/ L!Wake(d) \/ L!Done(d)
  PROVE  LifeInv'
<1>1. /\ UNCHANGED <<boot, count, row, stopper, names, db>>
      /\ \/ \E v \in {"handler", "sleep", "return"} : daemon' = [daemon EXCEPT ![d] = v]
         \/ daemon' = [daemon EXCEPT ![d] = "gone"]
         \/ UNCHANGED daemon
      /\ daemon[d] # "gone"
  BY DEF L!WaitDB, L!EndHandler, L!Panic, L!Wake, L!Done
<1>2. LifeType' /\ StopAfterStart'
  BY <1>1 DEF LifeInv, LifeType, StopAfterStart
<1>3. NamesAreGone' /\ ClosedIsQuiet'
  <2>1. CASE daemon' = [daemon EXCEPT ![d] = "gone"]
    BY <1>1, <2>1, OneMoreGone
  <2>2. CASE daemon' # [daemon EXCEPT ![d] = "gone"]
    <3>1. Gone' = Gone
      BY <1>1, <2>2 DEF Gone, LifeInv, LifeType
    <3> QED
      BY <1>1, <3>1, SameGone
  <2> QED
    BY <2>1, <2>2
<1> QED
  BY <1>2, <1>3 DEF LifeInv

\* The goroutines that stop the daemons (WaitStopTime, WaitForSignals): whoever
\* closes the database has a name for each of the daemons.
LEMMA StopperKeepsLifeInv ==
  ASSUME OneStop, LifeInv,
         \/ L!DeleteStopRow \/ L!WriteStopRow \/ L!Signal \/ L!Exit
         \/ \E s \in L!Stoppers : L!CancelFunc(s) \/ L!GormClose(s) \/ \E d \in Daemons : L!Receive(s, d)
  PROVE  LifeInv'
<1>1. CASE L!DeleteStopRow
  <2>1. /\ row' = "none" /\ stopper' = [stopper EXCEPT !["WaitStopTime"] = "wait"]
        /\ UNCHANGED <<boot, daemon, count, names, db>>
    BY <1>1 DEF L!DeleteStopRow
  <2>2. Gone' = Gone
    BY <2>1 DEF Gone
  <2>3. LifeType' /\ StopAfterStart'
    BY <2>1 DEF LifeInv, LifeType, StopAfterStart, L!Stoppers
  <2> QED
    BY <2>1, <2>2, <2>3, SameGone DEF LifeInv
<1>2. CASE L!WriteStopRow \/ L!Signal \/ L!Exit
  <2>1. /\ row' # row => boot = "done"
        /\ UNCHANGED <<boot, daemon, count, stopper, names, db>>
    BY <1>2 DEF L!WriteStopRow, L!Signal, L!Exit
  <2>2. Gone' = Gone
    BY <2>1 DEF Gone
  <2>3. LifeType' /\ StopAfterStart'
    BY <2>1 DEF LifeInv, LifeType, StopAfterStart
  <2> QED
    BY <2>1, <2>2, <2>3, SameGone DEF LifeInv
<1>3. ASSUME NEW s \in L!Stoppers, L!CancelFunc(s)
      PROVE  LifeInv'
  <2>1. /\ stopper[s] = "wait" /\ stopper' = [stopper EXCEPT ![s] = "receive"]
        /\ s = "WaitStopTime" => row = "written"
        /\ UNCHANGED <<boot, daemon, count, row, names, db>>
    BY <1>3 DEF L!CancelFunc
  <2>2. Gone' = Gone
    BY <2>1 DEF Gone
  <2>3. LifeType' /\ StopAfterStart'
    BY <2>1 DEF LifeInv, LifeType, StopAfterStart, L!Stoppers
  <2> QED
    BY <2>1, <2>2, <2>3, SameGone DEF LifeInv
<1>4. ASSUME NEW s \in L!Stoppers, L!GormClose(s)
      PROVE  LifeInv'
  <2>1. /\ stopper[s] = "receive" /\ names[s] >= count /\ stopper' = [stopper EXCEPT ![s] = "closed"]
        /\ UNCHANGED <<boot, daemon, count, row, names>>
    BY <1>4 DEF L!GormClose
  <2>2. Gone' = Gone
    BY <2>1 DEF Gone
  <2>3. LifeType' /\ StopAfterStart'
    BY <2>1 DEF LifeInv, LifeType, StopAfterStart, L!Stoppers
  <2>4. boot # "daemons" /\ count = Cardinality(Daemons)
    BY <2>1 DEF LifeInv, LifeType, StopAfterStart, L!Stoppers
  <2>5. names[s] \in Nat /\ names[s] <= Cardinality(Gone)
    BY DEF LifeInv, LifeType, NamesAreGone
  <2>6. Gone = Daemons
    BY <2>1, <2>4, <2>5, GoneIsFinite
  <2>7. NamesAreGone'
    BY <2>1, <2>2 DEF LifeInv, NamesAreGone
  <2>8. ClosedIsQuiet'
    BY <2>2, <2>6 DEF ClosedIsQuiet
  <2> QED
    BY <2>3, <2>7, <2>8 DEF LifeInv
<1>5. ASSUME NEW s \in L!Stoppers, NEW d \in Daemons, L!Receive(s, d)
      PROVE  LifeInv'
  <2>1. /\ daemon[d] = "return" /\ daemon' = [daemon EXCEPT ![d] = "gone"]
        /\ names' = [names EXCEPT ![s] = @ + 1]
        /\ UNCHANGED <<boot, count, row, stopper, db>>
    BY <1>5 DEF L!Receive
  <2>2. LifeType'
    BY <2>1 DEF LifeInv, LifeType
  <2>3. StopAfterStart'
    BY <2>1 DEF LifeInv, StopAfterStart
  <2>4. \A r \in L!Stoppers : names'[r] \in {names[r], names[r] + 1}
    BY <2>1 DEF LifeInv, LifeType
  <2>5. NamesAreGone' /\ ClosedIsQuiet'
    BY <2>1, <2>4, OneMoreGone
  <2> QED
    BY <2>2, <2>3, <2>5 DEF LifeInv
<1> QED
  BY <1>1, <1>2, <1>3, <1>4, <1>5

\* A step of any machine keeps it (MCNode!Next).
LEMMA LifeInvNext == OneStop /\ LifeInv /\ [Next]_vars => LifeInv'
<1> SUFFICES ASSUME OneStop, LifeInv, [Next]_vars
             PROVE  LifeInv'
  OBVIOUS
<1>1. CASE L!Next
  <2>1. L!Running
    BY <1>1 DEF L!Next
  <2> QED
    BY <2>1, StartKeepsLifeInv, DaemonKeepsLifeInv, StopperKeepsLifeInv DEF L!Running
<1>2. CASE UNCHANGED lif
  <2>1. UNCHANGED <<boot, daemon, count, row, stopper, names, db>>
    BY <1>2 DEF lif
  <2>2. Gone' = Gone
    BY <2>1 DEF Gone
  <2>3. LifeType' /\ StopAfterStart'
    BY <2>1 DEF LifeInv, LifeType, StopAfterStart
  <2> QED
    BY <2>1, <2>2, <2>3, SameGone DEF LifeInv
<1> QED
  BY <1>1, <1>2 DEF Next, vars

\* For any number of daemons: when nobody asks for a stop before Start has
\* ended, the database is closed under no handler that is at work, however the
\* daemons, the signal and the row in stop_daemons interleave (WaitStopTime,
\* WaitForSignals, daemonLoop): the safety half of StopsCleanly.
THEOREM ClosedUnderNobody == OneStop /\ Spec => []L!ClosedAfterWork
<1> SUFFICES ASSUME OneStop
             PROVE  Spec => []L!ClosedAfterWork
  OBVIOUS
<1>1. Init => LifeInv
  BY LifeInvInit DEF Init
<1>2. LifeInv => L!ClosedAfterWork
  BY DEF LifeInv, ClosedIsQuiet, Gone, L!ClosedAfterWork
<1>3. LifeInv /\ [Next]_vars => LifeInv'
  BY LifeInvNext
<1> QED
  BY <1>1, <1>2, <1>3, PTL DEF Spec

-----------------------------------------------------------------------------
(***************************************************************************)
(* Confirmations.                                                          *)
(***************************************************************************)

\* Every row counts each host once, good or bad, that was not banned when the
\* hosts were asked, whatever the chains, the bans and the answers were while
\* they were asked (confirmationsBlocks, FilterBannedHosts).
RowsCountWhoWasAsked ==
  \A b \in 1..MaxBlock :
    conf[b] # C!NoRow => /\ conf[b].of \subseteq Hosts
                         /\ conf[b].good + conf[b].bad = Cardinality(conf[b].of)

ConfRows == [good : Int, bad : Int, of : SUBSET Hosts]

\* A host that was asked was counted or is waited for.
ConfInv ==
  /\ st0 \in Nat /\ st1 \in Nat /\ waiting \subseteq asked /\ asked \subseteq Hosts
  /\ pc = "ask" => st0 + st1 + Cardinality(waiting) = Cardinality(asked)
  /\ conf \in [1..MaxBlock -> ConfRows]
  /\ RowsCountWhoWasAsked

\* The hosts can be counted, and with an answer one less is waited for.
LEMMA WaitingIsFinite ==
  ASSUME waiting \subseteq Hosts
  PROVE  /\ Cardinality(waiting) \in Nat /\ Cardinality({}) = 0
         /\ \A h \in waiting : Cardinality(waiting \ {h}) = Cardinality(waiting) - 1
  BY ListsAreFinite, FS_Subset, FS_CardinalityType, FS_RemoveElement, FS_EmptySet

\* Any of the hosts can be counted.
LEMMA HostsAreFinite ==
  \A hs : hs \subseteq Hosts => Cardinality(hs) \in Nat
  BY ListsAreFinite, FS_Subset, FS_CardinalityType

\* It holds in the beginning: there is no row.
LEMMA ConfInvInit == C!Init => ConfInv
  BY DEF C!Init, ConfInv, RowsCountWhoWasAsked, C!NoRow, ConfRows

\* The daemon keeps it (Confirmations, confirmationsBlocks, IsReachable).
LEMMA DaemonKeepsConfInv ==
  ASSUME ConfInv,
         C!Confirmations \/ C!ReadBlock \/ C!HostUnknown \/ (\E h \in Hosts : C!Answer(h)) \/ C!Save
  PROVE  ConfInv'
<1>1. CASE C!Confirmations
  BY <1>1 DEF C!Confirmations, ConfInv, RowsCountWhoWasAsked
<1>2. CASE C!ReadBlock
  <2>1. /\ UNCHANGED conf
        /\ \/ UNCHANGED <<st0, st1, asked, waiting>> /\ pc' # "ask"
           \/ st0' = 0 /\ st1' = 0 /\ asked' = Hosts \ banned /\ waiting' = asked'
    BY <1>2 DEF C!ReadBlock, C!FilterBannedHosts
  <2>3. RowsCountWhoWasAsked'
    BY <2>1 DEF ConfInv, RowsCountWhoWasAsked
  <2>4. CASE UNCHANGED <<st0, st1, asked, waiting>> /\ pc' # "ask"
    BY <2>1, <2>3, <2>4 DEF ConfInv
  <2>5. CASE st0' = 0 /\ st1' = 0 /\ asked' = Hosts \ banned /\ waiting' = asked'
    <3>0. Cardinality(asked') \in Nat
      BY <2>5, HostsAreFinite
    <3>1. st0' + st1' + Cardinality(waiting') = Cardinality(asked')
      BY <2>5, <3>0
    <3> QED
      BY <2>1, <2>3, <2>5, <3>1 DEF ConfInv
  <2> QED
    BY <2>1, <2>4, <2>5
<1>3. ASSUME NEW h \in Hosts, C!Answer(h)
      PROVE  ConfInv'
  <2>1. /\ pc = "ask" /\ h \in waiting /\ waiting' = waiting \ {h} /\ UNCHANGED <<conf, pc, asked>>
        /\ \/ st1' = st1 + 1 /\ UNCHANGED st0
           \/ st0' = st0 + 1 /\ UNCHANGED st1
    BY <1>3 DEF C!Answer
  <2>2. /\ Cardinality(waiting) \in Nat /\ Cardinality(asked) \in Nat
        /\ Cardinality(waiting') = Cardinality(waiting) - 1
    BY <2>1, WaitingIsFinite, HostsAreFinite DEF ConfInv
  <2>3. st0' \in Nat /\ st1' \in Nat /\ st0' + st1' + Cardinality(waiting') = Cardinality(asked')
    BY <2>1, <2>2 DEF ConfInv
  <2> QED
    BY <2>1, <2>3 DEF ConfInv, RowsCountWhoWasAsked
<1>4. CASE C!Save
  <2>1. /\ pc = "ask" /\ waiting = {}
        /\ conf' = [conf EXCEPT ![blockID] = [good |-> st1, bad |-> st0, of |-> asked]]
        /\ pc' # "ask" /\ UNCHANGED <<st0, st1, asked, waiting>>
    BY <1>4 DEF C!Save
  <2>2. /\ st0 \in Nat /\ st1 \in Nat /\ asked \subseteq Hosts
        /\ st1 + st0 = Cardinality(asked)
    BY <2>1, WaitingIsFinite DEF ConfInv
  <2>3. conf' \in [1..MaxBlock -> ConfRows]
    <3>1. [good |-> st1, bad |-> st0, of |-> asked] \in ConfRows
      BY <2>2 DEF ConfRows
    <3> QED
      BY <2>1, <3>1 DEF ConfInv
  <2>4. ASSUME NEW b \in 1..MaxBlock, conf'[b] # C!NoRow
        PROVE  /\ conf'[b].of \subseteq Hosts
               /\ conf'[b].good + conf'[b].bad = Cardinality(conf'[b].of)
    <3>1. CASE b = blockID
      BY <3>1, <2>1, <2>2 DEF ConfInv
    <3>2. CASE b # blockID
      BY <3>2, <2>1, <2>4 DEF ConfInv, RowsCountWhoWasAsked
    <3> QED
      BY <3>1, <3>2
  <2>5. RowsCountWhoWasAsked'
    BY <2>4 DEF RowsCountWhoWasAsked
  <2> QED
    BY <2>1, <2>3, <2>5 DEF ConfInv
<1>5. CASE C!HostUnknown
  BY <1>5 DEF C!HostUnknown, ConfInv, RowsCountWhoWasAsked
<1> QED
  BY <1>1, <1>2, <1>3, <1>4, <1>5

\* A step of any machine keeps it (MCNode!Next).
LEMMA ConfInvNext == ConfInv /\ [Next]_vars => ConfInv'
<1> SUFFICES ASSUME ConfInv, [Next]_vars
             PROVE  ConfInv'
  OBVIOUS
<1>1. CASE C!Next
  <2>1. CASE C!Change
    BY <2>1 DEF C!Change, ConfInv, RowsCountWhoWasAsked
  <2> QED
    BY <1>1, <2>1, DaemonKeepsConfInv DEF C!Next
<1>2. CASE UNCHANGED cfm
  BY <1>2 DEF cfm, ConfInv, RowsCountWhoWasAsked
<1> QED
  BY <1>1, <1>2 DEF Next, vars

\* For any number of hosts: a row of the table confirmations counts each host once
\* that was not banned when the hosts were asked, although they answer in any
\* order and the chains and the bans change meanwhile (Confirmations): the safety
\* half of TopIsChecked, for every block.
THEOREM HostsAreCountedOnce == Spec => []RowsCountWhoWasAsked
<1>1. Init => ConfInv
  BY ConfInvInit DEF Init
<1>2. ConfInv => RowsCountWhoWasAsked
  BY DEF ConfInv
<1> QED
  BY <1>1, <1>2, ConfInvNext, PTL DEF Spec
=============================================================================
