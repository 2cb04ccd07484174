---------------------------- MODULE Confirmations ----------------------------
(***************************************************************************)
(* The confirmations daemon (packages/daemons/confirmations.go) and the    *)
(* answers of other nodes (packages/network/tcpserver/type4.go).           *)
(*                                                                         *)
(* The daemon holds no lock: the chain may be replaced while the hosts are *)
(* asked, and a row counts answers that were given at different times.     *)
(***************************************************************************)
EXTENDS Integers, Sequences, FiniteSets

CONSTANTS
  Hosts,        \* the remote hosts
  BadHosts,     \* hosts whose address NormalizeHostAddress refuses
  MinConfirmed, \* MIN_CONFIRMED_NODES
  Behind,       \* 5
  MaxBlock,     \* bound on the length of a chain
  MaxChanges    \* bound on the changes of the chains

VARIABLES
  chain,    \* block_chain of this node: a sequence of hashes
  peer,     \* those of the hosts
  down,     \* the hosts that cannot be reached, or too slowly
  banned,   \* the hosts that IsBanned says are banned
  conf,     \* the rows of confirmations: block -> [good, bad], and the hosts
            \* that were not banned when the row was counted (history)
  pc,       \* where the daemon is
  blockID, startBlockID, hashStr, st0, st1,
  asked,    \* hosts: what FilterBannedHosts left
  waiting,
  changes

confVars == <<chain, peer, down, banned, conf, pc, blockID, startBlockID, hashStr, st0, st1, asked, waiting, changes>>

\* A hash is HashSize pieces of four bytes; here two stand for the eight.
HashSize == 2
Hashes == {<<"x", "x">>, <<"y", "y">>}
Zeros == <<"zero", "zero">>
Unreached == <<"0">>
Chains == UNION {[1..n -> Hashes] : n \in 1..MaxBlock}
NoRow == [good |-> -1, bad |-> -1, of |-> {}]

Init ==
  /\ chain = <<<<"x", "x">>>> /\ peer \in [Hosts -> {<<h>> : h \in Hashes}]
  /\ down \in SUBSET Hosts /\ banned = {} /\ asked = {}
  /\ conf = [b \in 1..MaxBlock |-> NoRow]
  /\ pc = "idle" /\ blockID = 0 /\ startBlockID = 0 /\ hashStr = <<>> /\ st0 = 0 /\ st1 = 0 /\ waiting = {}
  /\ changes = 0

-----------------------------------------------------------------------------
\* GetGoodBlock: the last row by its key.
Confirmed ==
  LET good == {b \in 1..MaxBlock : conf[b].good >= MinConfirmed /\ conf[b] # NoRow} IN
  IF good = {} THEN 0 ELSE CHOOSE b \in good : \A c \in good : c <= b

\* The first block to check.
StartBlock(last) == IF last - Confirmed > Behind THEN Confirmed + 1 ELSE last

Confirmations ==
  /\ pc = "idle" /\ Len(chain) > 0
  /\ blockID' = Len(chain) /\ startBlockID' = StartBlock(Len(chain))
  /\ pc' = "read"
  /\ UNCHANGED <<chain, peer, down, banned, conf, hashStr, st0, st1, asked, waiting, changes>>

\* A plausible slip: the banned hosts are not taken out of those that are asked.
FilterNobody(hs) == hs

\* FilterBannedHosts of the ban service.
FilterBannedHosts(hs) == hs \ banned

\* The head of the loop: the hash of the block and the requests to the hosts that
\* are not banned at this time.
ReadBlock ==
  /\ pc = "read"
  /\ IF blockID < startBlockID
     THEN pc' = "idle" /\ UNCHANGED <<blockID, hashStr, st0, st1, asked, waiting>>
     ELSE IF blockID > Len(chain)
     THEN blockID' = blockID - 1 /\ UNCHANGED <<pc, hashStr, st0, st1, asked, waiting>>
     ELSE /\ hashStr' = chain[blockID] /\ st0' = 0 /\ st1' = 0
          /\ asked' = FilterBannedHosts(Hosts) /\ waiting' = asked'
          /\ pc' = "ask" /\ UNCHANGED blockID
  /\ UNCHANGED <<chain, peer, down, banned, conf, startBlockID, changes>>

\* FilterBannedHosts finds no full node for a host, because full_nodes has
\* changed since the hosts were read: the iteration ends.
HostUnknown ==
  /\ pc = "read" /\ blockID \in startBlockID..Len(chain)
  /\ changes < MaxChanges
  /\ changes' = changes + 1 /\ pc' = "idle"
  /\ UNCHANGED <<chain, peer, down, banned, conf, blockID, startBlockID, hashStr, st0, st1, asked, waiting>>

\* Type4 of the host: its block, or zeros.
Type4(h) == IF blockID <= Len(peer[h]) THEN peer[h][blockID] ELSE Zeros

\* ConfirmResponse: Write puts the size before the hash; Read takes the first
\* HashSize pieces, the size among them.
Write(hash) == <<"size">> \o hash
Read(data) == SubSeq(data, 1, HashSize)

\* CheckConfirmation and IsReachable: an answer, or "0" after an error or the
\* timeout.
Reach(h) == IF h \in down THEN Unreached ELSE Read(Write(Type4(h)))

\* For a host with a wrong address nobody writes to the channel.
Answer(h) ==
  /\ pc = "ask" /\ h \in waiting \ BadHosts
  /\ IF Reach(h) = hashStr THEN st1' = st1 + 1 /\ UNCHANGED st0
     ELSE st0' = st0 + 1 /\ UNCHANGED st1
  /\ waiting' = waiting \ {h}
  /\ UNCHANGED <<chain, peer, down, banned, conf, pc, blockID, startBlockID, hashStr, asked, changes>>

Save ==
  /\ pc = "ask" /\ waiting = {}
  /\ conf' = [conf EXCEPT ![blockID] = [good |-> st1, bad |-> st0, of |-> asked]]
  /\ IF blockID > startBlockID /\ st1 >= MinConfirmed
     THEN pc' = "idle" /\ UNCHANGED blockID
     ELSE pc' = "read" /\ blockID' = blockID - 1
  /\ UNCHANGED <<chain, peer, down, banned, startBlockID, hashStr, st0, st1, asked, waiting, changes>>

-----------------------------------------------------------------------------
\* The chains grow, and are rolled back and played again; hosts come and go, and
\* are banned and forgiven.
Change ==
  /\ changes < MaxChanges
  /\ changes' = changes + 1
  /\ \/ chain' \in Chains /\ UNCHANGED <<peer, down, banned>>
     \/ \E h \in Hosts, c \in Chains :
          peer' = [peer EXCEPT ![h] = c] /\ UNCHANGED <<chain, down, banned>>
     \/ down' \in SUBSET Hosts \ {down} /\ UNCHANGED <<chain, peer, banned>>
     \/ banned' \in SUBSET Hosts \ {banned} /\ UNCHANGED <<chain, peer, down>>
  /\ UNCHANGED <<conf, pc, blockID, startBlockID, hashStr, st0, st1, asked, waiting>>

Next == Confirmations \/ ReadBlock \/ HostUnknown \/ (\E h \in Hosts : Answer(h)) \/ Save \/ Change

\* The hosts asked that say that our last block is theirs.
Same ==
  Cardinality({h \in FilterBannedHosts(Hosts \ down) :
                 Len(chain) <= Len(peer[h]) /\ peer[h][Len(chain)] = chain[Len(chain)]})

-----------------------------------------------------------------------------
\* However the chains and the bans change while hosts are asked, and whether they
\* have the block or not: in the end the last block has a row, and it counts every
\* host once that is not banned, and no other (Confirmations,
\* confirmationsBlocks, FilterBannedHosts, IsReachable).
TopIsChecked ==
  <>[](LET top == conf[Len(chain)] IN
       top # NoRow /\ top.good + top.bad = Cardinality(Hosts \ banned))

\* "Getting amount of nodes, which has the same hash as we do": once the
\* chains and the hosts are stable, the row of the last block counts the hosts
\* asked that have its hash (Confirmations).
CountsTheSame == <>[](conf[Len(chain)].good = Same)
=============================================================================
