------------------------------ MODULE Relevance ------------------------------
(***************************************************************************)
(* The pause of a node (packages/service: NodePaused and                   *)
(* NodeRelevanceService).                                                  *)
(*                                                                         *)
(* One goroutine compares the node's last block with the largest one that  *)
(* the other hosts report, and pauses or resumes the node.  The collection *)
(* of blocks wakes it through a channel without a buffer.  A transaction   *)
(* that stops the network pauses the node as well.  The generator looks at *)
(* the pause once, before it makes a block.                                *)
(***************************************************************************)
EXTENDS Integers

CONSTANTS
  Gap,         \* availableBlockchainGap
  Remote,      \* FALSE: the node is alone in the network
  MaxBlock,    \* bound on the height of the chains
  MaxWaiting   \* bound on the goroutines of NodeDoneUpdatingBlockchain

VARIABLES
  pause,     \* np.PauseType
  svc,       \* where the goroutine of the service is
  cur,       \* the block that checkNodeRelevance has read
  relevant,  \* the answer of the last check
  fresh,     \* goroutines of NodeDoneUpdatingBlockchain before their look
  senders,   \* those that wait at the channel
  blk,       \* the last block of the node
  net,       \* the largest block of the other hosts
  up,        \* some host answers
  gen,       \* the generator has seen no pause and makes a block
  stopped    \* a transaction has stopped the network

relVars == <<pause, svc, cur, relevant, fresh, senders, blk, net, up, gen, stopped>>

NoPause == "NoPause"
Updating == "PauseTypeUpdatingBlockchain"
Stopping == "PauseTypeStopingNetwork"

Init ==
  /\ pause = NoPause /\ svc = "check" /\ cur = 0 /\ relevant = TRUE
  /\ fresh = 0 /\ senders = 0
  /\ blk \in 0..MaxBlock /\ net \in 0..MaxBlock /\ up \in BOOLEAN
  /\ gen = FALSE /\ stopped = FALSE

-----------------------------------------------------------------------------
(***************************************************************************)
(* The service.                                                            *)
(***************************************************************************)

\* checkNodeRelevance: info_block, then the hosts.  An error ends the service.
ReadInfoBlock ==
  /\ svc = "check"
  /\ \/ svc' = "ask" /\ cur' = blk
     \/ svc' = "dead" /\ UNCHANGED cur
  /\ UNCHANGED <<pause, relevant, fresh, senders, blk, net, up, gen, stopped>>

AskHosts ==
  /\ svc = "ask"
  /\ relevant' = (~Remote \/ (up /\ cur + Gap >= net))
  /\ svc' = "pause"
  /\ UNCHANGED <<pause, cur, fresh, senders, blk, net, up, gen, stopped>>

\* The test of IsNodePaused and the change are two steps.
LookAtPause ==
  /\ svc = "pause"
  /\ svc' = IF ~relevant /\ pause = NoPause THEN "set" ELSE "resume"
  /\ UNCHANGED <<pause, cur, relevant, fresh, senders, blk, net, up, gen, stopped>>

PauseNodeActivity ==
  /\ svc = "set"
  /\ pause' = Updating /\ svc' = "resume"
  /\ UNCHANGED <<cur, relevant, fresh, senders, blk, net, up, gen, stopped>>

\* np.Unset: whatever the pause was for.
ResumeNodeActivity ==
  /\ svc = "resume"
  /\ pause' = IF relevant THEN NoPause ELSE pause
  /\ svc' = "wait"
  /\ UNCHANGED <<cur, relevant, fresh, senders, blk, net, up, gen, stopped>>

\* A slip: the service waits for the channel only.
NoInterval == FALSE /\ UNCHANGED relVars

\* The select at the end of the loop.
Interval ==
  /\ svc = "wait"
  /\ svc' = "check"
  /\ UNCHANGED <<pause, cur, relevant, fresh, senders, blk, net, up, gen, stopped>>

UpdatingEnd ==
  /\ svc = "wait" /\ senders > 0
  /\ svc' = "check" /\ senders' = senders - 1
  /\ UNCHANGED <<pause, cur, relevant, fresh, blk, net, up, gen, stopped>>

-----------------------------------------------------------------------------
(***************************************************************************)
(* The rest of the node and the network.                                   *)
(***************************************************************************)

\* blocksCollection: the node is behind and takes over a block; the deferred
\* call starts a goroutine, whether the update succeeded or not (those beyond
\* the bound would only wait behind the others).
Collect(ok) ==
  /\ up /\ blk < net
  /\ blk' = IF ok THEN blk + 1 ELSE blk
  /\ fresh' = IF fresh + senders < MaxWaiting THEN fresh + 1 ELSE fresh
  /\ UNCHANGED <<pause, svc, cur, relevant, senders, net, up, gen, stopped>>

NodeDoneUpdatingBlockchain ==
  /\ fresh > 0
  /\ fresh' = fresh - 1
  /\ senders' = IF pause # NoPause THEN senders + 1 ELSE senders
  /\ UNCHANGED <<pause, svc, cur, relevant, blk, net, up, gen, stopped>>

BlockGenerator ==
  /\ ~gen /\ pause = NoPause
  /\ gen' = TRUE
  /\ UNCHANGED <<pause, svc, cur, relevant, fresh, senders, blk, net, up, stopped>>

EndOfBlock ==
  /\ gen
  /\ gen' = FALSE
  /\ blk' \in {blk, IF blk < MaxBlock THEN blk + 1 ELSE blk}
  /\ UNCHANGED <<pause, svc, cur, relevant, fresh, senders, net, up, stopped>>

\* StopNetworkTransaction.Action, in a block that is played.
StopNetwork ==
  /\ ~stopped
  /\ pause' = Stopping /\ stopped' = TRUE
  /\ UNCHANGED <<svc, cur, relevant, fresh, senders, blk, net, up, gen>>

Network ==
  /\ Remote
  /\ \/ net < MaxBlock /\ net' = net + 1 /\ UNCHANGED up
     \/ up' = ~up /\ UNCHANGED net
  /\ UNCHANGED <<pause, svc, cur, relevant, fresh, senders, blk, gen, stopped>>

Service ==
  ReadInfoBlock \/ AskHosts \/ LookAtPause \/ PauseNodeActivity \/ ResumeNodeActivity \/ Interval \/ UpdatingEnd

Next ==
  \/ Service
  \/ \E ok \in BOOLEAN : Collect(ok)
  \/ NodeDoneUpdatingBlockchain \/ BlockGenerator \/ EndOfBlock \/ StopNetwork \/ Network

-----------------------------------------------------------------------------
\* A node that the network does not leave behind for ever makes blocks again
\* (Run, NodeDoneUpdatingBlockchain).
Resumes ==
  <>[](up \/ ~Remote) /\ [](svc # "dead") => (pause = Updating ~> pause # Updating)

\* A node cut off from every host stops making blocks in the end, and stays so.
CutOffIsPaused == Remote /\ <>[](~up) /\ [](svc # "dead") => <>[](pause # NoPause)

\* The pause follows the heights of the network: it ends when the node has caught
\* up, and comes when the node is cut off (NodeRelevanceService.Run).
PauseFollowsHeights == Resumes /\ CutOffIsPaused
=============================================================================
