------------------------------- MODULE MCNode -------------------------------
(***************************************************************************)
(* The services of a node, for model checking.  They do not share state,   *)
(* so each behaviour runs one of them: the machine chosen at the start.    *)
(***************************************************************************)
EXTENDS Integers, Sequences, FiniteSets

CONSTANTS Gap, Remote, MaxBlock, MaxWaiting
CONSTANTS Nodes, Me, Suspects, BadIds, PerDay, NodeBanTime, LocalBanTime, Day, EveryBlock, MaxTime, MaxReports
CONSTANTS Hosts, BadHosts, MinConfirmed, Behind, MaxChanges
CONSTANTS Daemons, OneStop, EarlyHandlers
CONSTANTS ListValues, GapValues, MaxGap, MaxTx, MaxBlocks
CONSTANTS Dead, Txs, MaxAsk, MaxInfo

\* The daemons of a configuration and the hosts of full_nodes are lists.
ASSUME ListsAreFinite == IsFiniteSet(Daemons) /\ IsFiniteSet(Hosts)

VARIABLES machine
VARIABLES pause, svc, cur, relevant, fresh, senders, blk, net, up, gen, stopped
VARIABLES now, nextCheck, unban, local, txs, rows, committed, spent
VARIABLES chain, peer, down, banned, conf, pc, blockID, startBlockID, hashStr, st0, st1, asked, waiting, changes
VARIABLES installed, boot, daemon, count, cancelled, banSvc, row, stopper, names, signal, db, process
VARIABLES dbC, dbT, sp, log, cache, nodes, phase, route, txFlag, blockFlag, ntx, nblocks, tainted
VARIABLES isFullNode, pool, info, sending, block, trs, hosts, con, want, have, told, body, lost, alone, crashed

R == INSTANCE Relevance
B == INSTANCE Bans
C == INSTANCE Confirmations
L == INSTANCE Lifecycle
S == INSTANCE SysParams
D == INSTANCE Dissemination

rel == <<pause, svc, cur, relevant, fresh, senders, blk, net, up, gen, stopped>>
ban == <<now, nextCheck, unban, local, txs, rows, committed, spent>>
cfm == <<chain, peer, down, banned, conf, pc, blockID, startBlockID, hashStr, st0, st1, asked, waiting, changes>>
lif == <<installed, boot, daemon, count, cancelled, banSvc, row, stopper, names, signal, db, process>>
sys == <<dbC, dbT, sp, log, cache, nodes, phase, route, txFlag, blockFlag, ntx, nblocks, tainted>>
dis == <<isFullNode, pool, info, sending, block, trs, hosts, con, want, have, told, body, lost, alone, crashed>>
vars == <<machine, rel, ban, cfm, lif, sys, dis>>

Init ==
  /\ machine \in {"relevance", "bans", "confirmations", "lifecycle", "sysparams", "dissemination"}
  /\ R!Init /\ (machine # "relevance" => blk = 0 /\ net = 0 /\ up)
  /\ B!Init
  /\ C!Init /\ (machine # "confirmations" => down = {} /\ \A h \in Hosts : peer[h] = chain)
  /\ L!Init /\ (machine # "lifecycle" => installed)
  /\ S!Init
  /\ D!Init /\ (machine # "dissemination" => isFullNode)

Next ==
  /\ UNCHANGED machine
  /\ \/ machine = "relevance" /\ R!Next /\ UNCHANGED <<ban, cfm, lif, sys, dis>>
     \/ machine = "bans" /\ B!Next /\ UNCHANGED <<rel, cfm, lif, sys, dis>>
     \/ machine = "confirmations" /\ C!Next /\ UNCHANGED <<rel, ban, lif, sys, dis>>
     \/ machine = "lifecycle" /\ L!Next /\ UNCHANGED <<rel, ban, cfm, sys, dis>>
     \/ machine = "sysparams" /\ S!Next /\ UNCHANGED <<rel, ban, cfm, lif, dis>>
     \/ machine = "dissemination" /\ D!Next /\ UNCHANGED <<rel, ban, cfm, lif, sys>>

\* Goroutines run, timers fire, a reachable host answers in the end; blocks are
\* made and the delayed contract is called in its block.
Fairness ==
  /\ WF_rel(machine = "relevance" /\ (R!ReadInfoBlock \/ R!AskHosts \/ R!LookAtPause
                                     \/ R!PauseNodeActivity \/ R!ResumeNodeActivity
                                     \/ R!Interval \/ R!UpdatingEnd))
  /\ WF_rel(machine = "relevance" /\ R!Collect(TRUE))
  /\ WF_rel(machine = "relevance" /\ R!NodeDoneUpdatingBlockchain)
  /\ WF_ban(machine = "bans" /\ B!CallDelayedContract)
  /\ WF_ban(machine = "bans" /\ B!EndBlock)
  /\ WF_cfm(machine = "confirmations" /\ (C!Confirmations \/ C!ReadBlock \/ C!Save))
  /\ \A h \in Hosts : WF_cfm(machine = "confirmations" /\ C!Answer(h))
  /\ \A d \in Daemons :
       /\ WF_lif(machine = "lifecycle" /\ process = "runs" /\ (L!StartDaemon(d) \/ L!WaitDB(d) \/ L!EndHandler(d)))
       /\ SF_lif(machine = "lifecycle" /\ process = "runs" /\ L!Done(d))
       /\ WF_lif(machine = "lifecycle" /\ process = "runs" /\ \E s \in L!Stoppers : L!Receive(s, d))
  /\ WF_lif(machine = "lifecycle" /\ process = "runs" /\ (L!CountDaemon \/ L!StartServices \/ L!WaitForSignals))
  /\ WF_lif(machine = "lifecycle" /\ process = "runs" /\ (L!Exit \/ \E s \in L!Stoppers : L!CancelFunc(s) \/ L!GormClose(s)))
  /\ SF_dis(machine = "dissemination" /\ D!Disseminator({}))
  /\ \A h \in Hosts \ Dead :
       /\ SF_dis(machine = "dissemination" /\ (D!Type1(h) \/ D!Type2(h)))
       /\ SF_dis(machine = "dissemination" /\ D!SendBodies(h))
  /\ \A h \in Dead : WF_dis(machine = "dissemination" /\ D!Refuse(h))
  /\ WF_dis(machine = "dissemination" /\ D!MarkSent)

Spec == Init /\ [][Next]_vars /\ Fairness

-----------------------------------------------------------------------------
\* The pause of a node follows the heights of the network (NodeRelevanceService).
PauseFollowsHeights == machine = "relevance" => R!PauseFollowsHeights

\* Reports ban once, and every ban ends (UpdateNodesBan).
BansAreRight == B!BansAreRight

\* A stop ends the process, and closes the database under no handler
\* (WaitForSignals, WaitStopTime).
StopsCleanly == L!StopsCleanly

\* The cache of the system parameters follows the transactions, the blocks and
\* the database (SysUpdate).
CacheFollowsState == S!CacheFollowsState

\* In the end the last block has a row that counts every host once that is not
\* banned (Confirmations).
TopIsChecked == machine = "confirmations" => C!TopIsChecked

\* What is marked sent was taken, and everything gets out (Disseminator).
SendingIsTrue == machine = "dissemination" => D!SendingIsTrue

\* The row of the last block counts the hosts that have its hash, as
\* confirmations.go:48 says (Confirmations).
CountsTheSame == machine = "confirmations" => C!CountsTheSame
=============================================================================
