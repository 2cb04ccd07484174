---------------------------- MODULE BlockLimits ----------------------------
(***************************************************************************)
(* The limits of a block (packages/block/limits.go) in the three places    *)
(* that apply them: the generator's selection of transactions, the         *)
(* generator's own playing of its block, and the playing of that block by  *)
(* a peer.  Each place uses another subset of the limiters, keeps counters *)
(* of its own, and reads the limit of an ecosystem from another snapshot   *)
(* of the database; yet all nodes must come to the same effects.           *)
(*                                                                         *)
(* One round is one block.  The order of the selection (high_rate, and the *)
(* order of equal rows, which SQL leaves open) is arbitrary.  The marks of *)
(* a selection are applied at once; TxPool shows what their delay can do.  *)
(* The peer has the generator's state before the block, and plays what the *)
(* generator commits.  All transactions call contracts; the other kinds (the first   *)
(* block, the stop of the network) pass no limiter.                        *)
(***************************************************************************)
EXTENDS Integers, Sequences, FiniteSets

CONSTANTS
  Txs,             \* transaction hashes
  Keys,            \* keys of users
  Ecosystems,      \* ecosystem ids
  TxKey,           \* t.TxSmart.KeyID, which is also t.TxKeyID
  TxEcosystem,     \* t.TxSmart.EcosystemID
  TxSize,          \* len(t.TxFullData)
  TxBytes,         \* its bytes in a block: the length, encoded, and the data
  HeaderSize,      \* the bytes of the generator's header and signature
  TxFuel,          \* t.TxFuel after the contract has run
  Initial,         \* the limits an ecosystem may start with; Unset is none
  NewLimit,        \* the max_tx_block_per_user the contract sets, or Unset
  Failing,         \* transactions whose contract fails
  MaxTxSize, MaxBlockSize, MaxTxCount, MaxBlockUserTx, MaxTxFuel, MaxBlockFuel,
                   \* syspar.GetMaxTxSize() and so on
  MaxAttempt       \* consts.MaxTXAttempt

\* A parameter that is not in the table, a contract that does not set it.
Unset == -1

ASSUME LimitsAssumption ==
  /\ TxKey \in [Txs -> Keys] /\ TxEcosystem \in [Txs -> Ecosystems]
  /\ TxSize \in [Txs -> Nat] /\ TxFuel \in [Txs -> Nat]
  /\ TxBytes \in [Txs -> Nat] /\ HeaderSize \in Nat
  /\ NewLimit \in [Txs -> Nat \cup {Unset}] /\ Initial \subseteq Nat \cup {Unset}
  /\ Failing \subseteq Txs

\* DBUpdateSysParam refuses a limit that is not above 0 (smart_p.go:191).
ASSUME SysparAssumption ==
  {MaxTxSize, MaxBlockSize, MaxTxCount, MaxBlockUserTx, MaxTxFuel, MaxBlockFuel, MaxAttempt}
    \subseteq Nat \ {0}

VARIABLES
  pool,      \* rows of transactions that are not used
  attempts,  \* transactions.attempt
  param,     \* max_tx_block_per_user of each ecosystem, as the generator has it
  pc,        \* "idle", "select", "check", "play", "commit" or "peer"
  todo,      \* the transactions still to be selected
  first,     \* is the next transaction the first of the selection?
  stopped,   \* has a limiter stopped the selection?
  limits,    \* the limiters of the loop under way
  open,      \* the parameters inside the open database transaction
  list,      \* the transactions of the block
  next,      \* the index of the next one to be played
  effect     \* the transactions of the block in effect, on each node

vars == <<pool, attempts, param, pc, todo, first, stopped, limits, open, list, next, effect>>

Nodes == {"generator", "peer"}
TxsOf(s) == { s[i] : i \in DOMAIN s }

-----------------------------------------------------------------------------
(***************************************************************************)
(* The limiters.  Each one gives its counters and the outcome: "ok",       *)
(* "skip", "stop" or "error".                                              *)
(***************************************************************************)

\* The counters of NewLimits.
NewLimits ==
  [size |-> 0, count |-> 0, fuel |-> 0, users |-> [k \in Keys |-> 0],
   ecosys |-> [e \in Ecosystems |-> [limit |-> Unset, users |-> [k \in Keys |-> 0]]]]

Outcome(l, err) == [limits |-> l, err |-> err]

txMaxSize(l, t, mode) ==
  LET new == [l EXCEPT !.size = @ + TxSize[t]]
  IN  IF TxSize[t] > MaxTxSize THEN Outcome(l, "error")
      ELSE IF new.size <= MaxBlockSize THEN Outcome(new, "ok")
      ELSE Outcome(new, IF mode = "preprocess" THEN "stop" ELSE "error")

\* A plausible slip: the limit is compared with the count before this one.
txUserLimitOffByOne(l, t, mode) ==
  LET k == TxKey[t]
  IN  IF l.users[k] > MaxBlockUserTx
      THEN Outcome(l, IF mode = "preprocess" THEN "skip" ELSE "error")
      ELSE Outcome([l EXCEPT !.users[k] = @ + 1], "ok")

\* The first transaction of a user passes whatever the limit is.
txUserLimit(l, t, mode) ==
  LET k == TxKey[t]
  IN  IF l.users[k] > 0 /\ l.users[k] + 1 > MaxBlockUserTx
      THEN Outcome(l, IF mode = "preprocess" THEN "skip" ELSE "error")
      ELSE Outcome([l EXCEPT !.users[k] = @ + 1], "ok")

txMaxLimit(l, t, mode) ==
  LET new == [l EXCEPT !.count = @ + 1]
  IN  IF new.count <= MaxTxCount THEN Outcome(new, "ok")
      ELSE Outcome(new, IF mode = "preprocess" THEN "stop" ELSE "error")

\* The limit of an ecosystem is read when its first transaction is met, from
\* the parameters p the transaction sees.
txUserEcosysLimit(l, t, mode, p) ==
  LET k == TxKey[t]
      e == TxEcosystem[t]
      known == l.ecosys[e].limit # Unset
      users == l.ecosys[e].users
      limit == IF known THEN l.ecosys[e].limit
               ELSE IF p[e] = Unset THEN MaxBlockUserTx ELSE p[e]
      entry == [limit |-> limit, users |-> [users EXCEPT ![k] = users[k] + 1]]
  IN  IF known /\ users[k] > 0 /\ users[k] + 1 > limit
      THEN Outcome(l, IF mode = "preprocess" THEN "skip" ELSE "error")
      ELSE Outcome([l EXCEPT !.ecosys = [l.ecosys EXCEPT ![e] = entry]], "ok")

txMaxFuel(l, t, mode) ==
  LET new == [l EXCEPT !.fuel = @ + TxFuel[t]]
  IN  IF TxFuel[t] > MaxTxFuel THEN Outcome(l, "error")
      ELSE IF new.fuel <= MaxBlockFuel THEN Outcome(new, "ok")
      ELSE Outcome(new, IF mode = "genblock" THEN "stop" ELSE "error")

\* CheckLimit goes on to the next limiter only if the one before has passed.
After(o, following) == IF o.err = "ok" THEN following ELSE o

\* The three limiters that the selection and a peer share.
Counted(l, t, mode) ==
  LET size == txMaxSize(l, t, mode)
      user == After(size, txUserLimit(size.limits, t, mode))
  IN  After(user, txMaxLimit(user.limits, t, mode))

\* A plausible slip: the limit of ecosystems is not in letPreprocess.
PreprocessNoEcosys(l, t, p) == Counted(l, t, "preprocess")

\* The limiters of letPreprocess, which the selection uses.
Preprocess(l, t, p) ==
  LET counted == Counted(l, t, "preprocess")
  IN  After(counted, txUserEcosysLimit(counted.limits, t, "preprocess", p))

\* The limiters of letGenBlock; the time may be over at any transaction.
GenBlock(l, t, late) ==
  IF late THEN Outcome(l, "stop") ELSE txMaxFuel(l, t, "genblock")

\* The limiters of letParsing, which a peer uses.
Parsing(l, t, p) ==
  LET counted == Counted(l, t, "parsing")
      ecosys  == After(counted, txUserEcosysLimit(counted.limits, t, "parsing", p))
  IN  After(ecosys, txMaxFuel(ecosys.limits, t, "parsing"))

-----------------------------------------------------------------------------
(***************************************************************************)
(* The generator.                                                          *)
(***************************************************************************)

Init ==
  /\ pool = Txs
  /\ attempts = [t \in Txs |-> 0]
  /\ param \in [Ecosystems -> Initial]
  /\ pc = "idle"
  /\ todo = {} /\ first = FALSE /\ stopped = FALSE
  /\ limits = NewLimits
  /\ open = param
  /\ list = << >> /\ next = 1
  /\ effect = [n \in Nodes |-> {}]

\* processTransactions reads the unused rows, MaxTxCount of them at most.
StartSelection ==
  /\ pc = "idle"
  /\ \E trs \in SUBSET pool :
       /\ trs # {}
       /\ Cardinality(trs) = IF Cardinality(pool) > MaxTxCount THEN MaxTxCount
                             ELSE Cardinality(pool)
       /\ todo' = trs
  /\ pc' = "select" /\ first' = TRUE /\ stopped' = FALSE
  /\ limits' = NewLimits /\ list' = << >>
  /\ effect' = [n \in Nodes |-> {}]
  /\ UNCHANGED <<pool, attempts, param, open, next>>

\* IncrementTxAttemptCount: the last attempt makes the row used.
CountAttempt(t) ==
  /\ attempts' = [attempts EXCEPT ![t] = @ + 1]
  /\ pool' = IF attempts[t] + 1 >= MaxAttempt THEN pool \ {t} ELSE pool

\* One transaction of the loop.  The break after a stop leaves the select
\* statement and not the loop, so the loop goes on with the next one.
SelectTransaction(t) ==
  LET o == Preprocess(limits, t, param)
  IN  /\ pc = "select"
      /\ t \in todo
      /\ todo' = todo \ {t}
      /\ first' = FALSE
      /\ limits' = o.limits
      /\ \/ /\ o.err = "ok"
            /\ list' = Append(list, t)
            /\ UNCHANGED <<pool, attempts, stopped>>
         \/ /\ o.err = "skip" \/ (o.err = "stop" /\ ~first)
            /\ CountAttempt(t)
            /\ stopped' = (stopped \/ o.err = "stop")
            /\ UNCHANGED list
         \/ /\ o.err = "error" \/ (o.err = "stop" /\ first)
            /\ pool' = pool \ {t}
            /\ UNCHANGED <<attempts, stopped, list>>
      /\ UNCHANGED <<param, pc, open, next, effect>>

\* The end of the loop, or of the time of the slot.
SelectionDone ==
  /\ pc = "select"
  /\ pc' = IF list = << >> THEN "idle" ELSE "check"
  /\ todo' = {}
  /\ UNCHANGED <<pool, attempts, param, first, stopped, limits, open, list, next, effect>>

\* The limit of Block.Check: it counts every transaction of a key.
OfKey(k) == { i \in DOMAIN list : TxKey[list[i]] = k }
CheckUserTx == \A k \in Keys : Cardinality(OfKey(k)) <= MaxBlockUserTx

\* The length of MarshallBlock, and the limit of
\* ProcessBlockWherePrevFromBlockchainTable on it, with header and prefixes;
\* txMaxSize has counted the data of the transactions only.
MarshallSize(s) ==
  LET upTo[n \in 0..Len(s)] ==
        IF n = 0 THEN HeaderSize ELSE upTo[n - 1] + TxBytes[s[n]]
  IN  upTo[Len(s)]
CheckSize == MarshallSize(list) <= MaxBlockSize

\* InsertBlockWOForks: the size and Block.Check of the new block, and the start
\* of Block.Play.  A refusal marks no transaction.
CheckBlock ==
  /\ pc = "check"
  /\ pc' = IF CheckSize /\ CheckUserTx THEN "play" ELSE "idle"
  /\ limits' = NewLimits
  /\ open' = param
  /\ next' = 1
  /\ UNCHANGED <<pool, attempts, param, todo, first, stopped, list, effect>>

\* The parameters after the contract of t has run.
SetLimit(p, t) ==
  IF NewLimit[t] = Unset THEN p ELSE [p EXCEPT ![TxEcosystem[t]] = NewLimit[t]]

\* A transaction without effect is marked bad; it stays in the block.
PlayBad(t, n) ==
  /\ effect' = effect
  /\ open' = open
  /\ pool' = IF n = "generator" THEN pool \ {t} ELSE pool

PlayGood(t, n) ==
  /\ effect' = [effect EXCEPT ![n] = @ \cup {t}]
  /\ open' = SetLimit(open, t)
  /\ pool' = IF n = "generator" THEN pool \ {t} ELSE pool

\* A plausible slip: the first transaction is tried again in the next block.
StopFirstKept(t) == UNCHANGED pool

\* PlaySafe when a limiter stops at the first transaction: nothing of the block
\* is kept, and the transaction is bad.
StopFirst(t) == pool' = pool \ {t}

\* One transaction of Block.Play, on the generator.
PlayTransaction ==
  /\ pc = "play"
  /\ next <= Len(list)
  /\ \E late \in BOOLEAN :
       LET t == list[next]
           o == GenBlock(limits, t, late)
       IN  IF t \in Failing
           THEN /\ PlayBad(t, "generator")
                /\ next' = next + 1
                /\ UNCHANGED <<attempts, pc, limits, list>>
           ELSE /\ limits' = o.limits
                /\ \/ /\ o.err = "ok"
                      /\ PlayGood(t, "generator")
                      /\ next' = next + 1
                      /\ UNCHANGED <<attempts, pc, list>>
                   \/ /\ o.err = "error"
                      /\ PlayBad(t, "generator")
                      /\ next' = next + 1
                      /\ UNCHANGED <<attempts, pc, list>>
                   \/ /\ o.err = "stop" /\ next > 1
                      /\ CountAttempt(t)
                      /\ list' = SubSeq(list, 1, next - 1)
                      /\ pc' = "commit"
                      /\ UNCHANGED <<open, next, effect>>
                   \/ /\ o.err = "stop" /\ next = 1
                      /\ StopFirst(t)
                      /\ list' = << >>
                      /\ pc' = "idle"
                      /\ UNCHANGED <<attempts, open, next, effect>>
  /\ UNCHANGED <<param, todo, first, stopped>>

\* The rest of PlaySafe: the block, cut before a transaction that a limiter
\* stopped, is committed and sent to the peer.
Commit ==
  /\ \/ pc = "commit"
     \/ pc = "play" /\ next > Len(list)
  /\ param' = open
  /\ pc' = "peer"
  /\ limits' = NewLimits
  /\ open' = param
  /\ next' = 1
  /\ UNCHANGED <<pool, attempts, todo, first, stopped, list, effect>>

\* The peer refuses the block, or has played all of it.
PeerDone == pc = "peer" /\ (~CheckSize \/ ~CheckUserTx \/ next > Len(list))

\* One transaction of Block.Play, on the peer.  The limiters are asked after the
\* contract has run, inside the same database transaction.
PlayOnPeer ==
  /\ pc = "peer" /\ ~PeerDone
  /\ LET t == list[next]
         o == Parsing(limits, t, SetLimit(open, t))
     IN  IF t \in Failing
         THEN PlayBad(t, "peer") /\ UNCHANGED limits
         ELSE /\ limits' = o.limits
              /\ IF o.err = "ok" THEN PlayGood(t, "peer") ELSE PlayBad(t, "peer")
  /\ next' = next + 1
  /\ UNCHANGED <<attempts, param, pc, todo, first, stopped, list>>

\* The next block is generated.
EndRound ==
  /\ PeerDone
  /\ pc' = "idle"
  /\ UNCHANGED <<pool, attempts, param, todo, first, stopped, limits, open, list, next, effect>>

Selecting == \E t \in Txs : SelectTransaction(t)

Playing == CheckBlock \/ PlayTransaction \/ Commit \/ PlayOnPeer \/ EndRound

Next == StartSelection \/ Selecting \/ SelectionDone \/ Playing

Spec == Init /\ [][Next]_vars

\* BlockGenerator runs again and again (daemonLoop) and finishes what it has
\* begun.  A slot may end before a transaction is selected, but not every slot
\* does.
FairSpec ==
  /\ Spec
  /\ WF_vars(StartSelection) /\ WF_vars(SelectionDone) /\ WF_vars(Playing)
  /\ SF_vars(Selecting)

-----------------------------------------------------------------------------
(***************************************************************************)
(* Properties.                                                             *)
(***************************************************************************)

Counters == [Keys -> Nat]
LimitsType ==
  [size : Nat, count : Nat, fuel : Nat, users : Counters,
   ecosys : [Ecosystems -> [limit : Nat \cup {Unset}, users : Counters]]]

TypeOK ==
  /\ pool \subseteq Txs
  /\ attempts \in [Txs -> 0..MaxAttempt]
  /\ param \in [Ecosystems -> Nat \cup {Unset}]
  /\ pc \in {"idle", "select", "check", "play", "commit", "peer"}
  /\ todo \subseteq Txs
  /\ first \in BOOLEAN /\ stopped \in BOOLEAN
  /\ limits \in LimitsType
  /\ open \in [Ecosystems -> Nat \cup {Unset}]
  /\ list \in Seq(Txs) /\ next \in Nat \ {0}
  /\ effect \in [Nodes -> SUBSET Txs]

\* Does the block change a parameter that the limiters of a peer read?
SetsLimit == \E t \in TxsOf(list) \ Failing : NewLimit[t] # Unset

\* A peer applies exactly what the generator applied, although it asks other
\* limiters and counts other transactions than the generator did, and measures
\* the block again that the generator cut after it was measured.  Blocks that
\* change the limit of an ecosystem are left out: the peer reads the new limit
\* inside the block, the generator has selected by the old one.
PeersAgree == PeerDone /\ ~SetsLimit => effect["peer"] = effect["generator"]

\* No block leaves the generator, cut or whole, that Block.Check refuses for
\* the number of a user's transactions (block.go:339).
CheckPasses == pc \in {"check", "commit", "peer"} => CheckUserTx

\* The selection is refused for the bytes of the whole block.
TooLarge == pc = "check" /\ ~CheckSize

\* Every transaction is decided: it is in a block, bad, or out of attempts.  No
\* set of transactions is held back by the limiters for ever (limits.go:108);
\* what may hold it back is the other count of bytes (block.go:424), which
\* refuses selection after selection without a mark on any transaction.
Decided == <>(pool = {}) \/ []<>TooLarge
=============================================================================
