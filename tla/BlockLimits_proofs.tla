------------------------- MODULE BlockLimits_proofs -------------------------
(***************************************************************************)
(* Proofs about BlockLimits, for any transactions, users, ecosystems and   *)
(* limits: the types, that Block.Check never refuses a generated block for *)
(* the number of a user's transactions, and that a peer applies what the   *)
(* generator applied.                                                      *)
(***************************************************************************)
EXTENDS BlockLimits, FiniteSetTheorems, NaturalsInduction, TLAPS

Errors == {"ok", "skip", "stop", "error"}
Params == [Ecosystems -> Nat \cup {Unset}]

\* The counters of a new block are numbers.
LEMMA NewLimitsType == NewLimits \in LimitsType
BY DEF NewLimits, LimitsType, Counters, Unset

\* txMaxSize keeps the types of the counters.
LEMMA SizeType ==
  ASSUME NEW l \in LimitsType, NEW t \in Txs, NEW mode
  PROVE  txMaxSize(l, t, mode) \in [limits : LimitsType, err : Errors]
<1> TxSize[t] \in Nat
  BY LimitsAssumption
<1> DEFINE new == [l EXCEPT !.size = @ + TxSize[t]]
<1>1. new \in LimitsType
  BY DEF LimitsType
<1> QED
  BY <1>1 DEF txMaxSize, Outcome, Errors

\* txUserLimit keeps the types of the counters.
LEMMA UserType ==
  ASSUME NEW l \in LimitsType, NEW t \in Txs, NEW mode
  PROVE  txUserLimit(l, t, mode) \in [limits : LimitsType, err : Errors]
<1> TxKey[t] \in Keys
  BY LimitsAssumption
<1> DEFINE new == [l EXCEPT !.users[TxKey[t]] = @ + 1]
<1>1. new \in LimitsType
  BY DEF LimitsType, Counters
<1> QED
  BY <1>1 DEF txUserLimit, Outcome, Errors

\* txMaxLimit keeps the types of the counters.
LEMMA CountType ==
  ASSUME NEW l \in LimitsType, NEW t \in Txs, NEW mode
  PROVE  txMaxLimit(l, t, mode) \in [limits : LimitsType, err : Errors]
<1> DEFINE new == [l EXCEPT !.count = @ + 1]
<1>1. new \in LimitsType
  BY DEF LimitsType
<1> QED
  BY <1>1 DEF txMaxLimit, Outcome, Errors

\* txMaxFuel keeps the types of the counters.
LEMMA FuelType ==
  ASSUME NEW l \in LimitsType, NEW t \in Txs, NEW mode
  PROVE  txMaxFuel(l, t, mode) \in [limits : LimitsType, err : Errors]
<1> TxFuel[t] \in Nat
  BY LimitsAssumption
<1> DEFINE new == [l EXCEPT !.fuel = @ + TxFuel[t]]
<1>1. new \in LimitsType
  BY DEF LimitsType
<1> QED
  BY <1>1 DEF txMaxFuel, Outcome, Errors

\* txUserEcosysLimit keeps the types of the counters, and does not count users
\* across ecosystems.
LEMMA EcosysType ==
  ASSUME NEW l \in LimitsType, NEW t \in Txs, NEW mode, NEW p \in Params
  PROVE  /\ txUserEcosysLimit(l, t, mode, p) \in [limits : LimitsType, err : Errors]
         /\ txUserEcosysLimit(l, t, mode, p).limits.users = l.users
<1> DEFINE k == TxKey[t]
           e == TxEcosystem[t]
           known == l.ecosys[e].limit # Unset
           users == l.ecosys[e].users
           limit == IF known THEN l.ecosys[e].limit
                    ELSE IF p[e] = Unset THEN MaxBlockUserTx ELSE p[e]
           entry == [limit |-> limit, users |-> [users EXCEPT ![k] = users[k] + 1]]
           new == [l EXCEPT !.ecosys = [l.ecosys EXCEPT ![e] = entry]]
           full == known /\ users[k] > 0 /\ users[k] + 1 > limit
           kind == IF mode = "preprocess" THEN "skip" ELSE "error"
<1>1. k \in Keys /\ e \in Ecosystems
  BY LimitsAssumption
<1>2. limit \in Nat \cup {Unset}
  BY <1>1, SysparAssumption DEF LimitsType, Params
<1>3. l.ecosys[e].users \in Counters
  BY <1>1 DEF LimitsType
<1>4. entry \in [limit : Nat \cup {Unset}, users : Counters]
  BY <1>1, <1>2, <1>3 DEF Counters
<1>5. new \in LimitsType /\ new.users = l.users
  BY <1>1, <1>4 DEF LimitsType
<1>6. txUserEcosysLimit(l, t, mode, p) = IF full THEN Outcome(l, kind) ELSE Outcome(new, "ok")
  BY DEF txUserEcosysLimit
<1>7. kind \in Errors /\ "ok" \in Errors
  BY DEF Errors
<1> HIDE DEF new, full, kind
<1> QED
  BY <1>5, <1>6, <1>7 DEF Outcome

\* How the counter of users moves: by one for the user of t if the transaction
\* passes, and never above the limit.
Moves(l, o, t) ==
  /\ o.limits.users \in Counters
  /\ \/ o.limits.users = l.users /\ o.err # "ok"
     \/ /\ o.limits.users = [l.users EXCEPT ![TxKey[t]] = l.users[TxKey[t]] + 1]
        /\ l.users[TxKey[t]] + 1 <= MaxBlockUserTx

\* txUserLimit lets the first transaction of a user pass, which the limit allows
\* because it is above 0.
LEMMA UserMoves ==
  ASSUME NEW l \in LimitsType, NEW t \in Txs, NEW mode
  PROVE  Moves(l, txUserLimit(l, t, mode), t)
<1> DEFINE k == TxKey[t]
<1>1. k \in Keys
  BY LimitsAssumption
<1>2. l.users \in Counters /\ l.users[k] \in Nat
  BY <1>1 DEF LimitsType, Counters
<1>3. MaxBlockUserTx \in Nat \ {0}
  BY SysparAssumption
<1>4. CASE l.users[k] > 0 /\ l.users[k] + 1 > MaxBlockUserTx
  BY <1>2, <1>4 DEF Moves, txUserLimit, Outcome
<1>5. CASE ~(l.users[k] > 0 /\ l.users[k] + 1 > MaxBlockUserTx)
  <2>1. l.users[k] + 1 <= MaxBlockUserTx
    BY <1>2, <1>3, <1>5
  <2>2. [l.users EXCEPT ![k] = l.users[k] + 1] \in Counters
    BY <1>1, <1>2 DEF Counters
  <2>3. txUserLimit(l, t, mode).limits.users = [l.users EXCEPT ![k] = l.users[k] + 1]
    BY <1>5 DEF txUserLimit, Outcome, LimitsType
  <2> QED
    BY <2>1, <2>2, <2>3 DEF Moves
<1> QED
  BY <1>4, <1>5

\* The limiters that the selection and a peer share keep the types, and count
\* the user of a transaction.
LEMMA CountedMoves ==
  ASSUME NEW l \in LimitsType, NEW t \in Txs, NEW mode
  PROVE  /\ Counted(l, t, mode) \in [limits : LimitsType, err : Errors]
         /\ Moves(l, Counted(l, t, mode), t)
<1> DEFINE size == txMaxSize(l, t, mode)
           user == txUserLimit(size.limits, t, mode)
           max(x) == txMaxLimit(x, t, mode)
<1>1. size \in [limits : LimitsType, err : Errors]
  BY SizeType
<1>2. size.limits.users = l.users
  BY DEF txMaxSize, Outcome, LimitsType
<1>3. user \in [limits : LimitsType, err : Errors] /\ Moves(size.limits, user, t)
  BY <1>1, UserType, UserMoves
<1>4. max(user.limits) \in [limits : LimitsType, err : Errors]
  BY <1>3, CountType
<1>5. max(user.limits).limits.users = user.limits.users
  BY <1>3 DEF txMaxLimit, Outcome, LimitsType
<1>6. Counted(l, t, mode) = IF size.err # "ok" THEN size
                            ELSE IF user.err # "ok" THEN user ELSE max(user.limits)
  BY DEF Counted, After
<1>7. Moves(l, user, t)
  BY <1>2, <1>3 DEF Moves
<1>8. size.err # "ok" => Moves(l, size, t)
  BY <1>1, <1>2 DEF Moves, LimitsType
<1>9. user.err = "ok" => Moves(l, max(user.limits), t)
  BY <1>5, <1>7 DEF Moves
<1> HIDE DEF size, user, max
<1> QED
  BY <1>1, <1>3, <1>4, <1>6, <1>7, <1>8, <1>9

\* So does the whole of letPreprocess.
LEMMA PreprocessMoves ==
  ASSUME NEW l \in LimitsType, NEW t \in Txs, NEW p \in Params
  PROVE  /\ Preprocess(l, t, p) \in [limits : LimitsType, err : Errors]
         /\ Moves(l, Preprocess(l, t, p), t)
<1> DEFINE counted == Counted(l, t, "preprocess")
           eco == txUserEcosysLimit(counted.limits, t, "preprocess", p)
<1>1. counted \in [limits : LimitsType, err : Errors] /\ Moves(l, counted, t)
  BY CountedMoves
<1>2. /\ eco \in [limits : LimitsType, err : Errors]
      /\ eco.limits.users = counted.limits.users
  BY <1>1, EcosysType
<1>3. Preprocess(l, t, p) = IF counted.err = "ok" THEN eco ELSE counted
  BY DEF Preprocess, After
<1>4. counted.err = "ok" => Moves(l, eco, t)
  BY <1>1, <1>2 DEF Moves
<1> HIDE DEF counted, eco
<1> QED
  BY <1>1, <1>2, <1>3, <1>4

\* The limiters of letParsing keep the types.
LEMMA ParsingType ==
  ASSUME NEW l \in LimitsType, NEW t \in Txs, NEW p \in Params
  PROVE  Parsing(l, t, p) \in [limits : LimitsType, err : Errors]
<1> DEFINE counted == Counted(l, t, "parsing")
           eco == txUserEcosysLimit(counted.limits, t, "parsing", p)
           fuel(x) == txMaxFuel(x, t, "parsing")
<1>1. counted \in [limits : LimitsType, err : Errors]
  BY CountedMoves
<1>2. eco \in [limits : LimitsType, err : Errors]
  BY <1>1, EcosysType
<1>3. fuel(eco.limits) \in [limits : LimitsType, err : Errors]
  BY <1>2, FuelType
<1>4. Parsing(l, t, p) = IF counted.err # "ok" THEN counted
                         ELSE IF eco.err # "ok" THEN eco ELSE fuel(eco.limits)
  BY DEF Parsing, After
<1> HIDE DEF counted, eco, fuel
<1> QED
  BY <1>1, <1>2, <1>3, <1>4

\* The limiters of letGenBlock keep the types.
LEMMA GenBlockType ==
  ASSUME NEW l \in LimitsType, NEW t \in Txs, NEW late
  PROVE  GenBlock(l, t, late) \in [limits : LimitsType, err : Errors]
BY FuelType DEF GenBlock, Outcome, Errors

-----------------------------------------------------------------------------
(***************************************************************************)
(* The inductive invariant.  A row that is still to be selected or played  *)
(* is unused, so it has an attempt left; and while transactions are being  *)
(* selected the limiter has counted every one of the list.                 *)
(***************************************************************************)

\* The list holds a row once, and what is still to be done is unused.
PoolInv ==
  /\ \A t \in pool : attempts[t] < MaxAttempt
  /\ \A i, j \in DOMAIN list : list[i] = list[j] => i = j
  /\ pc = "select" => /\ todo \subseteq pool
                      /\ \A i \in DOMAIN list : list[i] \in pool \ todo
  /\ pc = "check" => \A i \in DOMAIN list : list[i] \in pool
  /\ pc = "play" => \A i \in DOMAIN list : i >= next => list[i] \in pool

\* The limiter counts what Block.Check will count.
CountInv ==
  /\ pc = "select" => \A k \in Keys : /\ Cardinality(OfKey(k)) <= limits.users[k]
                                      /\ limits.users[k] <= MaxBlockUserTx
  /\ pc \in {"check", "play", "commit", "peer"} => CheckUserTx

Inv == TypeOK /\ PoolInv /\ CountInv

\* The numbers that the steps compare are natural numbers.
LEMMA Numbers ==
  /\ MaxBlockUserTx \in Nat \ {0} /\ MaxAttempt \in Nat \ {0}
BY SysparAssumption

\* The transactions of a key are finitely many.
LEMMA OfKeyFinite ==
  ASSUME list \in Seq(Txs), NEW k
  PROVE  IsFiniteSet(OfKey(k)) /\ Cardinality(OfKey(k)) \in Nat
<1>1. IsFiniteSet(1..Len(list))
  BY FS_Interval
<1>2. OfKey(k) \subseteq 1..Len(list)
  BY DEF OfKey
<1> QED
  BY <1>1, <1>2, FS_Subset, FS_CardinalityType

\* So they are after a step.
LEMMA OfKeyFinitePrimed ==
  ASSUME list' \in Seq(Txs), NEW k
  PROVE  Cardinality(OfKey(k)') \in Nat
<1>1. IsFiniteSet(1..Len(list'))
  BY FS_Interval
<1>2. OfKey(k)' \subseteq 1..Len(list')
  BY DEF OfKey
<1> QED
  BY <1>1, <1>2, FS_Subset, FS_CardinalityType

\* One more transaction is one more of its key at most.
LEMMA OfKeyAppend ==
  ASSUME list \in Seq(Txs), NEW t \in Txs, list' = Append(list, t), NEW k
  PROVE  Cardinality(OfKey(k)') <= Cardinality(OfKey(k)) + (IF TxKey[t] = k THEN 1 ELSE 0)
<1> DEFINE n == Len(list) + 1
<1>1. /\ DOMAIN list = 1..Len(list) /\ Len(list) \in Nat
      /\ DOMAIN list' = 1..n /\ list'[n] = t
      /\ \A i \in 1..Len(list) : list'[i] = list[i]
  OBVIOUS
<1>2. CASE TxKey[t] = k
  <2>1. OfKey(k)' = OfKey(k) \cup {n}
    BY <1>1, <1>2 DEF OfKey
  <2>2. Cardinality(OfKey(k) \cup {n}) <= Cardinality(OfKey(k)) + 1
    <3>1. IsFiniteSet(OfKey(k)) /\ Cardinality(OfKey(k)) \in Nat
      BY OfKeyFinite
    <3>2. Cardinality(OfKey(k) \cup {n}) = IF n \in OfKey(k) THEN Cardinality(OfKey(k))
                                           ELSE Cardinality(OfKey(k)) + 1
      BY <3>1, FS_AddElement
    <3> QED
      BY <3>1, <3>2
  <2> QED
    BY <1>2, <2>1, <2>2
<1>3. CASE TxKey[t] # k
  <2>1. OfKey(k)' = OfKey(k)
    BY <1>1, <1>3 DEF OfKey
  <2> QED
    BY <1>3, <2>1, OfKeyFinite
<1> QED
  BY <1>2, <1>3

\* Cutting a block takes transactions away from every key.
LEMMA OfKeyCut ==
  ASSUME list \in Seq(Txs), NEW n \in Nat, n <= Len(list), list' = SubSeq(list, 1, n), NEW k
  PROVE  /\ Cardinality(OfKey(k)') <= Cardinality(OfKey(k))
         /\ list' \in Seq(Txs)
<1>1. /\ DOMAIN list = 1..Len(list)
      /\ list' \in Seq(Txs) /\ DOMAIN list' = 1..n
      /\ \A i \in 1..n : list'[i] = list[i]
  OBVIOUS
<1>2. OfKey(k)' \subseteq OfKey(k)
  BY <1>1 DEF OfKey
<1> QED
  BY <1>1, <1>2, OfKeyFinite, FS_Subset

\* The empty list has no transaction of any key.
LEMMA OfKeyEmpty ==
  ASSUME list' = << >>, NEW k
  PROVE  Cardinality(OfKey(k)') = 0
<1>1. OfKey(k)' = {}
  BY DEF OfKey
<1> QED
  BY <1>1, FS_EmptySet

\* The invariant holds at the start.
LEMMA InitInv == Init => Inv
<1> SUFFICES ASSUME Init PROVE Inv
  OBVIOUS
<1>1. TypeOK
  <2>1. param \in [Ecosystems -> Nat \cup {Unset}]
    BY LimitsAssumption DEF Init
  <2>2. attempts \in [Txs -> 0..MaxAttempt]
    BY Numbers DEF Init
  <2>3. effect \in [Nodes -> SUBSET Txs]
    BY DEF Init
  <2>4. list \in Seq(Txs) /\ next \in Nat \ {0}
    BY DEF Init
  <2> QED
    BY <2>1, <2>2, <2>3, <2>4, NewLimitsType DEF Init, TypeOK
<1>2. PoolInv
  BY Numbers DEF Init, PoolInv
<1>3. CountInv
  BY DEF Init, CountInv
<1> QED
  BY <1>1, <1>2, <1>3 DEF Inv

\* The start of a selection: the rows are unused and the counters are 0.
LEMMA StartSelectionInv == Inv /\ StartSelection => Inv'
<1> SUFFICES ASSUME Inv, StartSelection PROVE Inv'
  OBVIOUS
<1> USE DEF Inv, StartSelection
<1>1. TypeOK'
  <2>1. effect' \in [Nodes -> SUBSET Txs]
    OBVIOUS
  <2>2. list' \in Seq(Txs) /\ todo' \subseteq Txs
    BY DEF TypeOK
  <2> QED
    BY <2>1, <2>2, NewLimitsType DEF TypeOK
<1>2. PoolInv'
  BY DEF PoolInv, TypeOK
<1>3. CountInv'
  <2>1. \A k \in Keys : Cardinality(OfKey(k)') = 0
    BY OfKeyEmpty
  <2>2. \A k \in Keys : limits'.users[k] = 0
    BY DEF NewLimits
  <2> QED
    BY <2>1, <2>2, Numbers DEF CountInv
<1> QED
  BY <1>1, <1>2, <1>3

\* One transaction of the selection.
LEMMA SelectInv == ASSUME NEW t \in Txs PROVE Inv /\ SelectTransaction(t) => Inv'
<1> SUFFICES ASSUME Inv, SelectTransaction(t) PROVE Inv'
  OBVIOUS
<1> DEFINE o == Preprocess(limits, t, param)
<1>1. o \in [limits : LimitsType, err : Errors] /\ Moves(limits, o, t)
  BY PreprocessMoves DEF Inv, TypeOK, Params
<1>2. t \in pool /\ attempts[t] < MaxAttempt /\ pc = "select"
  BY DEF Inv, PoolInv, SelectTransaction
<1>3. /\ \/ list' = Append(list, t) /\ o.err = "ok"
         \/ list' = list
      /\ limits' = o.limits /\ pc' = pc /\ param' = param /\ todo' = todo \ {t}
      /\ open' = open /\ next' = next /\ effect' = effect
      /\ first' = FALSE
  BY DEF SelectTransaction
<1>4. /\ pool' \subseteq pool
      /\ pool \ {t} \subseteq pool'
      /\ attempts' \in [Txs -> 0..MaxAttempt]
      /\ list' # list => pool' = pool
      /\ \A u \in pool' : attempts'[u] < MaxAttempt
      /\ stopped' \in BOOLEAN
  <2>1. CASE CountAttempt(t) /\ stopped' = (stopped \/ o.err = "stop") /\ UNCHANGED list
    BY <1>2, <2>1, Numbers DEF CountAttempt, Inv, TypeOK, PoolInv
  <2>2. CASE pool' = pool \ {t} /\ UNCHANGED <<attempts, stopped, list>>
    BY <1>2, <2>2 DEF Inv, TypeOK, PoolInv
  <2>3. CASE UNCHANGED <<pool, attempts, stopped>>
    BY <2>3 DEF Inv, TypeOK, PoolInv
  <2> QED
    BY <2>1, <2>2, <2>3 DEF SelectTransaction
<1> HIDE DEF o
<1>5. TypeOK'
  <2>1. Append(list, t) \in Seq(Txs) /\ list \in Seq(Txs)
    BY DEF Inv, TypeOK
  <2>2. list' \in Seq(Txs)
    BY <1>3, <2>1
  <2> QED
    BY <1>1, <1>3, <1>4, <2>2 DEF Inv, TypeOK
<1>6. PoolInv'
  <2>1. /\ pool \ todo \subseteq pool'
        /\ todo' \subseteq pool'
    BY <1>2, <1>3, <1>4 DEF Inv, PoolInv, SelectTransaction
  <2>2. CASE list' = list
    BY <1>2, <1>3, <1>4, <2>1, <2>2 DEF Inv, PoolInv
  <2>3. CASE list' = Append(list, t) /\ list' # list
    <3>1. /\ DOMAIN list = 1..Len(list) /\ Len(list) \in Nat
          /\ DOMAIN list' = 1..(Len(list) + 1)
          /\ list'[Len(list) + 1] = t
          /\ \A i \in 1..Len(list) : list'[i] = list[i]
      BY <2>3 DEF Inv, TypeOK
    <3>2. t \in todo
      BY DEF SelectTransaction
    <3>3. \A i \in DOMAIN list : list[i] \in pool \ todo /\ list[i] # t
      BY <1>2, <3>2 DEF Inv, PoolInv
    <3>4. \A i, j \in DOMAIN list' : list'[i] = list'[j] => i = j
      BY <3>1, <3>3 DEF Inv, PoolInv
    <3>5. \A i \in DOMAIN list' : list'[i] \in pool' \ todo'
      <4>1. pool' = pool /\ t \in pool' \ todo'
        BY <1>2, <1>3, <1>4, <2>3
      <4>2. \A i \in DOMAIN list : list[i] \in pool' \ todo'
        BY <1>3, <3>3, <4>1
      <4> QED
        BY <3>1, <4>1, <4>2
    <3> QED
      BY <1>2, <1>3, <1>4, <2>1, <3>4, <3>5 DEF PoolInv
  <2> QED
    BY <1>3, <2>2, <2>3
<1>7. CountInv'
  <2> SUFFICES ASSUME NEW k \in Keys
               PROVE  /\ Cardinality(OfKey(k)') <= limits'.users[k]
                      /\ limits'.users[k] <= MaxBlockUserTx
    BY <1>2, <1>3 DEF CountInv
  <2>1. /\ limits.users \in Counters /\ limits.users[k] \in Nat
        /\ Cardinality(OfKey(k)) \in Nat
        /\ Cardinality(OfKey(k)) <= limits.users[k] /\ limits.users[k] <= MaxBlockUserTx
    <3>1. limits.users \in Counters
      BY DEF Inv, TypeOK, LimitsType
    <3>2. Cardinality(OfKey(k)) \in Nat
      BY OfKeyFinite DEF Inv, TypeOK
    <3> QED
      BY <1>2, <3>1, <3>2 DEF Inv, CountInv, Counters
  <2>2. CASE list' = list
    <3>1. OfKey(k)' = OfKey(k)
      BY <2>2 DEF OfKey
    <3>2. \/ limits'.users = limits.users
          \/ /\ limits'.users = [limits.users EXCEPT ![TxKey[t]] = limits.users[TxKey[t]] + 1]
             /\ limits.users[TxKey[t]] + 1 <= MaxBlockUserTx
      BY <1>1, <1>3 DEF Moves
    <3>3. limits'.users[k] >= limits.users[k] /\ limits'.users[k] <= MaxBlockUserTx
      BY <2>1, <3>2, Numbers DEF Counters
    <3>4. limits'.users[k] \in Nat
      BY <2>1, <3>2 DEF Counters
    <3> QED
      BY <2>1, <3>1, <3>3, <3>4
  <2>3. CASE list' = Append(list, t) /\ o.err = "ok"
    <3>1. Cardinality(OfKey(k)') <= Cardinality(OfKey(k)) + (IF TxKey[t] = k THEN 1 ELSE 0)
      BY <2>3, OfKeyAppend DEF Inv, TypeOK
    <3>2. Cardinality(OfKey(k)') \in Nat
      BY <1>5, OfKeyFinitePrimed DEF TypeOK
    <3>3. limits'.users[k] = limits.users[k] + (IF TxKey[t] = k THEN 1 ELSE 0)
      BY <1>1, <1>3, <2>1, <2>3 DEF Moves, Counters
    <3>4. limits'.users[k] <= MaxBlockUserTx
      BY <1>1, <1>3, <2>1, <2>3, <3>3 DEF Moves, Counters
    <3> QED
      BY <2>1, <3>1, <3>2, <3>3, <3>4
  <2> QED
    BY <1>3, <2>2, <2>3
<1> QED
  BY <1>5, <1>6, <1>7 DEF Inv

\* The end of a selection: what was counted is what Block.Check counts.
LEMMA SelectionDoneInv == Inv /\ SelectionDone => Inv'
<1> SUFFICES ASSUME Inv, SelectionDone PROVE Inv'
  OBVIOUS
<1>1. TypeOK'
  BY DEF Inv, SelectionDone, TypeOK
<1>2. PoolInv'
  BY DEF Inv, SelectionDone, PoolInv
<1>3. CountInv'
  <2>1. CheckUserTx
    <3> SUFFICES ASSUME NEW k \in Keys PROVE Cardinality(OfKey(k)) <= MaxBlockUserTx
      BY DEF CheckUserTx
    <3>1. limits.users[k] \in Nat
      BY DEF Inv, TypeOK, LimitsType, Counters
    <3>2. Cardinality(OfKey(k)) \in Nat
      BY OfKeyFinite DEF Inv, TypeOK
    <3>3. /\ Cardinality(OfKey(k)) <= limits.users[k]
          /\ limits.users[k] <= MaxBlockUserTx
      BY DEF Inv, CountInv, SelectionDone
    <3> QED
      BY <3>1, <3>2, <3>3, Numbers
  <2>2. CheckUserTx'
    BY <2>1 DEF CheckUserTx, OfKey, SelectionDone
  <2>3. pc' # "select"
    BY DEF SelectionDone
  <2> QED
    BY <2>2, <2>3 DEF CountInv
<1> QED
  BY <1>1, <1>2, <1>3 DEF Inv

\* A step that leaves the list alone leaves the count of Block.Check alone.
LEMMA SameListInv ==
  ASSUME CountInv, list' = list, pc \in {"check", "play", "commit", "peer"}, pc' # "select"
  PROVE  CountInv'
<1>1. CheckUserTx'
  BY DEF CountInv, CheckUserTx, OfKey
<1> QED
  BY <1>1 DEF CountInv

\* Block.Check of the generator.
LEMMA CheckBlockInv == Inv /\ CheckBlock => Inv'
<1> SUFFICES ASSUME Inv, CheckBlock PROVE Inv'
  OBVIOUS
<1>1. TypeOK'
  BY NewLimitsType DEF Inv, CheckBlock, TypeOK
<1>2. PoolInv'
  BY DEF Inv, CheckBlock, PoolInv
<1>3. CountInv'
  BY SameListInv DEF Inv, CheckBlock
<1> QED
  BY <1>1, <1>2, <1>3 DEF Inv

\* What a contract leaves in the parameters has their type.
LEMMA SetLimitType ==
  ASSUME NEW p \in Params, NEW t \in Txs
  PROVE  SetLimit(p, t) \in Params
<1>1. TxEcosystem[t] \in Ecosystems /\ NewLimit[t] \in Nat \cup {Unset}
  BY LimitsAssumption
<1> QED
  BY <1>1 DEF SetLimit, Params

\* Playing a transaction keeps the types of what it changes.
LEMMA PlayType ==
  ASSUME TypeOK, NEW t \in Txs, NEW n \in Nodes, PlayBad(t, n) \/ PlayGood(t, n)
  PROVE  /\ effect' \in [Nodes -> SUBSET Txs]
         /\ open' \in [Ecosystems -> Nat \cup {Unset}]
         /\ pool' \subseteq Txs
         /\ pool \ {t} \subseteq pool' /\ pool' \subseteq pool
         /\ n = "peer" => pool' = pool
<1>1. SetLimit(open, t) \in [Ecosystems -> Nat \cup {Unset}]
  BY SetLimitType DEF TypeOK, Params
<1>2. CASE PlayBad(t, n)
  BY <1>2 DEF PlayBad, TypeOK
<1>3. CASE PlayGood(t, n)
  BY <1>1, <1>3 DEF PlayGood, TypeOK
<1> QED
  BY <1>2, <1>3

\* One transaction of the generator's block.
LEMMA PlayTransactionInv == Inv /\ PlayTransaction => Inv'
<1> SUFFICES ASSUME Inv, PlayTransaction PROVE Inv'
  OBVIOUS
<1> DEFINE t == list[next]
<1>1. /\ pc = "play" /\ next \in Nat \ {0} /\ next <= Len(list)
      /\ list \in Seq(Txs) /\ next \in DOMAIN list /\ t \in Txs
      /\ DOMAIN list = 1..Len(list) /\ Len(list) \in Nat
  BY DEF Inv, TypeOK, PlayTransaction
<1>2. t \in pool /\ attempts[t] < MaxAttempt
  BY <1>1 DEF Inv, PoolInv
<1>3. UNCHANGED <<param, todo, first, stopped>>
  BY DEF PlayTransaction
<1>4. PICK late \in BOOLEAN :
        \/ /\ PlayBad(t, "generator") \/ PlayGood(t, "generator")
           /\ next' = next + 1
           /\ limits' = limits \/ limits' = GenBlock(limits, t, late).limits
           /\ UNCHANGED <<attempts, pc, list>>
        \/ /\ CountAttempt(t)
           /\ next > 1
           /\ limits' = GenBlock(limits, t, late).limits
           /\ list' = SubSeq(list, 1, next - 1)
           /\ pc' = "commit"
           /\ UNCHANGED <<open, next, effect>>
        \/ /\ StopFirst(t)
           /\ limits' = GenBlock(limits, t, late).limits
           /\ list' = << >>
           /\ pc' = "idle"
           /\ UNCHANGED <<attempts, open, next, effect>>
  BY DEF PlayTransaction
<1>5. limits' \in LimitsType
  BY <1>1, <1>4, GenBlockType DEF Inv, TypeOK
<1> HIDE DEF t
<1>6. CASE /\ PlayBad(t, "generator") \/ PlayGood(t, "generator")
           /\ next' = next + 1
           /\ UNCHANGED <<attempts, pc, list>>
  <2>1. /\ effect' \in [Nodes -> SUBSET Txs]
        /\ open' \in [Ecosystems -> Nat \cup {Unset}]
        /\ pool' \subseteq Txs
        /\ pool \ {t} \subseteq pool' /\ pool' \subseteq pool
    BY <1>1, <1>6, PlayType DEF Inv, Nodes
  <2>2. TypeOK'
    BY <1>1, <1>3, <1>5, <1>6, <2>1 DEF Inv, TypeOK
  <2>3. \A i \in DOMAIN list : i >= next + 1 => list[i] \in pool'
    <3> SUFFICES ASSUME NEW i \in DOMAIN list, i >= next + 1 PROVE list[i] \in pool'
      OBVIOUS
    <3>1. i \in Nat /\ i >= next /\ i # next
      BY <1>1
    <3>2. list[i] \in pool /\ list[i] # t
      BY <1>1, <3>1 DEF Inv, PoolInv, t
    <3> QED
      BY <2>1, <3>2
  <2>4. PoolInv'
    BY <1>1, <1>6, <2>1, <2>3 DEF Inv, PoolInv
  <2>5. CountInv'
    BY <1>1, <1>6, SameListInv DEF Inv
  <2> QED
    BY <2>2, <2>4, <2>5 DEF Inv
<1>7. CASE /\ CountAttempt(t)
           /\ next > 1
           /\ list' = SubSeq(list, 1, next - 1)
           /\ pc' = "commit"
           /\ UNCHANGED <<open, next, effect>>
  <2>1. /\ next - 1 \in Nat /\ next - 1 <= Len(list)
        /\ list' \in Seq(Txs) /\ DOMAIN list' = 1..(next - 1)
        /\ \A i \in 1..(next - 1) : list'[i] = list[i]
    BY <1>1, <1>7
  <2>2. /\ attempts' \in [Txs -> 0..MaxAttempt]
        /\ pool' \subseteq pool
        /\ \A u \in pool' : attempts'[u] < MaxAttempt
    BY <1>1, <1>2, <1>7, Numbers DEF CountAttempt, Inv, TypeOK, PoolInv
  <2>3. TypeOK'
    BY <1>3, <1>5, <1>7, <2>1, <2>2 DEF Inv, TypeOK
  <2>4. PoolInv'
    BY <1>1, <1>7, <2>1, <2>2, SMTT(30) DEF Inv, PoolInv
  <2>5. CheckUserTx'
    <3> SUFFICES ASSUME NEW k \in Keys PROVE Cardinality(OfKey(k)') <= MaxBlockUserTx
      BY DEF CheckUserTx
    <3>1. Cardinality(OfKey(k)') <= Cardinality(OfKey(k))
      BY <1>1, <1>7, <2>1, OfKeyCut
    <3>2. Cardinality(OfKey(k)) <= MaxBlockUserTx /\ Cardinality(OfKey(k)) \in Nat
      BY <1>1, OfKeyFinite DEF Inv, CountInv, CheckUserTx
    <3>3. Cardinality(OfKey(k)') \in Nat
      BY <2>1, OfKeyFinitePrimed
    <3> QED
      BY <3>1, <3>2, <3>3, Numbers
  <2> QED
    BY <1>7, <2>3, <2>4, <2>5 DEF Inv, CountInv
<1>8. CASE /\ StopFirst(t)
           /\ list' = << >>
           /\ pc' = "idle"
           /\ UNCHANGED <<attempts, open, next, effect>>
  <2>1. pool' \subseteq pool /\ list' \in Seq(Txs)
    BY <1>8 DEF StopFirst
  <2>2. TypeOK'
    BY <1>3, <1>5, <1>8, <2>1 DEF Inv, TypeOK
  <2>3. PoolInv'
    BY <1>8, <2>1 DEF Inv, PoolInv
  <2>4. CountInv'
    BY <1>8 DEF CountInv
  <2> QED
    BY <2>2, <2>3, <2>4 DEF Inv
<1> QED
  BY <1>4, <1>6, <1>7, <1>8

\* The commit of the generator.
LEMMA CommitInv == Inv /\ Commit => Inv'
<1> SUFFICES ASSUME Inv, Commit PROVE Inv'
  OBVIOUS
<1>1. TypeOK'
  BY NewLimitsType DEF Inv, Commit, TypeOK
<1>2. PoolInv'
  BY DEF Inv, Commit, PoolInv
<1>3. CountInv'
  BY SameListInv DEF Inv, Commit
<1> QED
  BY <1>1, <1>2, <1>3 DEF Inv

\* One transaction of the block on the peer.
LEMMA PlayOnPeerInv == Inv /\ PlayOnPeer => Inv'
<1> SUFFICES ASSUME Inv, PlayOnPeer PROVE Inv'
  OBVIOUS
<1> DEFINE t == list[next]
<1>1. /\ pc = "peer" /\ next \in Nat \ {0} /\ list \in Seq(Txs) /\ t \in Txs
  BY DEF Inv, TypeOK, PlayOnPeer, PeerDone
<1>2. /\ PlayBad(t, "peer") \/ PlayGood(t, "peer")
      /\ limits' = limits \/ limits' = Parsing(limits, t, SetLimit(open, t)).limits
      /\ next' = next + 1
      /\ UNCHANGED <<attempts, param, pc, todo, first, stopped, list>>
  BY DEF PlayOnPeer
<1>3. limits' \in LimitsType
  <2>1. SetLimit(open, t) \in Params
    BY <1>1, SetLimitType DEF Inv, TypeOK, Params
  <2> QED
    BY <1>1, <1>2, <2>1, ParsingType DEF Inv, TypeOK
<1>4. /\ effect' \in [Nodes -> SUBSET Txs]
      /\ open' \in [Ecosystems -> Nat \cup {Unset}]
      /\ pool' = pool
  BY <1>1, <1>2, PlayType DEF Inv, Nodes
<1> HIDE DEF t
<1>5. TypeOK'
  BY <1>1, <1>2, <1>3, <1>4 DEF Inv, TypeOK
<1>6. PoolInv'
  BY <1>1, <1>2, <1>4 DEF Inv, PoolInv
<1>7. CountInv'
  BY <1>1, <1>2, SameListInv DEF Inv
<1> QED
  BY <1>5, <1>6, <1>7 DEF Inv

\* The end of a round.
LEMMA EndRoundInv == Inv /\ EndRound => Inv'
<1> SUFFICES ASSUME Inv, EndRound PROVE Inv'
  OBVIOUS
<1>1. TypeOK'
  BY DEF Inv, EndRound, TypeOK
<1>2. PoolInv'
  BY DEF Inv, EndRound, PoolInv, PeerDone
<1>3. CountInv'
  BY DEF EndRound, CountInv
<1> QED
  BY <1>1, <1>2, <1>3 DEF Inv

\* The invariant holds in every reachable state.
THEOREM InvHolds == Spec => []Inv
<1>1. Inv /\ [Next]_vars => Inv'
  <2> SUFFICES ASSUME Inv, [Next]_vars PROVE Inv'
    OBVIOUS
  <2>1. CASE Next
    BY <2>1, StartSelectionInv, SelectInv, SelectionDoneInv, CheckBlockInv,
       PlayTransactionInv, CommitInv, PlayOnPeerInv, EndRoundInv
    DEF Next, Selecting, Playing
  <2>2. CASE UNCHANGED vars
    <3>1. CheckUserTx' = CheckUserTx
      BY <2>2 DEF vars, CheckUserTx, OfKey
    <3>2. \A k \in Keys : OfKey(k)' = OfKey(k)
      BY <2>2 DEF vars, OfKey
    <3> QED
      BY <2>2, <3>1, <3>2 DEF vars, Inv, TypeOK, PoolInv, CountInv
  <2> QED
    BY <2>1, <2>2
<1> QED
  BY <1>1, InitInv, PTL DEF Spec

\* The pool, the counters and the block keep their types for any transactions,
\* ecosystems and limits; no row gets more attempts than MaxTXAttempt.
THEOREM TypeCorrect == Spec => []TypeOK
<1>1. Inv => TypeOK
  BY DEF Inv
<1> QED
  BY <1>1, InvHolds, PTL

\* For any transactions, users and limits above 0, Block.Check (block.go:339)
\* never refuses what processTransactions selected, nor a block that was cut.
THEOREM SelectionPassesCheck == Spec => []CheckPasses
<1>1. Inv => CheckPasses
  BY DEF Inv, CountInv, CheckPasses
<1> QED
  BY <1>1, InvHolds, PTL

-----------------------------------------------------------------------------
(***************************************************************************)
(* Why a peer agrees.  The counters of the selection after each selected   *)
(* transaction are a budget for the peer: the peer, which counts no        *)
(* failing, skipped or stopped transaction, is never above them.  Only the *)
(* counters of users, sizes and transactions need it; the fuel is counted  *)
(* alike by the generator and by the peer, but for the block's last one.   *)
(***************************************************************************)

\* The limit of an ecosystem, read from the parameters p.
LimitIn(p, e) == IF p[e] = Unset THEN MaxBlockUserTx ELSE p[e]

\* The limits that have been read are those of p, and only the users of an
\* ecosystem whose limit has been read are counted.
ReadFrom(l, p) ==
  \A e \in Ecosystems :
    \/ l.ecosys[e].limit = LimitIn(p, e)
    \/ l.ecosys[e].limit = Unset /\ \A k \in Keys : l.ecosys[e].users[k] = 0

\* No counter of l is above that of m.
Within(l, m) ==
  /\ l.size <= m.size /\ l.count <= m.count
  /\ \A k \in Keys : l.users[k] <= m.users[k]
  /\ \A e \in Ecosystems, k \in Keys : l.ecosys[e].users[k] <= m.ecosys[e].users[k]

\* So it is when t is counted on top of l.
Adds(l, m, t) ==
  /\ Within(l, m)
  /\ l.size + TxSize[t] <= m.size /\ l.count + 1 <= m.count
  /\ l.users[TxKey[t]] + 1 <= m.users[TxKey[t]]
  /\ l.ecosys[TxEcosystem[t]].users[TxKey[t]] + 1 <= m.ecosys[TxEcosystem[t]].users[TxKey[t]]

\* The counters m are allowed after t.
Room(m, t, p) ==
  /\ TxSize[t] <= MaxTxSize
  /\ m.size <= MaxBlockSize /\ m.count <= MaxTxCount
  /\ m.users[TxKey[t]] <= MaxBlockUserTx
  /\ \/ m.ecosys[TxEcosystem[t]].users[TxKey[t]] <= 1
     \/ m.ecosys[TxEcosystem[t]].users[TxKey[t]] <= LimitIn(p, TxEcosystem[t])

\* The constants that the limiters compare are natural numbers.
LEMMA Constants ==
  ASSUME NEW t \in Txs
  PROVE  /\ TxKey[t] \in Keys /\ TxEcosystem[t] \in Ecosystems
         /\ TxSize[t] \in Nat /\ TxFuel[t] \in Nat
         /\ MaxTxSize \in Nat /\ MaxBlockSize \in Nat /\ MaxTxCount \in Nat
         /\ MaxBlockUserTx \in Nat \ {0} /\ MaxTxFuel \in Nat /\ MaxBlockFuel \in Nat
BY LimitsAssumption, SysparAssumption

\* The counters are natural numbers.
LEMMA CounterTypes ==
  ASSUME NEW l \in LimitsType
  PROVE  /\ l.size \in Nat /\ l.count \in Nat /\ l.fuel \in Nat
         /\ l.users \in Counters
         /\ \A k \in Keys : l.users[k] \in Nat
         /\ \A e \in Ecosystems : /\ l.ecosys[e].limit \in Nat \cup {Unset}
                                  /\ l.ecosys[e].users \in Counters
         /\ \A e \in Ecosystems, k \in Keys : l.ecosys[e].users[k] \in Nat
BY DEF LimitsType, Counters

\* A limit that is read is a number, so it is not taken for one that is not.
LEMMA LimitInType ==
  ASSUME NEW p \in Params, NEW e \in Ecosystems
  PROVE  LimitIn(p, e) \in Nat /\ LimitIn(p, e) # Unset
<1>1. MaxBlockUserTx \in Nat
  BY SysparAssumption
<1>2. p[e] \in Nat \cup {Unset}
  BY DEF Params
<1>3. LimitIn(p, e) \in Nat
  BY <1>1, <1>2 DEF LimitIn
<1> QED
  BY <1>3 DEF Unset

\* Counters that are within others are within what those are within.
LEMMA WithinTrans ==
  ASSUME NEW l \in LimitsType, NEW m \in LimitsType, NEW n \in LimitsType,
         Within(l, m), Within(m, n)
  PROVE  Within(l, n)
<1>1. /\ l.size <= n.size /\ l.count <= n.count
  BY CounterTypes DEF Within
<1>2. ASSUME NEW k \in Keys PROVE l.users[k] <= n.users[k]
  BY CounterTypes DEF Within
<1>3. ASSUME NEW e \in Ecosystems, NEW k \in Keys
      PROVE  l.ecosys[e].users[k] <= n.ecosys[e].users[k]
  <2>1. /\ l.ecosys[e].users[k] \in Nat /\ m.ecosys[e].users[k] \in Nat
        /\ n.ecosys[e].users[k] \in Nat
    BY CounterTypes
  <2> QED
    BY <2>1 DEF Within
<1> QED
  BY <1>1, <1>2, <1>3 DEF Within

\* New counters are within any others.
LEMMA NewWithin ==
  ASSUME NEW m \in LimitsType, NEW p
  PROVE  Within(NewLimits, m) /\ ReadFrom(NewLimits, p)
<1>1. /\ NewLimits.size = 0 /\ NewLimits.count = 0
      /\ \A k \in Keys : NewLimits.users[k] = 0
      /\ \A e \in Ecosystems : NewLimits.ecosys[e].limit = Unset
      /\ \A e \in Ecosystems, k \in Keys : NewLimits.ecosys[e].users[k] = 0
  BY DEF NewLimits
<1>2. Within(NewLimits, m)
  BY <1>1, CounterTypes DEF Within
<1>3. ReadFrom(NewLimits, p)
  BY <1>1 DEF ReadFrom
<1> QED
  BY <1>2, <1>3

\* When the three limiters shared by the selection and a peer let t pass, and
\* what they count then.  Otherwise they may have counted some of it.
LEMMA CountedPass ==
  ASSUME NEW l \in LimitsType, NEW t \in Txs, NEW mode, mode \in {"preprocess", "parsing"}
  PROVE  LET o == Counted(l, t, mode)
             k == TxKey[t]
         IN  /\ o.err = "ok" <=>
                  /\ TxSize[t] <= MaxTxSize /\ l.size + TxSize[t] <= MaxBlockSize
                  /\ l.users[k] = 0 \/ l.users[k] + 1 <= MaxBlockUserTx
                  /\ l.count + 1 <= MaxTxCount
             /\ o.err = "ok" =>
                  /\ o.limits.size = l.size + TxSize[t] /\ o.limits.count = l.count + 1
                  /\ o.limits.users = [l.users EXCEPT ![k] = l.users[k] + 1]
             /\ o.limits.ecosys = l.ecosys /\ o.limits.fuel = l.fuel
             /\ Within(l, o.limits)
<1> DEFINE k == TxKey[t]
           size == txMaxSize(l, t, mode)
           user == txUserLimit(size.limits, t, mode)
           max == txMaxLimit(user.limits, t, mode)
           o == Counted(l, t, mode)
<1>1. /\ k \in Keys /\ TxSize[t] \in Nat /\ MaxTxSize \in Nat /\ MaxBlockSize \in Nat
      /\ MaxTxCount \in Nat /\ MaxBlockUserTx \in Nat
  BY Constants
<1>2. /\ l.size \in Nat /\ l.count \in Nat /\ l.users \in Counters
      /\ \A x \in Keys : l.users[x] \in Nat
      /\ \A e \in Ecosystems, x \in Keys : l.ecosys[e].users[x] \in Nat
  BY CounterTypes
<1>3. /\ size.limits \in LimitsType
      /\ size.limits.users = l.users /\ size.limits.count = l.count
      /\ size.limits.ecosys = l.ecosys /\ size.limits.fuel = l.fuel
      /\ size.limits.size \in {l.size, l.size + TxSize[t]}
      /\ size.err = "ok" <=> TxSize[t] <= MaxTxSize /\ l.size + TxSize[t] <= MaxBlockSize
      /\ size.err = "ok" => size.limits.size = l.size + TxSize[t]
  <2>1. size.limits \in LimitsType
    BY SizeType
  <2>2. [l EXCEPT !.size = @ + TxSize[t]].size = l.size + TxSize[t]
    BY DEF LimitsType
  <2> QED
    BY <1>1, <1>2, <2>1, <2>2 DEF txMaxSize, Outcome, LimitsType
<1> HIDE DEF size
<1>4. /\ user.limits \in LimitsType
      /\ user.limits.size = size.limits.size /\ user.limits.count = size.limits.count
      /\ user.limits.ecosys = size.limits.ecosys /\ user.limits.fuel = size.limits.fuel
      /\ \/ user.limits.users = l.users /\ user.err # "ok"
         \/ user.limits.users = [l.users EXCEPT ![k] = l.users[k] + 1] /\ user.err = "ok"
      /\ user.err = "ok" <=> (l.users[k] = 0 \/ l.users[k] + 1 <= MaxBlockUserTx)
  <2>1. user.limits \in LimitsType
    BY <1>3, UserType
  <2> QED
    BY <1>1, <1>2, <1>3, <2>1 DEF txUserLimit, Outcome, LimitsType
<1> HIDE DEF user
<1>5. /\ max.limits.users = user.limits.users /\ max.limits.size = user.limits.size
      /\ max.limits.ecosys = user.limits.ecosys /\ max.limits.fuel = user.limits.fuel
      /\ max.limits.count = l.count + 1
      /\ max.err = "ok" <=> l.count + 1 <= MaxTxCount
  BY <1>1, <1>2, <1>3, <1>4 DEF txMaxLimit, Outcome, LimitsType
<1>6. o = IF size.err # "ok" THEN size ELSE IF user.err # "ok" THEN user ELSE max
  BY DEF Counted, After, size, user
<1> HIDE DEF max, o
<1>7. /\ o.limits.ecosys = l.ecosys /\ o.limits.fuel = l.fuel
      /\ o.limits.size \in {l.size, l.size + TxSize[t]}
      /\ o.limits.count \in {l.count, l.count + 1}
      /\ o.limits.users \in {l.users, [l.users EXCEPT ![k] = l.users[k] + 1]}
  BY <1>3, <1>4, <1>5, <1>6
<1>8. Within(l, o.limits)
  <2>1. \A x \in Keys : l.users[x] <= o.limits.users[x]
    BY <1>1, <1>2, <1>7 DEF Counters
  <2>2. l.size <= o.limits.size /\ l.count <= o.limits.count
    BY <1>1, <1>2, <1>7
  <2>3. \A e \in Ecosystems, x \in Keys : l.ecosys[e].users[x] <= o.limits.ecosys[e].users[x]
    BY <1>2, <1>7
  <2> QED
    BY <2>1, <2>2, <2>3 DEF Within
<1>9. o.err = "ok" <=> size.err = "ok" /\ user.err = "ok" /\ max.err = "ok"
  BY <1>6
<1>10. o.err = "ok" =>
         /\ o.limits.size = l.size + TxSize[t] /\ o.limits.count = l.count + 1
         /\ o.limits.users = [l.users EXCEPT ![k] = l.users[k] + 1]
  BY <1>3, <1>4, <1>5, <1>6, <1>9
<1> QED
  BY <1>3, <1>4, <1>5, <1>7, <1>8, <1>9, <1>10 DEF o

\* When the limiter of ecosystems lets t pass, if the limits it knows are those
\* of the parameters it reads; otherwise it counts nothing.
LEMMA EcosysPass ==
  ASSUME NEW l \in LimitsType, NEW t \in Txs, NEW mode, NEW p \in Params, ReadFrom(l, p),
         mode \in {"preprocess", "parsing"}
  PROVE  LET o == txUserEcosysLimit(l, t, mode, p)
             k == TxKey[t]
             e == TxEcosystem[t]
         IN  /\ o.err = "ok" <=> \/ l.ecosys[e].users[k] = 0
                                 \/ l.ecosys[e].users[k] + 1 <= LimitIn(p, e)
             /\ o.err # "ok" => o.limits = l
             /\ o.err = "ok" =>
                  o.limits.ecosys[e].users[k] = l.ecosys[e].users[k] + 1
             /\ \A x \in Ecosystems, y \in Keys :
                  <<x, y>> # <<e, k>> => o.limits.ecosys[x].users[y] = l.ecosys[x].users[y]
             /\ o.limits.size = l.size /\ o.limits.count = l.count
             /\ o.limits.users = l.users /\ o.limits.fuel = l.fuel
             /\ ReadFrom(o.limits, p)
<1> DEFINE k == TxKey[t]
           e == TxEcosystem[t]
           known == l.ecosys[e].limit # Unset
           users == l.ecosys[e].users
           limit == IF known THEN l.ecosys[e].limit
                    ELSE IF p[e] = Unset THEN MaxBlockUserTx ELSE p[e]
           entry == [limit |-> limit, users |-> [users EXCEPT ![k] = users[k] + 1]]
           eco == [l.ecosys EXCEPT ![e] = entry]
           new == [l EXCEPT !.ecosys = eco]
           full == known /\ users[k] > 0 /\ users[k] + 1 > limit
           kind == IF mode = "preprocess" THEN "skip" ELSE "error"
           o == txUserEcosysLimit(l, t, mode, p)
<1>1. k \in Keys /\ e \in Ecosystems
  BY Constants
<1>2. /\ users \in Counters /\ users[k] \in Nat
      /\ \A x \in Ecosystems : l.ecosys[x].users \in Counters
  BY <1>1, CounterTypes
<1>3. LimitIn(p, e) \in Nat /\ LimitIn(p, e) # Unset
  BY <1>1, LimitInType
<1>4. /\ limit = LimitIn(p, e)
      /\ known \/ users[k] = 0
  BY <1>1, <1>3 DEF ReadFrom, LimitIn
<1>5. o = IF full THEN Outcome(l, kind) ELSE Outcome(new, "ok")
  BY DEF txUserEcosysLimit
<1>6. kind # "ok"
  OBVIOUS
<1>7. full <=> ~(users[k] = 0 \/ users[k] + 1 <= LimitIn(p, e))
  BY <1>2, <1>3, <1>4
<1>8. l.ecosys \in [Ecosystems -> [limit : Nat \cup {Unset}, users : Counters]]
  BY DEF LimitsType
<1>9. /\ new.size = l.size /\ new.count = l.count /\ new.users = l.users
      /\ new.fuel = l.fuel /\ new.ecosys = eco
  BY DEF LimitsType
<1>10. /\ eco[e] = entry
       /\ \A x \in Ecosystems : x # e => eco[x] = l.ecosys[x]
  BY <1>1, <1>8
<1>11. entry.limit = LimitIn(p, e) /\ entry.users = [users EXCEPT ![k] = users[k] + 1]
  BY <1>4
<1> HIDE DEF limit, known, full, kind, entry, eco, new, o
<1>12. /\ o.err = "ok" <=> ~full
       /\ full => o.limits = l
       /\ ~full => o.limits = new
  BY <1>5, <1>6 DEF Outcome
<1>13. new.ecosys[e].users[k] = users[k] + 1
  BY <1>1, <1>2, <1>9, <1>10, <1>11 DEF Counters
<1>14. ASSUME NEW x \in Ecosystems, NEW y \in Keys, <<x, y>> # <<e, k>>
       PROVE  new.ecosys[x].users[y] = l.ecosys[x].users[y]
  BY <1>1, <1>2, <1>9, <1>10, <1>11, <1>14 DEF Counters
<1>15. ReadFrom(new, p)
  BY <1>9, <1>10, <1>11 DEF ReadFrom
<1> QED
  BY <1>7, <1>9, <1>12, <1>13, <1>14, <1>15 DEF o

\* The selection counts t and has room for it when it takes it; it never
\* counts less than before.
LEMMA PreprocessPass ==
  ASSUME NEW l \in LimitsType, NEW t \in Txs, NEW p \in Params, ReadFrom(l, p)
  PROVE  LET o == Preprocess(l, t, p)
         IN  /\ Within(l, o.limits) /\ ReadFrom(o.limits, p)
             /\ o.err = "ok" => Adds(l, o.limits, t) /\ Room(o.limits, t, p)
<1> DEFINE k == TxKey[t]
           e == TxEcosystem[t]
           c == Counted(l, t, "preprocess")
           m == c.limits
           x == txUserEcosysLimit(m, t, "preprocess", p)
           o == Preprocess(l, t, p)
<1>1. k \in Keys /\ e \in Ecosystems /\ TxSize[t] \in Nat /\ MaxBlockUserTx \in Nat \ {0}
  BY Constants
<1>2. /\ m \in LimitsType /\ Within(l, m) /\ m.ecosys = l.ecosys
      /\ c.err = "ok" => /\ TxSize[t] <= MaxTxSize
                         /\ l.size + TxSize[t] <= MaxBlockSize /\ m.size = l.size + TxSize[t]
                         /\ l.count + 1 <= MaxTxCount /\ m.count = l.count + 1
                         /\ l.users[k] = 0 \/ l.users[k] + 1 <= MaxBlockUserTx
                         /\ m.users = [l.users EXCEPT ![k] = l.users[k] + 1]
  BY CountedPass, CountedMoves
<1>3. ReadFrom(m, p)
  BY <1>2 DEF ReadFrom
<1>4. o = IF c.err = "ok" THEN x ELSE c
  BY DEF Preprocess, After
<1> HIDE DEF c, m
<1>5. /\ x.err = "ok" <=> \/ m.ecosys[e].users[k] = 0
                          \/ m.ecosys[e].users[k] + 1 <= LimitIn(p, e)
      /\ x.err # "ok" => x.limits = m
      /\ x.err = "ok" => x.limits.ecosys[e].users[k] = m.ecosys[e].users[k] + 1
      /\ \A a \in Ecosystems, b \in Keys :
           <<a, b>> # <<e, k>> => x.limits.ecosys[a].users[b] = m.ecosys[a].users[b]
      /\ x.limits.size = m.size /\ x.limits.count = m.count
      /\ x.limits.users = m.users /\ x.limits.fuel = m.fuel
      /\ ReadFrom(x.limits, p)
      /\ x.limits \in LimitsType
  BY <1>2, <1>3, EcosysPass, EcosysType
<1> HIDE DEF x, o
<1>6. \A a \in Ecosystems, b \in Keys : m.ecosys[a].users[b] \in Nat
  BY <1>2, CounterTypes
<1>7. Within(m, x.limits)
  <2>1. \A b \in Keys : m.users[b] \in Nat
    BY <1>2, CounterTypes
  <2>2. m.size \in Nat /\ m.count \in Nat
    BY <1>2, CounterTypes
  <2>3. ASSUME NEW a \in Ecosystems, NEW b \in Keys
        PROVE  m.ecosys[a].users[b] <= x.limits.ecosys[a].users[b]
    <3>1. CASE <<a, b>> = <<e, k>>
      BY <1>5, <1>6, <3>1
    <3>2. CASE <<a, b>> # <<e, k>>
      BY <1>5, <1>6, <3>2
    <3> QED
      BY <3>1, <3>2
  <2> QED
    BY <1>5, <2>1, <2>2, <2>3 DEF Within
<1>8. Within(l, x.limits)
  BY <1>2, <1>5, <1>7, WithinTrans
<1>9. Within(l, o.limits) /\ ReadFrom(o.limits, p)
  BY <1>2, <1>3, <1>4, <1>5, <1>8 DEF m
<1>10. ASSUME o.err = "ok"
       PROVE  Adds(l, o.limits, t) /\ Room(o.limits, t, p)
  <2>1. o = x /\ c.err = "ok" /\ x.err = "ok"
    BY <1>4, <1>10
  <2>2. l.users \in Counters /\ l.users[k] \in Nat
    BY <1>1, CounterTypes
  <2>3. m.users[k] = l.users[k] + 1
    BY <1>1, <1>2, <2>1, <2>2 DEF Counters
  <2>4. m.users[k] <= MaxBlockUserTx
    BY <1>1, <1>2, <2>1, <2>2, <2>3
  <2>5. l.ecosys[e].users[k] \in Nat /\ l.size \in Nat /\ l.count \in Nat
    BY <1>1, CounterTypes
  <2>6. x.limits.ecosys[e].users[k] = l.ecosys[e].users[k] + 1
    BY <1>2, <1>5, <2>1
  <2>7. \/ x.limits.ecosys[e].users[k] <= 1
        \/ x.limits.ecosys[e].users[k] <= LimitIn(p, e)
    BY <1>2, <1>5, <2>1, <2>5, <2>6
  <2>8. Adds(l, x.limits, t)
    BY <1>1, <1>2, <1>5, <1>8, <2>1, <2>2, <2>3, <2>5, <2>6 DEF Adds
  <2>9. Room(x.limits, t, p)
    BY <1>2, <1>5, <2>1, <2>4, <2>7 DEF Room
  <2> QED
    BY <2>1, <2>8, <2>9
<1> QED
  BY <1>9, <1>10 DEF o

\* A peer within the budget m before t, with room for t in the budget n after
\* it, is stopped by no limiter but that of the fuel, and is within n then.
LEMMA ParsingPass ==
  ASSUME NEW l \in LimitsType, NEW m \in LimitsType, NEW n \in LimitsType, NEW t \in Txs,
         NEW p \in Params, ReadFrom(l, p), Within(l, m), Adds(m, n, t), Room(n, t, p)
  PROVE  LET o == Parsing(l, t, p)
         IN  /\ Within(o.limits, n) /\ ReadFrom(o.limits, p)
             /\ TxFuel[t] > MaxTxFuel => o.err = "error" /\ o.limits.fuel = l.fuel
             /\ TxFuel[t] <= MaxTxFuel /\ l.fuel + TxFuel[t] <= MaxBlockFuel
                  => o.err = "ok" /\ o.limits.fuel = l.fuel + TxFuel[t]
<1> DEFINE k == TxKey[t]
           e == TxEcosystem[t]
           c == Counted(l, t, "parsing")
           d == c.limits
           x == txUserEcosysLimit(d, t, "parsing", p)
           y == x.limits
           f == txMaxFuel(y, t, "parsing")
           o == Parsing(l, t, p)
<1>1. /\ k \in Keys /\ e \in Ecosystems /\ TxSize[t] \in Nat /\ TxFuel[t] \in Nat
      /\ MaxTxSize \in Nat /\ MaxBlockSize \in Nat /\ MaxTxCount \in Nat
      /\ MaxBlockUserTx \in Nat \ {0} /\ MaxTxFuel \in Nat /\ MaxBlockFuel \in Nat
  BY Constants
<1>2. /\ l.size \in Nat /\ l.count \in Nat /\ l.users \in Counters
      /\ \A b \in Keys : l.users[b] \in Nat
      /\ \A a \in Ecosystems, b \in Keys : l.ecosys[a].users[b] \in Nat
  BY CounterTypes
<1>3. /\ n.size \in Nat /\ n.count \in Nat
      /\ \A b \in Keys : n.users[b] \in Nat
      /\ \A a \in Ecosystems, b \in Keys : n.ecosys[a].users[b] \in Nat
  BY CounterTypes
<1>4. /\ m.size \in Nat /\ m.count \in Nat
      /\ \A b \in Keys : m.users[b] \in Nat
      /\ \A a \in Ecosystems, b \in Keys : m.ecosys[a].users[b] \in Nat
  BY CounterTypes
<1>5. Within(l, n)
  BY WithinTrans DEF Adds
<1>6. /\ l.size + TxSize[t] <= n.size /\ l.count + 1 <= n.count
      /\ l.users[k] + 1 <= n.users[k]
      /\ l.ecosys[e].users[k] + 1 <= n.ecosys[e].users[k]
  <2>1. l.ecosys[e].users[k] <= m.ecosys[e].users[k] /\ l.users[k] <= m.users[k]
    BY <1>1 DEF Within
  <2>2. l.ecosys[e].users[k] + 1 <= n.ecosys[e].users[k]
    BY <1>1, <1>2, <1>3, <1>4, <2>1 DEF Adds
  <2>3. l.users[k] + 1 <= n.users[k]
    BY <1>1, <1>2, <1>3, <1>4, <2>1 DEF Adds
  <2> QED
    BY <1>1, <1>2, <1>3, <1>4, <2>2, <2>3 DEF Adds, Within
<1>7. /\ d \in LimitsType /\ c.err = "ok" /\ d.fuel = l.fuel /\ d.ecosys = l.ecosys
      /\ d.size = l.size + TxSize[t] /\ d.count = l.count + 1
      /\ d.users = [l.users EXCEPT ![k] = l.users[k] + 1]
  <2>1. d \in LimitsType
    BY CountedMoves
  <2>2. /\ TxSize[t] <= MaxTxSize /\ l.size + TxSize[t] <= MaxBlockSize
        /\ l.users[k] + 1 <= MaxBlockUserTx
        /\ l.count + 1 <= MaxTxCount
    BY <1>1, <1>2, <1>3, <1>6 DEF Room
  <2> QED
    BY <2>1, <2>2, CountedPass
<1>8. ReadFrom(d, p)
  BY <1>7 DEF ReadFrom
<1> HIDE DEF c, d
<1>9. /\ x.err = "ok" /\ y \in LimitsType
      /\ y.ecosys[e].users[k] = l.ecosys[e].users[k] + 1
      /\ \A a \in Ecosystems, b \in Keys :
           <<a, b>> # <<e, k>> => y.ecosys[a].users[b] = l.ecosys[a].users[b]
      /\ y.size = d.size /\ y.count = d.count /\ y.users = d.users /\ y.fuel = l.fuel
      /\ ReadFrom(y, p)
  <2>1. LimitIn(p, e) \in Nat
    BY <1>1, LimitInType
  <2>2. l.ecosys[e].users[k] = 0 \/ l.ecosys[e].users[k] + 1 <= LimitIn(p, e)
    <3> DEFINE u == l.ecosys[e].users[k]
               v == n.ecosys[e].users[k]
    <3>1. u \in Nat /\ v \in Nat /\ u + 1 <= v
      BY <1>1, <1>2, <1>3, <1>6
    <3>2. v <= 1 \/ v <= LimitIn(p, e)
      BY DEF Room
    <3> HIDE DEF u, v
    <3>3. u = 0 \/ u + 1 <= LimitIn(p, e)
      BY <2>1, <3>1, <3>2
    <3> QED
      BY <3>3 DEF u
  <2>3. y \in LimitsType
    BY <1>7, EcosysType
  <2>4. /\ x.err = "ok" <=> d.ecosys[e].users[k] = 0 \/ d.ecosys[e].users[k] + 1 <= LimitIn(p, e)
        /\ x.err = "ok" => y.ecosys[e].users[k] = d.ecosys[e].users[k] + 1
        /\ \A a \in Ecosystems, b \in Keys :
             <<a, b>> # <<e, k>> => y.ecosys[a].users[b] = d.ecosys[a].users[b]
        /\ y.size = d.size /\ y.count = d.count /\ y.users = d.users /\ y.fuel = d.fuel
        /\ ReadFrom(y, p)
    BY <1>7, <1>8, EcosysPass
  <2> HIDE DEF x, y
  <2> QED
    BY <1>7, <2>2, <2>3, <2>4
<1> HIDE DEF x, y
<1>10. /\ f.limits.size = y.size /\ f.limits.count = y.count
       /\ f.limits.users = y.users /\ f.limits.ecosys = y.ecosys
       /\ TxFuel[t] > MaxTxFuel => f.err = "error" /\ f.limits.fuel = y.fuel
       /\ TxFuel[t] <= MaxTxFuel /\ y.fuel + TxFuel[t] <= MaxBlockFuel
            => f.err = "ok" /\ f.limits.fuel = y.fuel + TxFuel[t]
  <2>1. y.fuel \in Nat
    BY <1>9, CounterTypes
  <2> QED
    BY <1>1, <1>9, <2>1 DEF txMaxFuel, Outcome, LimitsType
<1>11. o = f
  BY <1>7, <1>9 DEF Parsing, After, c, d, x, y
<1> HIDE DEF f, o
<1>12. Within(o.limits, n)
  <2>1. \A b \in Keys : o.limits.users[b] <= n.users[b]
    <3>1. \A b \in Keys : d.users[b] = IF b = k THEN l.users[b] + 1 ELSE l.users[b]
      BY <1>1, <1>2, <1>7 DEF Counters
    <3> QED
      BY <1>5, <1>6, <1>9, <1>10, <1>11, <3>1 DEF Within
  <2>2. ASSUME NEW a \in Ecosystems, NEW b \in Keys
        PROVE  o.limits.ecosys[a].users[b] <= n.ecosys[a].users[b]
    <3>1. CASE <<a, b>> = <<e, k>>
      BY <1>6, <1>9, <1>10, <1>11, <3>1
    <3>2. CASE <<a, b>> # <<e, k>>
      BY <1>5, <1>9, <1>10, <1>11, <3>2 DEF Within
    <3> QED
      BY <3>1, <3>2
  <2> QED
    BY <1>6, <1>7, <1>9, <1>10, <1>11, <2>1, <2>2 DEF Within
<1>13. ReadFrom(o.limits, p)
  BY <1>9, <1>10, <1>11 DEF ReadFrom
<1> QED
  BY <1>9, <1>10, <1>11, <1>12, <1>13 DEF o

-----------------------------------------------------------------------------
(***************************************************************************)
(* The inductive invariant of the agreement.                               *)
(***************************************************************************)

\* The transactions that take effect on any node that plays them.
Good(t) == t \notin Failing /\ TxFuel[t] <= MaxTxFuel

\* The effects of the first n transactions of a list.
Effects(s, n) == { t \in Txs : \E i \in 1..n : s[i] = t /\ Good(t) }

\* b is a budget for the list s under the parameters p.
Budget(b, s, p) ==
  /\ b \in [0..Len(s) -> LimitsType]
  /\ \A i \in 1..Len(s) : Adds(b[i - 1], b[i], s[i]) /\ Room(b[i], s[i], p)

\* g is the fuel after each of the first n transactions of s.
Gas(g, s, n) ==
  /\ g \in [0..n -> Nat]
  /\ g[0] = 0
  /\ \A i \in 1..n : /\ g[i] = g[i - 1] + (IF Good(s[i]) THEN TxFuel[s[i]] ELSE 0)
                     /\ g[i] <= MaxBlockFuel

\* The list has a budget as soon as it is selected.
SelectedInv ==
  /\ pc = "select" => /\ ReadFrom(limits, param)
                      /\ \E b : Budget(b, list, param) /\ Within(b[Len(list)], limits)
  /\ pc \in {"check", "play", "commit"} => \E b : Budget(b, list, param)
  /\ pc \in {"select", "check"} => effect["generator"] = {}
  /\ pc \in {"select", "check", "play", "commit"} => effect["peer"] = {}

\* The generator plays the list until the fuel is used up.
PlayInv ==
  /\ pc = "play" => /\ next <= Len(list) + 1
                    /\ effect["generator"] = Effects(list, next - 1)
                    /\ \E g : Gas(g, list, next - 1) /\ limits.fuel = g[next - 1]
  /\ pc = "commit" => /\ effect["generator"] = Effects(list, Len(list))
                      /\ \E g : Gas(g, list, Len(list))

\* The peer keeps within the budget, unless the block changes a limit.
PeerInv ==
  pc = "peer" =>
    /\ next <= Len(list) + 1
    /\ effect["generator"] = Effects(list, Len(list))
    /\ ~SetsLimit =>
         /\ ReadFrom(limits, open)
         /\ effect["peer"] = Effects(list, next - 1)
         /\ \E b : Budget(b, list, open) /\ Within(limits, b[next - 1])
         /\ \E g : Gas(g, list, Len(list)) /\ limits.fuel = g[next - 1]

AgreeInv == SelectedInv /\ PlayInv /\ PeerInv

\* The empty list has a budget, and uses no fuel.
LEMMA EmptyBudget ==
  ASSUME NEW p, NEW l \in LimitsType
  PROVE  /\ Budget([i \in 0..0 |-> l], << >>, p)
         /\ \A s : Gas([i \in 0..0 |-> 0], s, 0) /\ Effects(s, 0) = {}
<1>1. Len(<< >>) = 0
  OBVIOUS
<1>2. Budget([i \in 0..0 |-> l], << >>, p)
  BY <1>1 DEF Budget
<1>3. \A s : Gas([i \in 0..0 |-> 0], s, 0) /\ Effects(s, 0) = {}
  BY DEF Gas, Effects
<1> QED
  BY <1>2, <1>3

\* A budget of a list, with the counters of one more transaction on top, is a
\* budget of the longer list.
LEMMA ExtendBudget ==
  ASSUME NEW s \in Seq(Txs), NEW t \in Txs, NEW p, NEW b, NEW m \in LimitsType,
         Budget(b, s, p), Adds(b[Len(s)], m, t), Room(m, t, p)
  PROVE  LET c == [i \in 0..(Len(s) + 1) |-> IF i = Len(s) + 1 THEN m ELSE b[i]]
         IN  Budget(c, Append(s, t), p) /\ c[Len(Append(s, t))] = m
<1> DEFINE n == Len(s)
           c == [i \in 0..(n + 1) |-> IF i = n + 1 THEN m ELSE b[i]]
           r == Append(s, t)
<1>1. /\ n \in Nat /\ Len(r) = n + 1 /\ r[n + 1] = t
      /\ \A i \in 1..n : r[i] = s[i]
  OBVIOUS
<1>2. b \in [0..n -> LimitsType]
  BY DEF Budget
<1> HIDE DEF r
<1>3. c \in [0..(n + 1) -> LimitsType]
  BY <1>1, <1>2
<1>4. c[n + 1] = m /\ \A i \in 0..n : c[i] = b[i]
  BY <1>1
<1> HIDE DEF c
<1>5. ASSUME NEW i \in 1..(n + 1)
      PROVE  Adds(c[i - 1], c[i], r[i]) /\ Room(c[i], r[i], p)
  <2>1. CASE i = n + 1
    <3>1. i - 1 = n /\ n \in 0..n
      BY <1>1, <2>1
    <3> QED
      BY <1>1, <1>4, <2>1, <3>1
  <2>2. CASE i # n + 1
    <3>1. i \in 1..n /\ i \in 0..n /\ i - 1 \in 0..n
      BY <1>1, <2>2
    <3> QED
      BY <1>1, <1>4, <3>1 DEF Budget
  <2> QED
    BY <2>1, <2>2
<1> QED
  BY <1>1, <1>3, <1>4, <1>5 DEF Budget, c, r

\* A prefix of a list has a part of its budget, and of its fuel.
LEMMA CutBudget ==
  ASSUME NEW s \in Seq(Txs), NEW n \in Nat, n <= Len(s), NEW p, NEW b, Budget(b, s, p)
  PROVE  Budget([i \in 0..n |-> b[i]], SubSeq(s, 1, n), p)
<1> DEFINE c == [i \in 0..n |-> b[i]]
           r == SubSeq(s, 1, n)
<1>1. /\ Len(r) = n /\ Len(s) \in Nat
      /\ \A i \in 1..n : r[i] = s[i]
  OBVIOUS
<1> HIDE DEF r
<1>2. c \in [0..n -> LimitsType]
  BY <1>1 DEF Budget
<1>3. ASSUME NEW i \in 1..n
      PROVE  Adds(c[i - 1], c[i], r[i]) /\ Room(c[i], r[i], p)
  <2>1. i \in 1..Len(s) /\ i \in 0..n /\ i - 1 \in 0..n
    BY <1>1
  <2> QED
    BY <1>1, <2>1 DEF Budget
<1> HIDE DEF c
<1> QED
  BY <1>1, <1>2, <1>3 DEF Budget, c, r

\* The fuel of one more transaction.
LEMMA ExtendGas ==
  ASSUME NEW s, NEW n \in Nat, NEW g, Gas(g, s, n), NEW f \in Nat,
         f = g[n] + (IF Good(s[n + 1]) THEN TxFuel[s[n + 1]] ELSE 0), f <= MaxBlockFuel
  PROVE  LET h == [i \in 0..(n + 1) |-> IF i = n + 1 THEN f ELSE g[i]]
         IN  Gas(h, s, n + 1) /\ h[n + 1] = f
<1> DEFINE h == [i \in 0..(n + 1) |-> IF i = n + 1 THEN f ELSE g[i]]
<1>1. g \in [0..n -> Nat] /\ g[0] = 0
  BY DEF Gas
<1>2. h \in [0..(n + 1) -> Nat] /\ h[n + 1] = f /\ \A i \in 0..n : h[i] = g[i]
  BY <1>1
<1> HIDE DEF h
<1>3. ASSUME NEW i \in 1..(n + 1)
      PROVE  /\ h[i] = h[i - 1] + (IF Good(s[i]) THEN TxFuel[s[i]] ELSE 0)
             /\ h[i] <= MaxBlockFuel
  <2>1. CASE i = n + 1
    <3>1. i - 1 = n /\ n \in 0..n
      BY <2>1
    <3> QED
      BY <1>2, <2>1, <3>1
  <2>2. CASE i # n + 1
    <3>1. i \in 1..n /\ i \in 0..n /\ i - 1 \in 0..n
      BY <2>2
    <3> QED
      BY <1>2, <3>1 DEF Gas
  <2> QED
    BY <2>1, <2>2
<1>4. h[0] = 0
  BY <1>1, <1>2
<1> QED
  BY <1>2, <1>3, <1>4 DEF Gas, h

\* The effects of one more transaction.
LEMMA ExtendEffects ==
  ASSUME NEW s, NEW n \in Nat, s[n + 1] \in Txs
  PROVE  Effects(s, n + 1) = IF Good(s[n + 1]) THEN Effects(s, n) \cup {s[n + 1]}
                             ELSE Effects(s, n)
BY DEF Effects

\* What is true of the first n of a list is true of the list cut there.
LEMMA CutSame ==
  ASSUME NEW s \in Seq(Txs), NEW n \in Nat, n <= Len(s)
  PROVE  /\ Effects(SubSeq(s, 1, n), n) = Effects(s, n)
         /\ \A g : Gas(g, s, n) => Gas(g, SubSeq(s, 1, n), n)
<1> DEFINE r == SubSeq(s, 1, n)
<1>1. \A i \in 1..n : r[i] = s[i]
  OBVIOUS
<1> HIDE DEF r
<1>2. Effects(r, n) = Effects(s, n)
  BY <1>1 DEF Effects
<1>3. ASSUME NEW g, Gas(g, s, n) PROVE Gas(g, r, n)
  BY <1>1, <1>3 DEF Gas
<1> QED
  BY <1>2, <1>3 DEF r

\* The invariant holds at the start of a selection.
LEMMA StartSelectionAgree == Inv /\ StartSelection => AgreeInv'
<1> SUFFICES ASSUME Inv, StartSelection PROVE AgreeInv'
  OBVIOUS
<1> DEFINE b == [i \in 0..0 |-> NewLimits]
<1>1. /\ pc' = "select" /\ limits' = NewLimits /\ list' = << >> /\ param' = param
      /\ effect' = [n \in Nodes |-> {}]
  BY DEF StartSelection
<1>2. Budget(b, << >>, param) /\ Len(<< >>) = 0 /\ b[0] = NewLimits
  BY EmptyBudget, NewLimitsType
<1>3. Within(NewLimits, NewLimits) /\ ReadFrom(NewLimits, param)
  BY NewWithin, NewLimitsType
<1>4. effect'["generator"] = {} /\ effect'["peer"] = {}
  BY <1>1 DEF Nodes
<1> HIDE DEF b
<1>5. \E x : Budget(x, list', param') /\ Within(x[Len(list')], limits')
  BY <1>1, <1>2, <1>3
<1> QED
  BY <1>1, <1>3, <1>4, <1>5 DEF AgreeInv, SelectedInv, PlayInv, PeerInv

\* A transaction that is selected has room in the budget, and one that is not
\* may only make the counters of the selection larger.
LEMMA SelectAgree ==
  ASSUME NEW t \in Txs
  PROVE  Inv /\ AgreeInv /\ SelectTransaction(t) => AgreeInv'
<1> SUFFICES ASSUME Inv, AgreeInv, SelectTransaction(t) PROVE AgreeInv'
  OBVIOUS
<1> DEFINE o == Preprocess(limits, t, param)
<1>1. /\ \/ list' = Append(list, t) /\ o.err = "ok"
         \/ list' = list
      /\ limits' = o.limits /\ pc = "select" /\ pc' = "select" /\ param' = param
      /\ effect' = effect
  BY DEF SelectTransaction
<1>2. limits \in LimitsType /\ param \in Params /\ list \in Seq(Txs)
  BY DEF Inv, TypeOK, Params
<1>3. PICK b : Budget(b, list, param) /\ Within(b[Len(list)], limits)
  BY <1>1 DEF AgreeInv, SelectedInv
<1>4. ReadFrom(limits, param) /\ effect["generator"] = {} /\ effect["peer"] = {}
  BY <1>1 DEF AgreeInv, SelectedInv
<1>5. /\ Within(limits, o.limits) /\ ReadFrom(o.limits, param)
      /\ o.err = "ok" => Adds(limits, o.limits, t) /\ Room(o.limits, t, param)
  BY <1>2, <1>4, PreprocessPass
<1>6. o.limits \in LimitsType
  BY <1>2, PreprocessMoves
<1> HIDE DEF o
<1>7. b[Len(list)] \in LimitsType
  BY <1>2, <1>3 DEF Budget
<1>8. \E x : Budget(x, list', param) /\ Within(x[Len(list')], o.limits)
  <2>1. CASE list' = list
    BY <1>2, <1>3, <1>5, <1>6, <1>7, <2>1, WithinTrans
  <2>2. CASE list' = Append(list, t) /\ o.err = "ok"
    <3> DEFINE m == o.limits
               c == [i \in 0..(Len(list) + 1) |-> IF i = Len(list) + 1 THEN m ELSE b[i]]
    <3>1. Adds(b[Len(list)], m, t)
      <4> DEFINE v == b[Len(list)]
                 k == TxKey[t]
                 e == TxEcosystem[t]
      <4>1. /\ v \in LimitsType /\ Within(v, limits) /\ Adds(limits, m, t)
            /\ k \in Keys /\ e \in Ecosystems /\ TxSize[t] \in Nat
        BY <1>3, <1>5, <1>7, <2>2, Constants
      <4> HIDE DEF v, m
      <4>2. Within(v, m)
        BY <1>2, <1>6, <4>1, WithinTrans DEF Adds, m
      <4>3. /\ v.size \in Nat /\ v.count \in Nat /\ v.users[k] \in Nat
            /\ v.ecosys[e].users[k] \in Nat
        BY <4>1, CounterTypes
      <4>4. /\ m.size \in Nat /\ m.count \in Nat /\ m.users[k] \in Nat
            /\ m.ecosys[e].users[k] \in Nat
        BY <1>6, <4>1, CounterTypes DEF m
      <4>5. /\ limits.size \in Nat /\ limits.count \in Nat /\ limits.users[k] \in Nat
            /\ limits.ecosys[e].users[k] \in Nat
        BY <1>2, <4>1, CounterTypes
      <4>6. /\ v.size <= limits.size /\ v.count <= limits.count
            /\ v.users[k] <= limits.users[k]
            /\ v.ecosys[e].users[k] <= limits.ecosys[e].users[k]
        BY <4>1 DEF Within
      <4>7. /\ limits.size + TxSize[t] <= m.size /\ limits.count + 1 <= m.count
            /\ limits.users[k] + 1 <= m.users[k]
            /\ limits.ecosys[e].users[k] + 1 <= m.ecosys[e].users[k]
        BY <4>1 DEF Adds
      <4>8. /\ v.size + TxSize[t] <= m.size /\ v.count + 1 <= m.count
            /\ v.users[k] + 1 <= m.users[k]
            /\ v.ecosys[e].users[k] + 1 <= m.ecosys[e].users[k]
        BY <4>1, <4>3, <4>4, <4>5, <4>6, <4>7
      <4> QED
        BY <4>2, <4>8 DEF Adds, v
    <3>2. Budget(c, Append(list, t), param) /\ c[Len(Append(list, t))] = m
      BY <1>2, <1>3, <1>5, <1>6, <2>2, <3>1, ExtendBudget
    <3>3. Within(m, m)
      BY <1>6, CounterTypes DEF Within
    <3> HIDE DEF c, m
    <3>4. Budget(c, list', param) /\ Within(c[Len(list')], m)
      BY <2>2, <3>2, <3>3
    <3> QED
      BY <3>4 DEF m
  <2> QED
    BY <1>1, <2>1, <2>2
<1> QED
  BY <1>1, <1>4, <1>5, <1>8 DEF AgreeInv, SelectedInv, PlayInv, PeerInv

\* The list leaves the selection with its budget.
LEMMA SelectionDoneAgree == Inv /\ AgreeInv /\ SelectionDone => AgreeInv'
<1> SUFFICES ASSUME Inv, AgreeInv, SelectionDone PROVE AgreeInv'
  OBVIOUS
<1>1. /\ pc = "select" /\ pc' \in {"idle", "check"}
      /\ UNCHANGED <<param, limits, list, effect>>
  BY DEF SelectionDone
<1> QED
  BY <1>1 DEF AgreeInv, SelectedInv, PlayInv, PeerInv

\* The generator starts to play: nothing is in effect and no fuel is used.
LEMMA CheckBlockAgree == Inv /\ AgreeInv /\ CheckBlock => AgreeInv'
<1> SUFFICES ASSUME Inv, AgreeInv, CheckBlock PROVE AgreeInv'
  OBVIOUS
<1> DEFINE g == [i \in 0..0 |-> 0]
<1>1. /\ pc = "check" /\ pc' \in {"idle", "play"}
      /\ limits' = NewLimits /\ next' = 1
      /\ UNCHANGED <<param, list, effect>>
  BY DEF CheckBlock
<1>2. Gas(g, list, 0) /\ Effects(list, 0) = {} /\ g[0] = 0
  BY EmptyBudget, NewLimitsType
<1>3. NewLimits.fuel = 0 /\ next' - 1 = 0
  BY <1>1 DEF NewLimits
<1>4. Len(list) \in Nat
  BY DEF Inv, TypeOK
<1> HIDE DEF g
<1>5. /\ \E x : Gas(x, list', next' - 1) /\ limits'.fuel = x[next' - 1]
      /\ Effects(list', next' - 1) = {}
      /\ next' <= Len(list') + 1
  BY <1>1, <1>2, <1>3, <1>4
<1>6. effect'["generator"] = {} /\ effect'["peer"] = {} /\ \E b : Budget(b, list', param')
  BY <1>1 DEF AgreeInv, SelectedInv
<1> QED
  BY <1>1, <1>5, <1>6 DEF AgreeInv, SelectedInv, PlayInv, PeerInv

\* What the generator's only limiter counts.
LEMMA GenBlockPass ==
  ASSUME NEW l \in LimitsType, NEW t \in Txs, NEW late \in BOOLEAN
  PROVE  LET o == GenBlock(l, t, late)
         IN  /\ o.err = "ok" => /\ TxFuel[t] <= MaxTxFuel
                                /\ o.limits.fuel = l.fuel + TxFuel[t]
                                /\ l.fuel + TxFuel[t] <= MaxBlockFuel
             /\ o.err = "error" => TxFuel[t] > MaxTxFuel /\ o.limits.fuel = l.fuel
<1>1. l.fuel \in Nat /\ TxFuel[t] \in Nat /\ MaxTxFuel \in Nat /\ MaxBlockFuel \in Nat
  BY Constants, CounterTypes
<1>2. [l EXCEPT !.fuel = @ + TxFuel[t]].fuel = l.fuel + TxFuel[t]
  BY DEF LimitsType
<1> QED
  BY <1>1, <1>2 DEF GenBlock, txMaxFuel, Outcome

\* The generator goes on within the fuel of the block, or cuts the block.
LEMMA PlayTransactionAgree == Inv /\ AgreeInv /\ PlayTransaction => AgreeInv'
<1> SUFFICES ASSUME Inv, AgreeInv, PlayTransaction PROVE AgreeInv'
  OBVIOUS
<1> DEFINE t == list[next]
           n == next - 1
<1>1. /\ pc = "play" /\ next \in Nat \ {0} /\ next <= Len(list)
      /\ list \in Seq(Txs) /\ t \in Txs /\ Len(list) \in Nat
      /\ limits \in LimitsType /\ effect \in [Nodes -> SUBSET Txs]
      /\ n \in Nat /\ n + 1 = next
  BY DEF Inv, TypeOK, PlayTransaction
<1>2. PICK g : Gas(g, list, n) /\ limits.fuel = g[n]
  BY <1>1 DEF AgreeInv, PlayInv
<1>3. effect["generator"] = Effects(list, n) /\ effect["peer"] = {}
  BY <1>1 DEF AgreeInv, PlayInv, SelectedInv
<1>4. PICK b : Budget(b, list, param)
  BY <1>1 DEF AgreeInv, SelectedInv
<1>5. param' = param
  BY DEF PlayTransaction
<1>6. PICK late \in BOOLEAN :
        LET o == GenBlock(limits, t, late)
        IN  \/ /\ t \in Failing /\ PlayBad(t, "generator")
               /\ next' = next + 1
               /\ UNCHANGED <<pc, limits, list>>
            \/ /\ t \notin Failing /\ o.err = "ok"
               /\ PlayGood(t, "generator")
               /\ limits' = o.limits /\ next' = next + 1
               /\ UNCHANGED <<pc, list>>
            \/ /\ t \notin Failing /\ o.err = "error"
               /\ PlayBad(t, "generator")
               /\ limits' = o.limits /\ next' = next + 1
               /\ UNCHANGED <<pc, list>>
            \/ /\ next > 1
               /\ list' = SubSeq(list, 1, next - 1)
               /\ pc' = "commit"
               /\ UNCHANGED <<next, effect>>
            \/ pc' = "idle"
  BY DEF PlayTransaction
<1> DEFINE o == GenBlock(limits, t, late)
<1>7. /\ o.err = "ok" => /\ TxFuel[t] <= MaxTxFuel
                         /\ o.limits.fuel = limits.fuel + TxFuel[t]
                         /\ limits.fuel + TxFuel[t] <= MaxBlockFuel
      /\ o.err = "error" => TxFuel[t] > MaxTxFuel /\ o.limits.fuel = limits.fuel
  BY <1>1, GenBlockPass
<1>8. /\ TxFuel[t] \in Nat /\ MaxTxFuel \in Nat /\ MaxBlockFuel \in Nat
      /\ limits.fuel \in Nat
  BY <1>1, Constants, CounterTypes
<1>9. limits.fuel <= MaxBlockFuel
  <2>1. CASE n = 0
    BY <1>2, <1>8, <2>1 DEF Gas
  <2>2. CASE n # 0
    <3>1. n \in 1..n
      BY <1>1, <2>2
    <3> QED
      BY <1>2, <3>1 DEF Gas
  <2> QED
    BY <2>1, <2>2
<1>10. Effects(list, next) = IF Good(t) THEN Effects(list, n) \cup {t} ELSE Effects(list, n)
  BY <1>1, ExtendEffects
<1> HIDE DEF o, t
<1>11. CASE /\ pc' = "play" /\ next' = next + 1 /\ list' = list
            /\ limits'.fuel = limits.fuel + (IF Good(t) THEN TxFuel[t] ELSE 0)
            /\ limits'.fuel <= MaxBlockFuel
            /\ effect'["peer"] = {}
            /\ effect'["generator"] = IF Good(t) THEN effect["generator"] \cup {t}
                                      ELSE effect["generator"]
  <2> DEFINE f == limits'.fuel
             h == [i \in 0..(n + 1) |-> IF i = n + 1 THEN f ELSE g[i]]
  <2>1. f \in Nat /\ f = g[n] + (IF Good(list[n + 1]) THEN TxFuel[list[n + 1]] ELSE 0)
    BY <1>1, <1>2, <1>8, <1>11 DEF t
  <2>2. Gas(h, list, n + 1) /\ h[n + 1] = f
    BY <1>1, <1>2, <1>11, <2>1, ExtendGas
  <2> HIDE DEF h, f
  <2>3. next' - 1 = n + 1 /\ next' - 1 = next /\ next' <= Len(list') + 1
    BY <1>1, <1>11
  <2>4. \E x : Gas(x, list', next' - 1) /\ limits'.fuel = x[next' - 1]
    BY <1>11, <2>2, <2>3 DEF f
  <2>5. effect'["generator"] = Effects(list', next' - 1)
    BY <1>3, <1>10, <1>11, <2>3
  <2>6. \E x : Budget(x, list', param')
    BY <1>4, <1>5, <1>11
  <2> QED
    BY <1>11, <2>3, <2>4, <2>5, <2>6 DEF AgreeInv, SelectedInv, PlayInv, PeerInv
<1>12. CASE t \in Failing /\ PlayBad(t, "generator") /\ next' = next + 1
            /\ UNCHANGED <<pc, limits, list>>
  <2>1. ~Good(t) /\ effect' = effect
    BY <1>12 DEF Good, PlayBad
  <2> QED
    BY <1>1, <1>3, <1>8, <1>9, <1>11, <1>12, <2>1
<1>13. CASE /\ t \notin Failing /\ o.err = "ok"
            /\ PlayGood(t, "generator")
            /\ limits' = o.limits /\ next' = next + 1
            /\ UNCHANGED <<pc, list>>
  <2>1. Good(t) /\ effect' = [effect EXCEPT !["generator"] = @ \cup {t}]
    BY <1>7, <1>13 DEF Good, PlayGood
  <2>2. effect'["generator"] = effect["generator"] \cup {t} /\ effect'["peer"] = effect["peer"]
    BY <1>1, <2>1 DEF Nodes
  <2> QED
    BY <1>1, <1>3, <1>7, <1>11, <1>13, <2>1, <2>2
<1>14. CASE /\ t \notin Failing /\ o.err = "error"
            /\ PlayBad(t, "generator")
            /\ limits' = o.limits /\ next' = next + 1
            /\ UNCHANGED <<pc, list>>
  <2>1. ~Good(t) /\ effect' = effect
    BY <1>7, <1>8, <1>14 DEF Good, PlayBad
  <2> QED
    BY <1>1, <1>3, <1>7, <1>8, <1>9, <1>11, <1>14, <2>1
<1>15. CASE /\ next > 1
            /\ list' = SubSeq(list, 1, next - 1)
            /\ pc' = "commit"
            /\ UNCHANGED <<next, effect>>
  <2>1. n <= Len(list) /\ Len(list') = n
    BY <1>1, <1>15
  <2>2. Effects(list', n) = Effects(list, n) /\ Gas(g, list', n)
    BY <1>1, <1>2, <1>15, <2>1, CutSame
  <2>3. Budget([i \in 0..n |-> b[i]], list', param')
    BY <1>1, <1>4, <1>5, <1>15, <2>1, CutBudget
  <2>4. /\ \E x : Budget(x, list', param')
        /\ \E x : Gas(x, list', Len(list'))
        /\ effect'["generator"] = Effects(list', Len(list')) /\ effect'["peer"] = {}
    BY <1>3, <1>15, <2>1, <2>2, <2>3
  <2> QED
    BY <1>15, <2>4 DEF AgreeInv, SelectedInv, PlayInv, PeerInv
<1>16. CASE pc' = "idle"
  BY <1>16 DEF AgreeInv, SelectedInv, PlayInv, PeerInv
<1> QED
  BY <1>6, <1>12, <1>13, <1>14, <1>15, <1>16 DEF o

\* The peer starts with the parameters of the selection, and with the budget.
LEMMA CommitAgree == Inv /\ AgreeInv /\ Commit => AgreeInv'
<1> SUFFICES ASSUME Inv, AgreeInv, Commit PROVE AgreeInv'
  OBVIOUS
<1>1. /\ pc' = "peer" /\ limits' = NewLimits /\ open' = param /\ next' = 1
      /\ UNCHANGED <<list, effect>>
      /\ pc = "commit" \/ (pc = "play" /\ next > Len(list))
  BY DEF Commit
<1>2. /\ Len(list) \in Nat /\ next \in Nat /\ list \in Seq(Txs)
  BY DEF Inv, TypeOK
<1>3. effect["peer"] = {} /\ \E b : Budget(b, list, param)
  BY <1>1 DEF AgreeInv, SelectedInv
<1>4. /\ effect["generator"] = Effects(list, Len(list))
      /\ \E g : Gas(g, list, Len(list))
  <2>1. CASE pc = "commit"
    BY <2>1 DEF AgreeInv, PlayInv
  <2>2. CASE pc = "play" /\ next > Len(list)
    <3>1. next - 1 = Len(list)
      BY <1>2, <2>2 DEF AgreeInv, PlayInv
    <3> QED
      BY <2>2, <3>1 DEF AgreeInv, PlayInv
  <2> QED
    BY <1>1, <2>1, <2>2
<1>5. PICK b : Budget(b, list, param)
  BY <1>3
<1>6. PICK g : Gas(g, list, Len(list))
  BY <1>4
<1>7. b[0] \in LimitsType /\ g[0] = 0 /\ NewLimits.fuel = 0 /\ next' - 1 = 0
  BY <1>1, <1>2, <1>5, <1>6 DEF Budget, Gas, NewLimits
<1>8. Within(NewLimits, b[0]) /\ ReadFrom(NewLimits, param)
  BY <1>7, NewWithin
<1>9. Effects(list, 0) = {}
  BY DEF Effects
<1>10. /\ \E x : Budget(x, list', open') /\ Within(limits', x[next' - 1])
       /\ \E x : Gas(x, list', Len(list')) /\ limits'.fuel = x[next' - 1]
       /\ ReadFrom(limits', open')
       /\ effect'["peer"] = Effects(list', next' - 1)
       /\ effect'["generator"] = Effects(list', Len(list'))
       /\ next' <= Len(list') + 1
  BY <1>1, <1>2, <1>3, <1>4, <1>5, <1>6, <1>7, <1>8, <1>9
<1> QED
  BY <1>1, <1>10 DEF AgreeInv, SelectedInv, PlayInv, PeerInv

\* The peer takes exactly the transactions that the generator took.
LEMMA PlayOnPeerAgree == Inv /\ AgreeInv /\ PlayOnPeer => AgreeInv'
<1> SUFFICES ASSUME Inv, AgreeInv, PlayOnPeer PROVE AgreeInv'
  OBVIOUS
<1> DEFINE t == list[next]
           n == next - 1
           o == Parsing(limits, t, SetLimit(open, t))
<1>1. /\ pc = "peer" /\ pc' = "peer" /\ next \in Nat \ {0} /\ next <= Len(list)
      /\ list \in Seq(Txs) /\ t \in Txs /\ Len(list) \in Nat
      /\ limits \in LimitsType /\ effect \in [Nodes -> SUBSET Txs] /\ open \in Params
      /\ n \in Nat /\ n + 1 = next
  BY DEF Inv, TypeOK, PlayOnPeer, PeerDone, Params
<1>2. /\ IF t \in Failing
         THEN PlayBad(t, "peer") /\ UNCHANGED limits
         ELSE /\ limits' = o.limits
              /\ IF o.err = "ok" THEN PlayGood(t, "peer") ELSE PlayBad(t, "peer")
      /\ next' = next + 1
      /\ list' = list
  BY DEF PlayOnPeer
<1>3. next' <= Len(list') + 1 /\ next' - 1 = next
  BY <1>1, <1>2
<1>4. effect'["generator"] = Effects(list', Len(list'))
  <2>1. effect["generator"] = Effects(list, Len(list))
    BY <1>1 DEF AgreeInv, PeerInv
  <2>2. effect'["generator"] = effect["generator"]
    BY <1>1, <1>2 DEF PlayBad, PlayGood, Nodes
  <2> QED
    BY <1>2, <2>1, <2>2
<1>5. ASSUME ~SetsLimit'
      PROVE  /\ ReadFrom(limits', open')
             /\ effect'["peer"] = Effects(list', next)
             /\ \E b : Budget(b, list', open') /\ Within(limits', b[next])
             /\ \E g : Gas(g, list', Len(list')) /\ limits'.fuel = g[next]
  <2>1. ~SetsLimit
    BY <1>2, <1>5 DEF SetsLimit, TxsOf
  <2>2. /\ ReadFrom(limits, open)
        /\ effect["peer"] = Effects(list, n)
    BY <1>1, <2>1 DEF AgreeInv, PeerInv
  <2>3. PICK b : Budget(b, list, open) /\ Within(limits, b[n])
    BY <1>1, <2>1 DEF AgreeInv, PeerInv
  <2>4. PICK g : Gas(g, list, Len(list)) /\ limits.fuel = g[n]
    BY <1>1, <2>1 DEF AgreeInv, PeerInv
  <2>5. next \in 1..Len(list) /\ n \in 0..Len(list) /\ next \in 0..Len(list)
    BY <1>1
  <2>6. /\ b[n] \in LimitsType /\ b[next] \in LimitsType
        /\ Adds(b[n], b[next], t) /\ Room(b[next], t, open)
    BY <2>3, <2>5 DEF Budget
  <2>7. /\ g[next] = g[n] + (IF Good(t) THEN TxFuel[t] ELSE 0)
        /\ g[next] <= MaxBlockFuel /\ g[next] \in Nat
    BY <2>4, <2>5 DEF Gas
  <2>8. t \in Failing \/ NewLimit[t] = Unset
    BY <1>1, <2>1, <2>5 DEF SetsLimit, TxsOf
  <2>9. Effects(list, next) = IF Good(t) THEN Effects(list, n) \cup {t} ELSE Effects(list, n)
    BY <1>1, ExtendEffects
  <2>10. CASE t \in Failing
    <3>1. ~Good(t) /\ limits' = limits /\ effect' = effect /\ open' = open
      BY <1>2, <2>10 DEF PlayBad, Good
    <3>2. Within(limits, b[next])
      BY <1>1, <2>3, <2>6, WithinTrans DEF Adds
    <3>3. limits.fuel = g[next]
      <4>1. limits.fuel \in Nat
        BY <1>1, CounterTypes
      <4> QED
        BY <2>4, <2>7, <3>1, <4>1
    <3> QED
      BY <1>2, <2>2, <2>3, <2>4, <2>9, <3>1, <3>2, <3>3
  <2>11. CASE t \notin Failing
    <3>1. SetLimit(open, t) = open
      BY <2>8, <2>11 DEF SetLimit
    <3>2. o = Parsing(limits, t, open) /\ limits' = o.limits
      BY <1>2, <2>11, <3>1
    <3>3. /\ Within(o.limits, b[next]) /\ ReadFrom(o.limits, open)
          /\ TxFuel[t] > MaxTxFuel => o.err = "error" /\ o.limits.fuel = limits.fuel
          /\ TxFuel[t] <= MaxTxFuel /\ limits.fuel + TxFuel[t] <= MaxBlockFuel
               => o.err = "ok" /\ o.limits.fuel = limits.fuel + TxFuel[t]
      BY <1>1, <2>2, <2>3, <2>6, <3>2, ParsingPass
    <3>4. /\ TxFuel[t] \in Nat /\ MaxTxFuel \in Nat /\ limits.fuel \in Nat
      BY <1>1, Constants, CounterTypes
    <3>5. Good(t) <=> TxFuel[t] <= MaxTxFuel
      BY <2>11 DEF Good
    <3> HIDE DEF o
    <3>6. /\ o.err = "ok" <=> Good(t)
          /\ o.limits.fuel = g[next]
      <4>1. CASE Good(t)
        BY <2>4, <2>7, <3>3, <3>4, <3>5, <4>1
      <4>2. CASE ~Good(t)
        BY <2>4, <2>7, <3>3, <3>4, <3>5, <4>2
      <4> QED
        BY <4>1, <4>2
    <3>7. open' = open
      BY <1>2, <2>11, <3>1 DEF PlayGood, PlayBad
    <3>8. effect'["peer"] = IF Good(t) THEN effect["peer"] \cup {t} ELSE effect["peer"]
      BY <1>1, <1>2, <2>11, <3>6 DEF PlayGood, PlayBad, Nodes
    <3> QED
      BY <1>2, <2>2, <2>3, <2>4, <2>9, <3>2, <3>3, <3>6, <3>7, <3>8
  <2> QED
    BY <2>10, <2>11
<1> QED
  BY <1>1, <1>3, <1>4, <1>5 DEF AgreeInv, SelectedInv, PlayInv, PeerInv

\* The agreement is invariant.
LEMMA AgreeHolds == Spec => []AgreeInv
<1>1. Init => AgreeInv
  BY DEF Init, AgreeInv, SelectedInv, PlayInv, PeerInv
<1>2. Inv /\ AgreeInv /\ [Next]_vars => AgreeInv'
  <2> SUFFICES ASSUME Inv, AgreeInv, [Next]_vars PROVE AgreeInv'
    OBVIOUS
  <2>1. CASE EndRound
    BY <2>1 DEF EndRound, AgreeInv, SelectedInv, PlayInv, PeerInv
  <2>2. CASE UNCHANGED vars
    <3>1. SetsLimit' = SetsLimit
      BY <2>2 DEF vars, SetsLimit, TxsOf
    <3> QED
      BY <2>2, <3>1 DEF vars, AgreeInv, SelectedInv, PlayInv, PeerInv
  <2> QED
    BY <2>1, <2>2, StartSelectionAgree, SelectAgree, SelectionDoneAgree, CheckBlockAgree,
       PlayTransactionAgree, CommitAgree, PlayOnPeerAgree
    DEF Next, Selecting, Playing
<1> QED
  BY <1>1, <1>2, InvHolds, PTL DEF Spec

-----------------------------------------------------------------------------
(***************************************************************************)
(* The bytes of a block.  What the recursion computes is shown by the      *)
(* least counterexample: a block that was cut is no larger than the whole. *)
(***************************************************************************)

\* A set of natural numbers has a smallest one.
LEMMA SmallestNumber ==
  ASSUME NEW A \in SUBSET Nat, NEW m \in A
  PROVE  \E n \in A : \A k \in A : n <= k
<1>1. PICK n \in A : \A k \in A : ~(<<k, n>> \in OpToRel(<, Nat))
  BY NatLessThanWellFounded, WFMin
<1>2. ASSUME NEW k \in A PROVE n <= k
  <2>1. <<k, n>> \in Nat \X Nat /\ <<k, n>>[1] = k /\ <<k, n>>[2] = n
    OBVIOUS
  <2>2. k < n => <<k, n>> \in OpToRel(<, Nat)
    BY <2>1 DEF OpToRel
  <2>3. k \in Nat /\ n \in Nat /\ ~(k < n)
    BY <1>1, <2>2
  <2> QED
    BY <2>3
<1> QED
  BY <1>2

\* One step of the recursion, and the function it defines on 0..m.
SizeStep(s, f, n) == IF n = 0 THEN HeaderSize ELSE f[n - 1] + TxBytes[s[n]]
IsSize(f, s, m) == f = [n \in 0..m |-> SizeStep(s, f, n)]
SizeFunction(s) == CHOOSE f : f = [n \in 0..Len(s) |-> SizeStep(s, f, n)]

LEMMA SizeIs == ASSUME NEW s PROVE MarshallSize(s) = SizeFunction(s)[Len(s)]
BY Zenon DEF MarshallSize, SizeFunction, SizeStep

\* The recursion defines a function for every length.
LEMMA SizeExists ==
  ASSUME NEW s, NEW m \in Nat
  PROVE  \E f : IsSize(f, s, m)
<1> DEFINE bad == { n \in Nat : ~\E f : IsSize(f, s, n) }
<1> SUFFICES ASSUME m \in bad PROVE FALSE
  OBVIOUS
<1>1. PICK n \in bad : \A k \in bad : n <= k
  BY SmallestNumber
<1>2. CASE n = 0
  <2> DEFINE f == [i \in 0..0 |-> HeaderSize]
  <2>1. IsSize(f, s, 0)
    BY DEF IsSize, SizeStep
  <2> QED
    BY <1>2, <2>1
<1>3. CASE n # 0
  <2>1. n \in Nat /\ n - 1 \in Nat
    BY <1>3
  <2>2. n - 1 \notin bad
    BY <1>1, <2>1
  <2>3. PICK g : IsSize(g, s, n - 1)
    BY <2>1, <2>2
  <2> DEFINE f == [i \in 0..n |-> SizeStep(s, g, i)]
  <2>4. \A i \in 0..(n - 1) : f[i] = g[i]
    BY <2>1, <2>3 DEF IsSize
  <2>5. ASSUME NEW i \in 0..n PROVE SizeStep(s, f, i) = SizeStep(s, g, i)
    <3>1. CASE i = 0
      BY <3>1 DEF SizeStep
    <3>2. CASE i # 0
      <4>1. i - 1 \in 0..(n - 1)
        BY <2>1, <3>2
      <4>2. f[i - 1] = g[i - 1]
        BY <2>4, <4>1
      <4> HIDE DEF f
      <4> QED
        BY <3>2, <4>2 DEF SizeStep
    <3> QED
      BY <3>1, <3>2
  <2>6. IsSize(f, s, n)
    <3>1. f = [i \in 0..n |-> SizeStep(s, g, i)]
      OBVIOUS
    <3>2. [i \in 0..n |-> SizeStep(s, g, i)] = [i \in 0..n |-> SizeStep(s, f, i)]
      <4> HIDE DEF f
      <4> QED
        BY <2>5
    <3> HIDE DEF f
    <3> QED
      BY <3>1, <3>2 DEF IsSize
  <2> HIDE DEF f
  <2> QED
    BY <2>6
<1> QED
  BY <1>2, <1>3

\* Each value is the one before with a transaction more, and they grow.
LEMMA SizeGrows ==
  ASSUME NEW s \in Seq(Txs), NEW f, IsSize(f, s, Len(s)), NEW m \in 0..Len(s)
  PROVE  /\ f[m] \in Nat
         /\ \A k \in 0..m : f[k] \in Nat /\ f[k] <= f[m]
<1>0. /\ Len(s) \in Nat /\ HeaderSize \in Nat
      /\ \A i \in 1..Len(s) : TxBytes[s[i]] \in Nat
  <2>1. \A i \in 1..Len(s) : s[i] \in Txs
    OBVIOUS
  <2> QED
    BY <2>1, LimitsAssumption
<1>1. /\ f[0] = HeaderSize
      /\ \A i \in 1..Len(s) : f[i] = f[i - 1] + TxBytes[s[i]]
  BY <1>0 DEF IsSize, SizeStep
<1> DEFINE good(n) == f[n] \in Nat /\ \A k \in 0..n : f[k] \in Nat /\ f[k] <= f[n]
           bad == { n \in 0..Len(s) : ~good(n) }
<1> SUFFICES ASSUME m \in bad PROVE FALSE
  OBVIOUS
<1>2. PICK n \in bad : \A k \in bad : n <= k
  <2>1. bad \in SUBSET Nat
    BY <1>0
  <2> HIDE DEF bad
  <2> QED
    BY <2>1, SmallestNumber
<1>3. CASE n = 0
  <2>1. good(0)
    BY <1>0, <1>1
  <2> QED
    BY <1>3, <2>1
<1>4. CASE n # 0
  <2>1. n \in 1..Len(s) /\ n - 1 \in 0..Len(s) /\ ~(n <= n - 1)
    BY <1>0, <1>4
  <2>2. good(n - 1)
    BY <1>2, <2>1
  <2>3. f[n] = f[n - 1] + TxBytes[s[n]] /\ TxBytes[s[n]] \in Nat
    BY <1>0, <1>1, <2>1
  <2>4. f[n - 1] \in Nat /\ \A k \in 0..(n - 1) : f[k] \in Nat /\ f[k] <= f[n - 1]
    BY <2>2
  <2>5. f[n] \in Nat /\ f[n - 1] <= f[n]
    BY <2>3, <2>4
  <2>6. ASSUME NEW k \in 0..n PROVE f[k] \in Nat /\ f[k] <= f[n]
    <3>1. k = n \/ k \in 0..(n - 1)
      BY <1>0, <2>1
    <3> QED
      BY <2>4, <2>5, <3>1
  <2>7. good(n)
    BY <2>5, <2>6
  <2> HIDE DEF good
  <2> QED
    BY <2>7
<1> QED
  BY <1>3, <1>4

\* Two recursions over the same transactions compute the same.
LEMMA SizeSame ==
  ASSUME NEW s, NEW t, NEW f, NEW g, NEW l \in Nat, NEW m \in 0..l,
         IsSize(f, s, l), IsSize(g, t, m), \A i \in 1..m : t[i] = s[i]
  PROVE  g[m] = f[m]
<1> DEFINE bad == { n \in 0..m : g[n] # f[n] }
<1> SUFFICES ASSUME m \in bad PROVE FALSE
  OBVIOUS
<1>1. PICK n \in bad : \A k \in bad : n <= k
  <2>1. bad \in SUBSET Nat
    OBVIOUS
  <2> HIDE DEF bad
  <2> QED
    BY <2>1, SmallestNumber
<1>2. n \in 0..m /\ n \in 0..l /\ g[n] # f[n]
  OBVIOUS
<1>3. f[n] = SizeStep(s, f, n) /\ g[n] = SizeStep(t, g, n)
  BY <1>2 DEF IsSize
<1>4. n # 0
  BY <1>2, <1>3 DEF SizeStep
<1>5. n \in 1..m /\ n - 1 \in 0..m /\ ~(n <= n - 1)
  BY <1>2, <1>4
<1>6. g[n - 1] = f[n - 1]
  BY <1>1, <1>5
<1>7. SizeStep(s, f, n) = SizeStep(t, g, n)
  BY <1>4, <1>5, <1>6 DEF SizeStep
<1> QED
  BY <1>2, <1>3, <1>7

\* A block cut after n transactions is no larger than the whole.
LEMMA CutSize ==
  ASSUME NEW s \in Seq(Txs), NEW n \in Nat, n <= Len(s)
  PROVE  /\ MarshallSize(SubSeq(s, 1, n)) <= MarshallSize(s)
         /\ MarshallSize(SubSeq(s, 1, n)) \in Nat /\ MarshallSize(s) \in Nat
<1> DEFINE t == SubSeq(s, 1, n)
           f == SizeFunction(s)
           g == SizeFunction(t)
<1>1. /\ Len(s) \in Nat /\ t \in Seq(Txs) /\ Len(t) = n
      /\ \A i \in 1..n : t[i] = s[i]
  OBVIOUS
<1> HIDE DEF t
<1>2. IsSize(f, s, Len(s))
  <2>1. \E x : x = [i \in 0..Len(s) |-> SizeStep(s, x, i)]
    BY <1>1, SizeExists DEF IsSize
  <2> QED
    BY <2>1 DEF IsSize, SizeFunction
<1>3. IsSize(g, t, Len(t))
  <2>1. \E x : x = [i \in 0..Len(t) |-> SizeStep(t, x, i)]
    BY <1>1, SizeExists DEF IsSize
  <2> QED
    BY <2>1 DEF IsSize, SizeFunction
<1>4. MarshallSize(s) = f[Len(s)] /\ MarshallSize(t) = g[Len(t)]
  BY SizeIs
<1> HIDE DEF f, g
<1>5. n \in 0..Len(s) /\ Len(s) \in 0..Len(s)
  BY <1>1
<1>6. g[n] = f[n]
  BY <1>1, <1>2, <1>3, <1>5, SizeSame
<1>7. f[Len(s)] \in Nat /\ f[n] \in Nat /\ f[n] <= f[Len(s)]
  BY <1>2, <1>5, SizeGrows
<1> QED
  BY <1>1, <1>4, <1>6, <1>7 DEF t

\* What is being played has passed the size check, whole or cut.
SizeInv == pc \in {"play", "commit", "peer"} => CheckSize

LEMMA SizeHolds == Spec => []SizeInv
<1>1. Init => SizeInv
  BY DEF Init, SizeInv
<1>2. Inv /\ SizeInv /\ [Next]_vars => SizeInv'
  <2> SUFFICES ASSUME Inv, SizeInv, [Next]_vars PROVE SizeInv'
    OBVIOUS
  <2>1. CASE CheckBlock
    BY <2>1 DEF CheckBlock, SizeInv, CheckSize
  <2>2. CASE PlayTransaction
    <3>1. list \in Seq(Txs) /\ next \in Nat \ {0} /\ next <= Len(list) /\ Len(list) \in Nat
      BY <2>2 DEF Inv, TypeOK, PlayTransaction
    <3>2. CheckSize
      BY <2>2 DEF SizeInv, PlayTransaction
    <3>3. CASE list' = list
      BY <3>2, <3>3 DEF SizeInv, CheckSize
    <3>4. CASE list' = SubSeq(list, 1, next - 1)
      <4>1. next - 1 \in Nat /\ next - 1 <= Len(list) /\ MaxBlockSize \in Nat
        BY <3>1, SysparAssumption
      <4>2. /\ MarshallSize(SubSeq(list, 1, next - 1)) <= MarshallSize(list)
            /\ MarshallSize(SubSeq(list, 1, next - 1)) \in Nat /\ MarshallSize(list) \in Nat
        BY <3>1, <4>1, CutSize
      <4>3. MarshallSize(SubSeq(list, 1, next - 1)) <= MaxBlockSize
        BY <3>2, <4>1, <4>2 DEF CheckSize
      <4>4. CheckSize'
        BY <3>4, <4>3 DEF CheckSize
      <4> QED
        BY <4>4 DEF SizeInv
    <3>5. CASE pc' = "idle"
      BY <3>5 DEF SizeInv
    <3> QED
      BY <2>2, <3>3, <3>4, <3>5 DEF PlayTransaction
  <2>3. CASE Commit \/ PlayOnPeer
    <3>1. list' = list /\ pc \in {"play", "commit", "peer"}
      BY <2>3 DEF Commit, PlayOnPeer
    <3> QED
      BY <3>1 DEF SizeInv, CheckSize
  <2>4. CASE StartSelection \/ Selecting \/ SelectionDone \/ EndRound
    <3>1. pc' \notin {"play", "commit", "peer"}
      BY <2>4 DEF StartSelection, Selecting, SelectTransaction, SelectionDone, EndRound
    <3> QED
      BY <3>1 DEF SizeInv
  <2>5. CASE UNCHANGED vars
    BY <2>5 DEF vars, SizeInv, CheckSize
  <2> QED
    BY <2>1, <2>2, <2>3, <2>4, <2>5 DEF Next, Playing
<1> QED
  BY <1>1, <1>2, InvHolds, PTL DEF Spec

\* For any transactions, users, ecosystems and limits, a peer that plays a
\* committed block (limits.go:108) applies exactly what the generator applied,
\* although each asks other limiters and counts other transactions; unless the
\* block itself changes the limit of an ecosystem.
THEOREM PeersAlwaysAgree == Spec => []PeersAgree
<1>1. Inv /\ AgreeInv /\ SizeInv => PeersAgree
  <2> SUFFICES ASSUME Inv, AgreeInv, SizeInv, PeerDone, ~SetsLimit
               PROVE  effect["peer"] = effect["generator"]
    BY DEF PeersAgree
  <2>1. pc = "peer" /\ CheckUserTx /\ CheckSize
    BY DEF PeerDone, Inv, CountInv, SizeInv
  <2>2. next > Len(list)
    BY <2>1 DEF PeerDone
  <2>3. next - 1 = Len(list)
    BY <2>1, <2>2 DEF AgreeInv, PeerInv, Inv, TypeOK
  <2> QED
    BY <2>1, <2>3 DEF AgreeInv, PeerInv
<1> QED
  BY <1>1, InvHolds, AgreeHolds, SizeHolds, PTL
=============================================================================
