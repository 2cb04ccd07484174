------------------------------ MODULE Payments ------------------------------
(***************************************************************************)
(* What a transaction pays for its contract (CallContract and payContract  *)
(* of packages/smart/smart.go).  The wallet that pays is looked up in the  *)
(* committed database, what it can pay limits the fuel of the contract;    *)
(* the payment itself is made in the database transaction of the block,    *)
(* of which other transactions and other blocks may be a part.             *)
(***************************************************************************)
EXTENDS Integers, FiniteSets, FiniteSetsExt

CONSTANTS
  Purses,       \* keys; Maker and Collector are among them
  Maker,        \* the key of the node that made the block
  Collector,    \* the commission wallet
  Opening,      \* the amounts at the start, NoRow for a key without a row
  Maxpay,       \* maxpay of a key, 0 for none
  FuelRate, SizeFuel,
  CommissionSizes,  \* values of the system parameter commission_size, in percent
  MaxSum,       \* the most fuel of a transaction
  Overrun,      \* what the last command of a contract may use beyond its fuel
  MaxPlayed     \* bound on the transactions

VARIABLES
  amount,     \* 1_keys in the transaction of the block
  committed,  \* 1_keys in the committed database
  ledger,     \* 1_history in that transaction: what went from one key to another
  kept,       \* 1_history in the committed database
  playing,    \* a block is played
  paid,       \* history: what the last transaction paid, could pay, and the commission
  negative,   \* history: a transaction had to pay a negative sum
  played

payVars == <<amount, committed, ledger, kept, playing, paid, negative, played>>

NoRow == -1
NothingPaid == [sum |-> 0, limit |-> 0, percent |-> 0]

Init ==
  /\ amount = Opening /\ committed = Opening
  /\ ledger = [p \in Purses \X Purses |-> 0] /\ kept = ledger
  /\ playing = FALSE /\ paid = NothingPaid /\ negative = FALSE /\ played = 0

Least(a, b) == IF a < b THEN a ELSE b

-----------------------------------------------------------------------------
\* CallContract: the wallet that is bound to the contract pays, or the key of
\* the transaction at the rate that it offers.
Payer(t) == IF t.bound THEN t.owner ELSE t.key
Rate(t) == IF t.bound THEN FuelRate ELSE FuelRate + t.payOver

\* What the wallet can pay, by the committed database.
CanPay(t) ==
  LET a == committed[Payer(t)] p == Maxpay[Payer(t)]
  IN  IF p > 0 THEN Least(p, a) ELSE a

\* txcost, before the size of the transaction is paid for
Fuel(t) == Least(MaxSum, CanPay(t) \div Rate(t))

Refused(t) ==
  \/ committed[Payer(t)] = NoRow            \* errCurrentBalance
  \/ ~t.bound /\ ~t.sameKey                 \* errDiffKeys
  \/ CanPay(t) <= 0 \/ Fuel(t) - SizeFuel <= 0

\* The action of the contract: a transfer, which the balance must allow.
Moved(t) == IF t.give = 0 \/ t.key = t.to THEN amount
            ELSE [amount EXCEPT ![t.key] = @ - t.give, ![t.to] = @ + t.give]
CanMove(t) == t.give = 0 \/ (amount[t.key] >= t.give /\ amount[t.to] # NoRow)

\* A slip: a missing commission wallet costs the payer all the same.
ShareNotKept(a, sum, percent) ==
  LET commission == (sum * percent) \div 100
  IN  [maker |-> IF a[Maker] = NoRow THEN 0 ELSE sum - commission,
       collector |-> IF a[Collector] = NoRow THEN 0 ELSE commission,
       payer |-> IF a[Maker] = NoRow THEN commission ELSE sum]

\* payContract: the payment is cut by the share of a wallet that is not there.
\* With a commission of more than 100 percent the maker's share is negative.
Share(a, sum, percent) ==
  LET commission == (sum * percent) \div 100
      toMaker == IF a[Maker] = NoRow THEN commission ELSE sum
  IN  [maker |-> IF a[Maker] = NoRow THEN 0 ELSE sum - commission,
       collector |-> IF a[Collector] = NoRow THEN 0 ELSE commission,
       payer |-> IF a[Collector] = NoRow THEN toMaker - commission ELSE toMaker]

Add(a, k, sum) == IF a[k] = NoRow THEN a ELSE [a EXCEPT ![k] = @ + sum]

\* The three updates.  A negative sum makes "amount=amount--5" of the last one,
\* where the database reads a comment: it changes nothing.
AfterPay(a, from, s) ==
  LET two == Add(Add(a, Maker, s.maker), Collector, s.collector)
  IN  IF s.payer < 0 THEN two ELSE Add(two, from, 0 - s.payer)

\* A transaction of the block that succeeds; used is the fuel of the contract.
CallContract(t, used, percent) ==
  LET sum == Least(used * Rate(t), committed[Payer(t)])
      s == Share(Moved(t), sum, percent)
      a == AfterPay(Moved(t), Payer(t), s)
      entry(p) == (IF p = <<t.key, t.to>> /\ t.key # t.to THEN t.give ELSE 0)
                  + (IF p = <<Payer(t), Maker>> THEN s.maker ELSE 0)
                  + (IF p = <<Payer(t), Collector>> THEN s.collector ELSE 0)
  IN
  /\ playing /\ played < MaxPlayed /\ played' = played + 1
  /\ ~Refused(t) /\ CanMove(t)
  /\ used \in (SizeFuel + 1)..(Fuel(t) + Overrun)
  \* No amount may be negative: the maker's, and the payer's (errCommission).
  /\ Moved(t)[Maker] = NoRow \/ Moved(t)[Maker] + s.maker >= 0
  /\ a[Payer(t)] >= 0
  /\ amount' = a /\ ledger' = [p \in Purses \X Purses |-> ledger[p] + entry(p)]
  /\ paid' = [sum |-> s.payer, limit |-> CanPay(t) + Overrun * Rate(t), percent |-> percent]
  /\ negative' = (negative \/ s.payer < 0)
  /\ UNCHANGED <<committed, kept, playing>>

\* One that fails leaves nothing behind its savepoint, the payment neither.
RollbackSavepoint ==
  /\ playing /\ played < MaxPlayed /\ played' = played + 1
  /\ paid' = NothingPaid
  /\ UNCHANGED <<amount, committed, ledger, kept, playing, negative>>

\* NewUser: the row of a new key.
NewUser(k) ==
  /\ playing /\ amount[k] = NoRow
  /\ amount' = [amount EXCEPT ![k] = 0] /\ paid' = NothingPaid
  /\ UNCHANGED <<committed, ledger, kept, playing, negative, played>>

BeginBlock ==
  /\ ~playing /\ playing' = TRUE
  /\ UNCHANGED <<amount, committed, ledger, kept, paid, negative, played>>

\* The last block of the transaction is played (PlaySafe has one, processBlocks
\* many), or one of them fails.
Commit ==
  /\ playing /\ playing' = FALSE /\ committed' = amount /\ kept' = ledger
  /\ UNCHANGED <<amount, ledger, paid, negative, played>>

Abort ==
  /\ playing /\ playing' = FALSE /\ amount' = committed /\ ledger' = kept
  /\ paid' = NothingPaid
  /\ UNCHANGED <<committed, kept, negative, played>>

Calls ==
  {t \in [key : Purses, owner : {Collector}, bound : BOOLEAN, payOver : {0, 1}, sameKey : BOOLEAN, to : Purses, give : {0, 2}] :
     (t.give = 0) = (t.to = t.key)}

Next ==
  \/ \E t \in Calls, used \in 1..(MaxSum + Overrun), percent \in CommissionSizes : CallContract(t, used, percent)
  \/ \E k \in Purses : NewUser(k)
  \/ RollbackSavepoint \/ BeginBlock \/ Commit \/ Abort

-----------------------------------------------------------------------------
In(l, k) == MapThenSumSet(LAMBDA p : l[p], {p \in Purses \X Purses : p[2] = k})
Out(l, k) == MapThenSumSet(LAMBDA p : l[p], {p \in Purses \X Purses : p[1] = k})
Start(k) == IF Opening[k] = NoRow THEN 0 ELSE Opening[k]

\* The amount of every key is what 1_history says of it: nothing is made or
\* lost, whichever of the wallets of the maker, the commission and the payer
\* are missing or the same, and whatever the payer gave away in the same block,
\* until a commission of more than 100 percent without a wallet for it makes a
\* payment negative (payContract).
BooksBalance ==
  negative \/ \A k \in Purses : amount[k] # NoRow => amount[k] = Start(k) + In(ledger, k) - Out(ledger, k)

\* A transaction pays no more than its wallet had and allows, except for the
\* last command of the contract, or than the commission on that, when this is
\* more (CallContract, payContract).
PaysWithinLimit ==
  paid.sum <= IF paid.percent <= 100 THEN paid.limit ELSE (paid.limit * paid.percent) \div 100

\* Payments balance and stay within what the payer had and allows
\* (CallContract, payContract).
PaymentsAreRight == BooksBalance /\ PaysWithinLimit
=============================================================================
