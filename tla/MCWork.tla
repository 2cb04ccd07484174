------------------------------- MODULE MCWork -------------------------------
(***************************************************************************)
(* What contracts and the services around them do, for model checking: the *)
(* compiled contracts, the cache of parsed transactions, delayed contracts,*)
(* the rights over rows, payments, the import of applications, child nodes,*)
(* the schedule, texts, notifications, the watch over transfers, and the   *)
(* encodings on a connection.  They do not share state, so each behaviour  *)
(* runs one of them: the machine chosen at the start.                      *)
(***************************************************************************)
EXTENDS Integers, Sequences, FiniteSets

CONSTANTS Ecosystems, Names, Sources, Wallets, MaxContracts, MaxBlocks, MaxRecords
CONSTANTS Keys, Founder, Developers, Values, RowConds, MinCount, MaxCount, SomeTables, MaxRights
CONSTANTS Importers, ImportFiles, ImportSlots, PieceSize, MaxUploads
CONSTANTS VDENames, VDEUsers, MaxVDEOps
CONSTANTS CronIds, Specs, CronContracts, MaxCronOps
CONSTANTS Ecos, NoteUsers, NoteRole, MaxNotes
CONSTANTS DayLimit, PairLimit, BlockLimit, Hours, Payers, Amounts, MaxHour, MaxTransfers
CONSTANTS Purses, Maker, Collector, Opening, Maxpay, FuelRate, SizeFuel, CommissionSizes, MaxSum, Overrun, MaxPlayed
CONSTANTS CTxs, Editors, MaxVersion, MaxPages
CONSTANTS Messages, MaxTxSize, MaxSent
CONSTANTS Resources, Dictionaries, Accepts, BaseOf, MaxLangOps
CONSTANTS Makers, Delayed, Fallible, FirstBlock, EveryBlock, CallLimit, MaxHeight, MaxMade, MaxUndone

ASSUME HoursAssumption == Hours \in Nat \ {0}
ASSUME VDEUsersAssumption == "none" \notin VDEUsers
ASSUME CronIdsAssumption == IsFiniteSet(CronIds)
ASSUME DelayedAssumption ==
  /\ IsFiniteSet(Delayed) /\ FirstBlock \in [Delayed -> Nat \ {0}]
  /\ EveryBlock \in [Delayed -> Nat \ {0}] /\ CallLimit \in [Delayed -> Nat]
ASSUME PaymentsAssumption ==
  /\ IsFiniteSet(Purses) /\ Maker \in Purses /\ Collector \in Purses
  /\ Opening \in [Purses -> Nat \cup {-1}] /\ Maxpay \in [Purses -> Nat]
  /\ FuelRate \in Nat \ {0} /\ SizeFuel \in Nat /\ CommissionSizes \subseteq Nat /\ MaxSum \in Nat /\ Overrun \in Nat
ASSUME KeysAssumption == "editor" \notin Keys
ASSUME ImportAssumption ==
  /\ PieceSize \in Nat \ {0}
  /\ \A file \in ImportFiles :
       /\ file.data \in Seq({file.data[i] : i \in DOMAIN file.data})
       /\ \A i \in DOMAIN file.data : <<file.data[i].type, file.data[i].name>> \in ImportSlots

VARIABLES machine
VARIABLES db, saved, sp, vm, flush, mode, dirty
VARIABLES vde, table, row, perm, col, changing, changingTables, who, rights
VARIABLES items, apps, buffer, page, sent, uploads
VARIABLES role, undropped, owner, dir, proc, job, ops, broken
VARIABLES cron, written, entries, loading, loaded, cronOps
VARIABLES notes, undoNotes, told, last, shown, asked, stale, changes
VARIABLES clock, transfers, made, lastLimitEvents, mailed, checked
VARIABLES amount, committed, ledger, kept, playing, paid, negative, played
VARIABLES code, newest, where, blocks, parsedTxs, locked, hand, forked, inEffect, request, pages
VARIABLES conn, wrote, read
VARIABLES stored, pending, earlier, lang, loaders, inBlock, astray, answer, langOps
VARIABLES delayed, chainOf, unused, used, madeTxs, undone, given

\* Two versions of an application, one with a contract that calls one of another
\* file, and one that is empty.
Item(type, name, value, needs) == [type |-> type, name |-> name, value |-> value, needs |-> needs]
SomeFiles ==
  {[app |-> "one", data |-> <<Item("pages", "p", "1", {}), Item("contracts", "a", "1", {}), Item("menu", "m", "1", {}),
                              Item("contracts", "b", "1", {"a"}), Item("tables", "t", "1", {})>>],
   [app |-> "two", data |-> <<Item("menu", "m", "2", {}), Item("pages", "p", "2", {}), Item("contracts", "locked", "2", {})>>],
   [app |-> "three", data |-> <<Item("contracts", "b", "3", {"a"}), Item("pages", "p", "3", {})>>],
   [app |-> "none", data |-> <<>>]}
SomeSlots ==
  {<<"pages", "p">>, <<"menu", "m">>, <<"contracts", "a">>, <<"contracts", "b">>, <<"contracts", "locked">>, <<"tables", "t">>}

\* Neither the maker of the blocks nor the commission wallet is there at first.
SomeOpening == [k \in Purses |-> IF k \in {Maker, Collector} THEN -1 ELSE 7]
SomeMaxpay == [k \in Purses |-> IF k = Collector THEN 3 ELSE 0]

\* Messages whose lengths and numbers are those at which an encoding changes
\* its form.
Run(n) == [i \in 1..n |-> 7]
Hash(k) == [i \in 1..32 |-> k]
Called(p, s) == [type |-> 128, payload |-> Run(p), sign |-> Run(s)]
Founded(key, pub) == [type |-> 1, fields |-> <<1, 65536, key, Run(pub), Run(64), <<>>, 0 - 1, 1>>]
Stopped(n) == [type |-> 2, fields |-> <<2, 255, 256, Run(n)>>]
Block(id, key, pos, sign, txs) ==
  [type |-> "block", txs |-> txs,
   header |-> [version |-> 1, blockID |-> id, time |-> 65535, ecosystemID |-> 0, keyID |-> key, nodePosition |-> pos, sign |-> Run(sign)]]
Announced(node, block, n) == [type |-> "announcement", node |-> node, block |-> block, hashes |-> [i \in 1..n |-> Hash(i)]]

SomeMessages ==
  {Block(1, 0 - 5, 0, 0, <<Founded(k, p)>>) : k \in {0, 0 - 256}, p \in {64, 128}}
  \cup {Block(2, k, 255, s, <<>>) : k \in {0, 1, 255, 256, 0 - 1, 2147483647}, s \in {64, 127, 128, 255, 256}}
  \cup {Block(16777216, 9, 1, 64, <<Called(p, 64), Stopped(q)>>) : p \in {0, 61, 62, 127, 128, 255, 256}, q \in {0, 128}}
  \cup {Block(3, 9, 1, 64, l) : l \in UNION {[1..n -> {Called(1, 0), Called(2, 0)}] : n \in 1..4}}
  \cup {Announced(3, b, n) : b \in {[id |-> 0, hash |-> <<>>], [id |-> 16777215, hash |-> Hash(9)]}, n \in 0..2}
  \cup {[type |-> "bodies", txs |-> t] : t \in {<<>>, <<Called(127, 0)>>, <<Stopped(1), Called(256, 70)>>}}
  \cup {[type |-> "request", blockID |-> i, reverse |-> r] : i \in {1, 16777216}, r \in BOOLEAN}
  \cup {[type |-> "hashes", hashes |-> [i \in 1..n |-> Hash(i)]] : n \in {0, 1, 4}}
  \cup {[type |-> "stop", data |-> Run(n)] : n \in {0, 127, 128}} \cup {[type |-> "stopped", data |-> Hash(1)]}
  \cup {[type |-> s, number |-> n] : s \in {"confirm", "maxblock", "count"}, n \in {0, 255, 16777216}}
  \cup {[type |-> "value", kind |-> "int32", val |-> n] : n \in {0, 127, 128, 65536}}

\* Texts in several languages, of a region of one, and in none.
SomeTexts ==
  {[l \in {"en", "fr"} |-> IF l = "en" THEN "1" ELSE "2"], [l \in {"fr", "en-gb"} |-> "3"], [l \in {} |-> ""]}
SomeAccepts == {<<"fr", "en">>, <<"en-gb">>}
SomeBases == [l \in {"en", "fr", "en-gb"} |-> IF l = "en-gb" THEN "en" ELSE l]

\* Both rows wait for the first block; the fallible one is called only once.
SomeFirst == [d \in Delayed |-> 1]
SomeEvery == [d \in Delayed |-> IF d \in Fallible THEN 1 ELSE 2]
SomeLimit == [d \in Delayed |-> IF d \in Fallible THEN 1 ELSE 0]

C == INSTANCE ContractStore
R == INSTANCE Rights
I == INSTANCE Importing
V == INSTANCE VDEManager
S == INSTANCE Scheduler
N == INSTANCE Notificator
T == INSTANCE TokenMovement
P == INSTANCE Payments
X == INSTANCE TxCache
W == INSTANCE Wire
D == INSTANCE DelayedContracts
L == INSTANCE Languages

ctr == <<db, saved, sp, vm, flush, mode, dirty>>
rig == <<vde, table, row, perm, col, changing, changingTables, who, rights>>
imp == <<items, apps, buffer, page, sent, uploads>>
man == <<role, undropped, owner, dir, proc, job, ops, broken>>
sch == <<cron, written, entries, loading, loaded, cronOps>>
ntf == <<notes, undoNotes, told, last, shown, asked, stale, changes>>
mov == <<clock, transfers, made, lastLimitEvents, mailed, checked>>
pay == <<amount, committed, ledger, kept, playing, paid, negative, played>>
cch == <<code, newest, where, blocks, parsedTxs, locked, hand, forked, inEffect, request, pages>>
net == <<conn, wrote, read>>
del == <<delayed, chainOf, unused, used, madeTxs, undone, given>>
lng == <<stored, pending, earlier, lang, loaders, inBlock, astray, answer, langOps>>
vars == <<machine, ctr, rig, imp, man, sch, ntf, mov, pay, cch, net, del, lng>>

Init ==
  /\ machine \in {"contracts", "rights", "import", "vde", "cron", "notes", "tokens", "payments", "cache", "wire", "delayed", "lang"}
  /\ R!Init /\ (machine # "rights" => ~vde /\ table = "pages" /\ row = R!NoRow)
  /\ C!Init /\ I!Init /\ V!Init /\ S!Init /\ N!Init /\ T!Init /\ P!Init /\ X!Init /\ W!Init /\ D!Init
  /\ L!Init /\ (machine # "lang" => stored = CHOOSE texts \in L!FirstTexts : TRUE)

Next ==
  /\ UNCHANGED machine
  /\ \/ machine = "contracts" /\ C!Next /\ UNCHANGED <<rig, imp, man, sch, ntf, mov, pay, cch, net, del, lng>>
     \/ machine = "rights" /\ R!Next /\ UNCHANGED <<ctr, imp, man, sch, ntf, mov, pay, cch, net, del, lng>>
     \/ machine = "import" /\ I!Next /\ UNCHANGED <<ctr, rig, man, sch, ntf, mov, pay, cch, net, del, lng>>
     \/ machine = "vde" /\ V!Next /\ UNCHANGED <<ctr, rig, imp, sch, ntf, mov, pay, cch, net, del, lng>>
     \/ machine = "cron" /\ S!Next /\ UNCHANGED <<ctr, rig, imp, man, ntf, mov, pay, cch, net, del, lng>>
     \/ machine = "notes" /\ N!Next /\ UNCHANGED <<ctr, rig, imp, man, sch, mov, pay, cch, net, del, lng>>
     \/ machine = "tokens" /\ T!Next /\ UNCHANGED <<ctr, rig, imp, man, sch, ntf, pay, cch, net, del, lng>>
     \/ machine = "payments" /\ P!Next /\ UNCHANGED <<ctr, rig, imp, man, sch, ntf, mov, cch, net, del, lng>>
     \/ machine = "cache" /\ X!Next /\ UNCHANGED <<ctr, rig, imp, man, sch, ntf, mov, pay, net, del, lng>>
     \/ machine = "wire" /\ W!Next /\ UNCHANGED <<ctr, rig, imp, man, sch, ntf, mov, pay, cch, del, lng>>
     \/ machine = "delayed" /\ D!Next /\ UNCHANGED <<ctr, rig, imp, man, sch, ntf, mov, pay, cch, net, lng>>
     \/ machine = "lang" /\ L!Next /\ UNCHANGED <<ctr, rig, imp, man, sch, ntf, mov, pay, cch, net, del>>

Spec == Init /\ [][Next]_vars

\* The properties ask nothing of a process whose compiled contracts were put
\* back badly, and a restart of it leads to a state that another one reaches.
Clean == ~dirty

-----------------------------------------------------------------------------
\* The virtual machine is the table 1_contracts compiled (FlushContract).
CompiledIsStored == C!CompiledIsStored

\* Who changes a row has the rights for it (AccessTable, RowConditions).
RowsAreGuarded == R!RowsAreGuarded

\* An import arrives as a whole (ImportUpload, Import).
ImportArrives == I!ImportArrives

\* A name has all of a child node or nothing, but for roles that could not be
\* dropped (CreateVDE, DeleteVDE).
NothingLeftOver == V!NothingLeftOver

\* Every row of cron has a task that does what it says (UpdateTask).
RowsAreScheduled == S!RowsAreScheduled

\* A user is shown the number of his notifications (UpdateNotifications).
ShownIsTrue == N!ShownIsTrue

\* An excess of transfers is mailed on its day (CheckTokenMovementLimits).
ExcessIsMailed == T!ExcessIsMailed

\* Payments balance, within the limit of the payer (payContract).
PaymentsAreRight == P!PaymentsAreRight

\* Transactions are played with the contracts of now (UnmarshallTransaction).
PlayedAsItIsNow == X!PlayedAsItIsNow

\* What is read is what was written (converter, protocol.go).
WireIsFaithful == W!WireIsFaithful

\* Delayed contracts are called neither too often nor never again
\* (CallDelayedContract).
CallsAreKept == D!CallsAreKept

\* A reader gets the stored text (LangText).
TextIsTheStored == L!TextIsTheStored
=============================================================================
