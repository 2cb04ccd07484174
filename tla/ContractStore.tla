--------------------------- MODULE ContractStore ---------------------------
(***************************************************************************)
(* The contracts of a node live twice: as rows of 1_contracts in the       *)
(* database, and compiled in the virtual machine of the process (smartVM,  *)
(* packages/smart/smart.go), which every transaction is run on.  The       *)
(* database is put back by savepoints and by Rollback; the virtual machine *)
(* by the flush log of a failed transaction (block.Play) and by the system *)
(* records of rollback_tx (packages/smart/sysrollback.go).                 *)
(*                                                                         *)
(* A transaction names its contract by the id of the row, which is turned  *)
(* into a place among the children of the virtual machine.                 *)
(***************************************************************************)
EXTENDS Integers, Sequences, FiniteSets

CONSTANTS
  Ecosystems,    \* ecosystems that can be created; the first one is 1
  Names,         \* names of contracts
  Sources,       \* texts of a contract that compile to different code
  Wallets,       \* wallets that contracts are bound to; 0 is none
  MaxContracts,  \* bound on the number of contracts
  MaxBlocks,     \* bound on the length of the chain
  MaxRecords     \* bound on the number of records of rollback_tx

VARIABLES
  db,     \* the open database transaction: rows, ecosystems, log, chain
  saved,  \* the committed database
  sp,     \* the savepoint of the transaction being played
  vm,     \* the children of the virtual machine after the system functions
  flush,  \* FlushRollback of the transaction being played
  mode,   \* "idle", "block" (playing) or "undo" (RollbackBlock)
  dirty   \* not in the code: the database was put back without the virtual
          \* machine since the process started

vars == <<db, saved, sp, vm, flush, mode, dirty>>

Last(s) == s[Len(s)]
Front(s) == SubSeq(s, 1, Len(s) - 1)

\* The only contract of the schema of an ecosystem (MainCondition).
Main == "Main"

-----------------------------------------------------------------------------
(***************************************************************************)
(* The virtual machine: a sequence of compiled contracts.  The object of a *)
(* name is the child with that name; ids start at ShiftContract, here 0.   *)
(***************************************************************************)

Child(eco, name, src, wallet, id) ==
  [eco |-> eco, name |-> name, src |-> src, wallet |-> wallet, id |-> id]

\* VMGetContract: the place of the object @eco name, or 0.
PlaceOf(v, eco, name) ==
  LET P == {i \in 1..Len(v) : v[i].eco = eco /\ v[i].name = name}
  IN  IF P = {} THEN 0 ELSE CHOOSE i \in P : TRUE

\* FlushBlock of one contract: it takes the place of the one with its name.
FlushBlock(v, c) ==
  LET i == PlaceOf(v, c.eco, c.name)
  IN  IF i = 0 THEN Append(v, c) ELSE [v EXCEPT ![i] = c]

\* VMGetContractByID: the child at the place of the id, if it is that contract.
GetContractByID(v, id) ==
  IF id \in 1..Len(v) /\ v[id].id = id THEN {v[id]} ELSE {}

\* FlushContract notes what it replaces, and the place of what is new.
FlushInfo(v, c) ==
  LET i == PlaceOf(v, c.eco, c.name)
  IN  IF i = 0 THEN [place |-> Len(v) + 1, new |-> TRUE, prev |-> c]
               ELSE [place |-> i, new |-> FALSE, prev |-> v[i]]

\* Play undoes the notes of a failed transaction from the last one: a new
\* contract is taken away only if it is still the last child.
Unflush(v, fs) ==
  LET step[i \in 0..Len(fs)] ==
        IF i = 0 THEN v
        ELSE LET w == step[i - 1] f == fs[Len(fs) + 1 - i]
             IN  IF ~f.new THEN [w EXCEPT ![f.place] = f.prev]
                 ELSE IF f.place = Len(w) THEN Front(w) ELSE w
  IN  step[Len(fs)]

\* LoadContracts, LoadContract: rows are compiled in the order of their ids.
Load(v, rows, first) ==
  LET step[i \in 0..Len(rows)] ==
        IF i < first THEN v
        ELSE LET r == rows[i] IN FlushBlock(step[i - 1], Child(r.eco, r.name, r.src, r.wallet, i))
  IN  step[Len(rows)]

\* SetContractWallet, SysSetContractWallet: every child with the id.
SetWallet(v, id, eco, wallet) ==
  [i \in 1..Len(v) |->
     IF v[i].id = id /\ v[i].eco = eco THEN [v[i] EXCEPT !.wallet = wallet] ELSE v[i]]

\* The rows that the undo of an ecosystem leaves, in the order of their ids.
DeleteEcosystem(rows, eco) ==
  LET step[i \in 0..Len(rows)] ==
        IF i = 0 THEN <<>>
        ELSE IF rows[i].eco = eco THEN step[i - 1] ELSE Append(step[i - 1], rows[i])
  IN  step[Len(rows)]

\* SysRollbackContract: only the last child can be taken away.
RollbackContract(v, eco, name) ==
  LET i == PlaceOf(v, eco, name)
  IN  IF i # 0 /\ i = Len(v) THEN Front(v) ELSE v

\* SysRollbackEcosystem: the contracts of the ecosystem at the end.
RollbackEcosystem(v, eco) ==
  LET keep == {i \in 0..Len(v) : \A j \in (i + 1)..Len(v) : v[j].eco = eco}
  IN  SubSeq(v, 1, CHOOSE i \in keep : \A j \in keep : i <= j)

\* SysRollbackEditContract compiles the text of the row, which is the old one
\* again, for the owner of the contract that has the id.
RollbackEdit(v, rows, eco, id) ==
  LET P == {i \in 1..Len(v) : v[i].id = id /\ v[i].eco = eco}
  IN  IF P = {} THEN v
      ELSE FlushBlock(v, Child(eco, rows[id].name, rows[id].src, rows[id].wallet, id))

-----------------------------------------------------------------------------
(***************************************************************************)
(* What a transaction does to contracts.                                   *)
(***************************************************************************)

Played(d, v, f) ==
  /\ mode = "block"
  /\ Len(d.log) <= MaxRecords /\ Len(d.rows) <= MaxContracts
  /\ db' = d /\ vm' = v /\ flush' = f
  /\ UNCHANGED <<saved, sp, mode, dirty>>

Logged(d, recs) == [d EXCEPT !.log = @ \o recs]

\* CreateContract: GetContractByName asks the virtual machine; the row, unique
\* by ecosystem and name, the compiled contract, then the system record.
CreateContract(eco, name, src) ==
  LET id == Len(db.rows) + 1
      c  == Child(eco, name, src, 0, id)
      d  == [db EXCEPT !.rows = Append(@, [eco |-> eco, name |-> name, src |-> src, wallet |-> 0])]
  IN  /\ eco \in db.ecos
      /\ PlaceOf(vm, eco, name) = 0
      /\ \A i \in 1..Len(db.rows) : ~(db.rows[i].eco = eco /\ db.rows[i].name = name)
      /\ Played(Logged(d, << [type |-> "insert", id |-> id],
                             [type |-> "NewContract", eco |-> eco, name |-> name] >>),
                FlushBlock(vm, c), Append(flush, FlushInfo(vm, c)))

\* A slip: the system record of an edit comes after the one of the row.
EditRecordsSwapped(eco, id) ==
  << [type |-> "update", id |-> id, old |-> db.rows[id]],
     [type |-> "EditContract", eco |-> eco, id |-> id] >>

\* The system record of an edit comes first: it is undone when the row has its
\* old text again.
EditRecords(eco, id) ==
  << [type |-> "EditContract", eco |-> eco, id |-> id],
     [type |-> "update", id |-> id, old |-> db.rows[id]] >>

\* UpdateContract with a new text.
UpdateContract(id, src) ==
  LET r == db.rows[id]
      c == Child(r.eco, r.name, src, r.wallet, id)
      d == [db EXCEPT !.rows[id].src = src]
  IN  Played(Logged(d, EditRecords(r.eco, id)),
             FlushBlock(vm, c), Append(flush, FlushInfo(vm, c)))

\* UpdateContract with new conditions only: the same records, nothing compiled.
UpdateConditions(id) ==
  Played(Logged(db, EditRecords(db.rows[id].eco, id)), vm, flush)

\* BndWallet and UnbndWallet: the row, with its record, and the virtual machine,
\* with neither a note for a failure nor a system record.
BindWallet(id, wallet) ==
  LET r == db.rows[id]
  IN  /\ r.wallet # wallet
      /\ Played(Logged([db EXCEPT !.rows[id].wallet = wallet],
                       << [type |-> "update", id |-> id, old |-> r] >>),
                SetWallet(vm, id, r.eco, wallet), flush)

\* CreateEcosystem: the schema adds the contract of the ecosystem, LoadContract
\* compiles it without a note.
CreateEcosystem(eco) ==
  LET d == [db EXCEPT !.rows = Append(@, [eco |-> eco, name |-> Main, src |-> CHOOSE x \in Sources : TRUE, wallet |-> 0]),
                      !.ecos = @ \cup {eco}]
  IN  /\ eco \notin db.ecos
      /\ Played(Logged(d, << [type |-> "NewEcosystem", eco |-> eco] >>),
                Load(vm, d.rows, Len(d.rows)), flush)

-----------------------------------------------------------------------------
(***************************************************************************)
(* Blocks.                                                                 *)
(***************************************************************************)

BeginBlock ==
  /\ mode = "idle" /\ Len(db.chain) < MaxBlocks
  /\ db' = [db EXCEPT !.chain = Append(@, Len(db.log))]
  /\ sp' = db' /\ flush' = <<>> /\ mode' = "block"
  /\ UNCHANGED <<saved, vm, dirty>>

\* The transaction succeeded: the savepoint is released.
ReleaseSavepoint ==
  /\ mode = "block" /\ db # sp
  /\ sp' = db /\ flush' = <<>>
  /\ UNCHANGED <<db, saved, vm, mode, dirty>>

\* The transaction failed: the notes of FlushContract are undone, then the
\* database goes back to the savepoint.
RollbackSavepoint ==
  /\ mode = "block" /\ db # sp
  /\ vm' = Unflush(vm, flush)
  /\ dirty' = (dirty \/ db.ecos # sp.ecos)
  /\ db' = sp /\ flush' = <<>>
  /\ UNCHANGED <<saved, sp, mode>>

Commit ==
  /\ mode = "block"
  /\ saved' = db /\ sp' = db /\ flush' = <<>> /\ mode' = "idle"
  /\ UNCHANGED <<db, vm, dirty>>

\* PlaySafe and RollbackBlock call Rollback on an error: of the database only.
Abort ==
  /\ mode # "idle"
  /\ db' = saved /\ sp' = saved /\ flush' = <<>> /\ mode' = "idle"
  /\ dirty' = (dirty \/ db.log # saved.log)
  /\ UNCHANGED <<saved, vm>>

\* A crash, or a stop, and a start: LoadContracts.
Restart ==
  /\ db' = saved /\ sp' = saved /\ flush' = <<>> /\ mode' = "idle"
  /\ vm' = Load(<<>>, saved.rows, 1)
  /\ dirty' = FALSE
  /\ UNCHANGED saved

BeginRollback ==
  /\ mode = "idle" /\ db.chain # <<>>
  /\ mode' = "undo"
  /\ UNCHANGED <<db, saved, sp, vm, flush, dirty>>

\* rollbackTransaction, one record: the row and the virtual machine.
UndoRows(rec) ==
  CASE rec.type = "insert"       -> Front(db.rows)
    [] rec.type = "update"       -> [db.rows EXCEPT ![rec.id] = rec.old]
    [] rec.type = "NewEcosystem" -> DeleteEcosystem(db.rows, rec.eco)
    [] OTHER                     -> db.rows

UndoVM(rec) ==
  CASE rec.type = "NewContract"  -> RollbackContract(vm, rec.eco, rec.name)
    [] rec.type = "EditContract" -> RollbackEdit(vm, db.rows, rec.eco, rec.id)
    [] rec.type = "NewEcosystem" -> RollbackEcosystem(vm, rec.eco)
    [] OTHER                     -> vm

UndoRecord ==
  /\ mode = "undo" /\ Len(db.log) > Last(db.chain)
  /\ LET rec == Last(db.log)
     IN  /\ db' = [db EXCEPT !.rows = UndoRows(rec), !.log = Front(@),
                             !.ecos = IF rec.type = "NewEcosystem" THEN @ \ {rec.eco} ELSE @]
         /\ vm' = UndoVM(rec)
  /\ UNCHANGED <<saved, sp, flush, mode, dirty>>

CommitRollback ==
  /\ mode = "undo" /\ Len(db.log) = Last(db.chain)
  /\ db' = [db EXCEPT !.chain = Front(@)]
  /\ saved' = db' /\ sp' = db' /\ mode' = "idle"
  /\ UNCHANGED <<vm, flush, dirty>>

-----------------------------------------------------------------------------

Init ==
  /\ db = [rows |-> << [eco |-> 1, name |-> Main, src |-> CHOOSE x \in Sources : TRUE, wallet |-> 0] >>,
           ecos |-> {1}, log |-> <<>>, chain |-> <<>>]
  /\ saved = db /\ sp = db /\ flush = <<>> /\ mode = "idle" /\ dirty = FALSE
  /\ vm = Load(<<>>, db.rows, 1)

Next ==
  \/ \E eco \in Ecosystems \cup {1}, name \in Names, src \in Sources : CreateContract(eco, name, src)
  \/ \E id \in 1..Len(db.rows), src \in Sources : UpdateContract(id, src)
  \/ \E id \in 1..Len(db.rows) : UpdateConditions(id)
  \/ \E id \in 1..Len(db.rows), wallet \in Wallets : BindWallet(id, wallet)
  \/ \E eco \in Ecosystems : CreateEcosystem(eco)
  \/ BeginBlock \/ ReleaseSavepoint \/ RollbackSavepoint \/ Commit \/ Abort \/ Restart
  \/ BeginRollback \/ UndoRecord \/ CommitRollback

Spec == Init /\ [][Next]_vars

-----------------------------------------------------------------------------

Code(v) == [i \in 1..Len(v) |-> [v[i] EXCEPT !.wallet = 0]]

\* Between blocks the code in the virtual machine is the code a node that
\* starts now would compile from 1_contracts, at the same places: whatever was
\* created, edited, failed, played and rolled back since the process started
\* (FlushContract, block.Play, SysRollbackNewContract, SysRollbackEditContract,
\* SysRollbackEcosystem), as long as no block was given up half-way and no
\* transaction failed after it had created an ecosystem.
SameCodeAsRestarted ==
  mode = "idle" /\ ~dirty => Code(vm) = Code(Load(<<>>, saved.rows, 1))

\* A transaction that names a contract by the id of its row finds it
\* (VMGetContractByID), while blocks are played as well.
ContractsAreFound ==
  mode # "undo" /\ ~dirty => \A id \in 1..Len(db.rows) :
     \E c \in GetContractByID(vm, id) : c.name = db.rows[id].name /\ c.eco = db.rows[id].eco

\* The virtual machine is the table 1_contracts compiled, at the same places, and
\* finds what a transaction names (FlushContract, VMGetContractByID).
CompiledIsStored == SameCodeAsRestarted /\ ContractsAreFound
=============================================================================
