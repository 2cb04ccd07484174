----------------------------- MODULE RowStore ------------------------------
(***************************************************************************)
(* The rows and tables that contracts write, and the log that takes their  *)
(* writes back.                                                            *)
(*                                                                         *)
(* While a block is played, every insert and update of a contract          *)
(* (packages/smart/selective.go) and every change of the schema            *)
(* (packages/smart/funcs.go) adds a record to rollback_tx.  RollbackBlock  *)
(* (packages/rollback) reads the records of the last block backwards and   *)
(* undoes them one by one, in one database transaction.                    *)
(*                                                                         *)
(* A database is a record of two functions: schema, the columns of each    *)
(* table that contracts can create, and rows, the rows of every table,     *)
(* each under the pair of its ecosystem and its id.  The rows of the key   *)
(* tables are identified by the pair, those of the others by the id alone. *)
(***************************************************************************)
EXTENDS Integers, Sequences, FiniteSets

CONSTANTS
  UserTables,    \* tables that contracts create and drop
  EcosystemOf,   \* the ecosystem of each of them
  NameOf,        \* their names without the prefix of the ecosystem
  Columns,       \* the columns such a table may have
  Ids,           \* identifiers of rows
  Ecosystems,    \* ecosystems; 1 is the first one
  Values,        \* values of a column
  WhereColumns,  \* columns other than id that contracts address rows by
  ManyRows,      \* TRUE: an update may address several rows at once
  Rekey,         \* TRUE: contracts replace the public key of a wallet
  StrayKeys,     \* TRUE: keys are inserted for ecosystems yet to be created
  BatchSize,     \* blocks played in one database transaction
  MaxRecords,    \* bound on the number of records in rollback_tx
  MaxBlocks,     \* bound on the length of the chain
  NoTable, NoData, Absent   \* model values

\* The column "columns" of 1_tables: the columns of a table, each with the
\* condition of its updates.
ColumnLists == UNION {[S -> 0..9] : S \in SUBSET Columns}

ASSUME RowAssumption ==
  /\ Ids \subseteq Nat /\ Values \subseteq 0..9
  /\ Ecosystems \subseteq Nat /\ 1 \in Ecosystems
  /\ WhereColumns \subseteq Columns /\ "pub" \in Columns /\ "id" \notin Columns
  /\ ManyRows \in BOOLEAN /\ Rekey \in BOOLEAN /\ StrayKeys \in BOOLEAN
  /\ BatchSize \in Nat \ {0} /\ MaxRecords \in Nat /\ MaxBlocks \in Nat
  /\ UserTables \cap {"keys", "tables", "ecosystems"} = {}
  /\ EcosystemOf \in [UserTables -> Ecosystems]
  /\ DOMAIN NameOf = UserTables
  /\ \A S \in SUBSET Columns : S # NoTable
  /\ NoData \notin [column : Columns \cup {"columns"}, value : Nat \cup {Absent} \cup ColumnLists]

VARIABLES
  work,       \* what the open database transaction sees
  committed,  \* what every other connection sees
  sp,         \* the savepoint of the transaction being played, if any
  mode        \* "idle", "block" (playing), "undo" (RollbackBlock)

vars == <<work, committed, sp, mode>>

KeyTables == {"keys"}                 \* FirstEcosystemTables with FALSE
SharedTables == {"keys", "tables"}    \* tables with a column ecosystem
Tables == SharedTables \cup {"ecosystems"} \cup UserTables

-----------------------------------------------------------------------------
(***************************************************************************)
(* Statements on a database.                                               *)
(***************************************************************************)

\* INSERT of one row.
InsertRow(db, t, k, row) ==
  [db EXCEPT !.rows[t] = [x \in DOMAIN @ \cup {k} |-> IF x = k THEN row ELSE @[x]]]

\* DELETE of the rows of a set.
DeleteRows(db, t, K) ==
  [db EXCEPT !.rows[t] = [x \in DOMAIN @ \ K |-> @[x]]]

\* UPDATE of one column: the new values of some rows.
UpdateRows(db, t, c, new) ==
  [db EXCEPT !.rows[t] =
     [x \in DOMAIN @ |-> IF x \in DOMAIN new THEN [@[x] EXCEPT ![c] = new[x]] ELSE @[x]]]

\* CREATE TABLE and DROP TABLE.
CreateSQL(db, t, cols) == [db EXCEPT !.schema[t] = cols]
DropSQL(db, t) ==
  [schema |-> [db.schema EXCEPT ![t] = NoTable], rows |-> [db.rows EXCEPT ![t] = <<>>]]

\* ALTER TABLE: the rows get the default value of the new column, and lose
\* the value of a dropped one.
AddColumnSQL(db, t, c) ==
  [schema |-> [db.schema EXCEPT ![t] = @ \cup {c}],
   rows   |-> [db.rows EXCEPT ![t] = [x \in DOMAIN @ |-> [@[x] EXCEPT ![c] = 0]]]]
DropColumnSQL(db, t, c) ==
  [schema |-> [db.schema EXCEPT ![t] = @ \ {c}],
   rows   |-> [db.rows EXCEPT ![t] = [x \in DOMAIN @ |-> [@[x] EXCEPT ![c] = Absent]]]]

\* A row of a table with columns cols, all of them given the value v; a key
\* with no public key yet.
Row(cols, v) == [c \in Columns |-> IF c \in cols THEN v ELSE Absent]
KeyRow(v) == [c \in Columns |-> IF c = "pub" THEN 0 ELSE v]

\* GetNextID: one more than the largest id, in whatever ecosystem.
NextID(db, t) ==
  LET ids == {k[2] : k \in DOMAIN db.rows[t]}
  IN  IF ids = {} THEN 1 ELSE 1 + CHOOSE i \in ids : \A j \in ids : j <= i

\* The rows of 1_tables with the ecosystem and the name of a table.
TableRows(db, t) ==
  {k \in DOMAIN db.rows["tables"] :
     k[1] = EcosystemOf[t] /\ db.rows["tables"][k].name = NameOf[t]}

\* WHERE of a row record: the id, in key tables together with the ecosystem.
Matches(db, t, key) ==
  {k \in DOMAIN db.rows[t] : k[2] = key[2] /\ (t \in KeyTables => k[1] = key[1])}

-----------------------------------------------------------------------------
(***************************************************************************)
(* rollback_tx.                                                            *)
(***************************************************************************)

\* The text in hex of the bytes of a column, which is none of Values.
Hex(v) == 10 + v

IsByteColumn(t, c) == t = "keys" /\ c = "pub"

\* The old value of a column as the record keeps it: bytes, if any, as hex.
SavedValue(t, c, v) == IF IsByteColumn(t, c) /\ v # 0 THEN Hex(v) ELSE v

\* rollbackUpdatedRow writes decode(BinToHex(v)) to a column of bytes, that is
\* the text of the record itself.
RestoredValue(t, c, v) == v

\* addRollback and SysRollback: one more record of the transaction being
\* played, and the database that it leads back from.
Logged(w, rec, newdb) == [w EXCEPT !.db = newdb, !.log = Append(@, rec)]

SysRecord(type, t, data) == [type |-> type, table |-> t, data |-> data]

\* sc.insert: the row and a record without data.
insert(w, t, k, row) ==
  Logged(w, [type |-> "row", table |-> t, key |-> k, data |-> NoData],
         InsertRow(w.db, t, k, row))

\* sc.update of some rows: the record holds the id and the old column of the one
\* row that SELECT ... returned first, k.
update(w, t, k, c, new) ==
  Logged(w, [type |-> "row", table |-> t, key |-> k,
             data |-> [column |-> c, value |-> SavedValue(t, c, w.db.rows[t][k][c])]],
         UpdateRows(w.db, t, c, new))

\* A statement of the undo that the database refuses.  The transaction is
\* aborted then, and RollbackBlock returns the error of the next statement.
UndoFails(db, rec) ==
  CASE rec.type = "NewTable"     -> db.schema[rec.table] = NoTable
    [] rec.type = "NewColumn"    -> \/ db.schema[rec.table] = NoTable
                                    \/ rec.data \notin db.schema[rec.table]
    [] rec.type = "DeleteColumn" -> \/ db.schema[rec.table] = NoTable
                                    \/ rec.data \in db.schema[rec.table]
    [] rec.type = "DeleteTable"  -> db.schema[rec.table] # NoTable
    [] OTHER                     -> FALSE

\* rollbackUpdatedRow and rollbackInsertedRow.
UndoRow(db, rec) ==
  LET K == Matches(db, rec.table, rec.key)
      restored == RestoredValue(rec.table, rec.data.column, rec.data.value)
  IN  IF rec.data = NoData
        THEN DeleteRows(db, rec.table, K)
        ELSE UpdateRows(db, rec.table, rec.data.column, [k \in K |-> restored])

\* SysRollbackEcosystem deletes the rows of the ecosystem in every shared table.
UndoEcosystem(db, e) ==
  [db EXCEPT !.rows = [t \in Tables |->
     IF t \in SharedTables
       THEN [k \in {x \in DOMAIN @[t] : x[1] # e} |-> @[t][k]]
       ELSE @[t]]]

\* SysRollbackDeleteTable: the table with the columns of the record, and its
\* row of 1_tables.
UndoDeleteTable(db, rec) ==
  InsertRow(CreateSQL(db, rec.table, rec.data.cols), "tables", rec.data.key, rec.data.row)

\* rollbackTransaction, one record.
Undo(db, rec) ==
  CASE rec.type = "row"          -> UndoRow(db, rec)
    [] rec.type = "NewTable"     -> DropSQL(db, rec.table)
    [] rec.type = "NewColumn"    -> DropColumnSQL(db, rec.table, rec.data)
    [] rec.type = "DeleteColumn" -> AddColumnSQL(db, rec.table, rec.data)
    [] rec.type = "DeleteTable"  -> UndoDeleteTable(db, rec)
    [] rec.type = "NewEcosystem" -> UndoEcosystem(db, rec.data)

-----------------------------------------------------------------------------
(***************************************************************************)
(* What contracts do while a block is played.                              *)
(***************************************************************************)

\* A step of the transaction being played: w is what it makes of work.
Played(w) ==
  /\ mode = "block"
  /\ Len(w.log) <= MaxRecords
  /\ work' = w
  /\ UNCHANGED <<committed, sp, mode>>

Exists(db, e) == <<0, e>> \in DOMAIN db.rows["ecosystems"]

\* DBInsert of a key, for the ecosystem that the contract gives.
InsertKey(e, id, v) ==
  /\ Exists(work.db, e) \/ StrayKeys
  /\ <<e, id>> \notin DOMAIN work.db.rows["keys"]
  /\ Played(insert(work, "keys", <<e, id>>, KeyRow(v)))

\* NewMoney: a key of the ecosystem of the transaction, with the first amount.
NewMoney(e, id, v) ==
  /\ Exists(work.db, e)
  /\ <<e, id>> \notin DOMAIN work.db.rows["keys"]
  /\ Played(insert(work, "keys", <<e, id>>, KeyRow(v)))

\* DBInsert in a table of the contracts: the id is the next one.
DBInsert(t, v) ==
  /\ work.db.schema[t] # NoTable
  /\ NextID(work.db, t) \in Ids
  /\ Played(insert(work, t, <<0, NextID(work.db, t)>>, Row(work.db.schema[t], v)))

\* sc.update: the rows with the id, in a key table those of the ecosystem; or
\* the rows with a value in another column.
Where(db, t, e, column, value) ==
  {k \in DOMAIN db.rows[t] :
     /\ t \in KeyTables => k[1] = e
     /\ IF column = "id" THEN k[2] = value ELSE db.rows[t][k][column] = value}

\* DBUpdateExt: the new value of a column is given ("set"), or added ("+").
DBUpdateExt(t, e, column, value, c, kind, v) ==
  LET K == Where(work.db, t, e, column, value)
      new == [k \in K |-> IF kind = "+" THEN work.db.rows[t][k][c] + v ELSE v]
  IN  /\ t \in UserTables => work.db.schema[t] # NoTable /\ {c, column} \subseteq work.db.schema[t] \cup {"id"}
      /\ ManyRows \/ \A k, l \in K : k = l
      /\ kind = "+" => c # "pub" /\ \A k \in K : work.db.rows[t][k][c] + v \in Values
      /\ IsByteColumn(t, c) => Rekey \/ \A k \in K : work.db.rows[t][k][c] = 0
      /\ \E k \in K : Played(update(work, t, k, c, new))

\* SetPubKey addresses 1_keys, so it changes the key of ecosystem 1.
SetPubKey(id, v) ==
  LET K == Where(work.db, "keys", 1, "id", id)
  IN  \E k \in K :
        /\ Rekey \/ work.db.rows["keys"][k]["pub"] = 0
        /\ Played(update(work, "keys", k, "pub", [x \in K |-> v]))

\* CreateTable: the table, its row of 1_tables and a record for each.  IsTable
\* asks another connection, but a second CREATE TABLE is refused anyway.
CreateTable(t, cols) ==
  LET id == NextID(work.db, "tables")
      w  == insert(work, "tables", <<EcosystemOf[t], id>>,
                   [name |-> NameOf[t], columns |-> [c \in cols |-> 0]])
  IN  /\ Exists(work.db, EcosystemOf[t])
      /\ committed.db.schema[t] = NoTable
      /\ work.db.schema[t] = NoTable
      /\ Played(Logged(w, SysRecord("NewTable", t, NoData), CreateSQL(w.db, t, cols)))

\* CreateColumn: the column, the new list of columns in 1_tables, the record.
CreateColumn(t, c) ==
  /\ work.db.schema[t] # NoTable
  /\ c \notin work.db.schema[t]
  /\ \E k \in TableRows(work.db, t) :
       LET old == work.db.rows["tables"][k].columns
           new == [x \in DOMAIN old \cup {c} |-> IF x = c THEN 0 ELSE old[x]]
           w == update(work, "tables", k, "columns", [x \in {k} |-> new])
       IN  Played(Logged(w, SysRecord("NewColumn", t, c), AddColumnSQL(w.db, t, c)))

\* DelColumn: of an empty table; the type of the column is asked of another
\* connection, so a column of this database transaction is not found.
DelColumn(t, c) ==
  /\ work.db.schema[t] # NoTable
  /\ DOMAIN work.db.rows[t] = {}
  /\ committed.db.schema[t] # NoTable /\ c \in committed.db.schema[t]
  /\ c \in work.db.schema[t]
  /\ \E k \in TableRows(work.db, t) :
       LET old == work.db.rows["tables"][k].columns
           w == update(work, "tables", k, "columns", [x \in {k} |-> [y \in DOMAIN old \ {c} |-> old[y]]])
       IN  /\ c \in DOMAIN old
           /\ Played(Logged(w, SysRecord("DeleteColumn", t, c), DropColumnSQL(w.db, t, c)))

\* GetAllColumnTypes asks another connection for the columns of a table.
GetAllColumnTypes(t) ==
  IF committed.db.schema[t] = NoTable THEN {} ELSE committed.db.schema[t]

\* DelTable: of an empty table, with its row of 1_tables; one record keeps both.
DelTable(t) ==
  /\ work.db.schema[t] # NoTable
  /\ DOMAIN work.db.rows[t] = {}
  /\ \E k \in TableRows(work.db, t) :
       Played(Logged(work,
         SysRecord("DeleteTable", t,
           [key |-> k, row |-> work.db.rows["tables"][k], cols |-> GetAllColumnTypes(t)]),
         DropSQL(DeleteRows(work.db, "tables", {k}), t)))

\* PermColumn: the columns of a committed row of 1_tables with the name, in any
\* ecosystem, written to all the rows with the name.
PermColumn(t, c, v) ==
  LET Named(db) == {k \in DOMAIN db.rows["tables"] : db.rows["tables"][k].name = NameOf[t]}
      K == Named(work.db)
  IN  \E from \in Named(committed.db), k \in K :
        LET read == committed.db.rows["tables"][from].columns
            new == [x \in DOMAIN read \cup {c} |-> IF x = c THEN v ELSE read[x]]
        IN  Played(update(work, "tables", k, "columns", [x \in K |-> new]))

\* CreateEcosystem: the schema puts a guest key without a record; then the
\* record of the ecosystem, the key of the founder and the row of 1_ecosystems.
CreateEcosystem(founder, guest) ==
  LET e  == NextID(work.db, "ecosystems")
      w1 == Logged(work, SysRecord("NewEcosystem", "keys", e),
                   InsertRow(work.db, "keys", <<e, guest>>, Row(Columns, 0)))
      w2 == insert(w1, "keys", <<e, founder>>, Row(Columns, 0))
  IN  /\ e \in Ecosystems
      /\ founder # guest
      /\ <<e, guest>> \notin DOMAIN work.db.rows["keys"]
      /\ <<e, founder>> \notin DOMAIN work.db.rows["keys"]
      /\ Played(insert(w2, "ecosystems", <<0, e>>, Row(Columns, 0)))

-----------------------------------------------------------------------------
(***************************************************************************)
(* Blocks: played, committed and rolled back.                              *)
(***************************************************************************)

\* StartTransaction before the first block, or the next block of a batch.
BeginBlock ==
  /\ \/ mode = "idle"
     \/ mode = "next" /\ Len(work.chain) - Len(committed.chain) < BatchSize
  /\ Len(work.chain) < MaxBlocks
  /\ mode' = "block"
  /\ sp' = work
  /\ work' = [work EXCEPT !.chain = Append(@, [start |-> Len(work.log), db |-> work.db])]
  /\ UNCHANGED committed

\* The next transaction of the block: a new savepoint.
ReleaseSavepoint ==
  /\ mode = "block" /\ sp.log # work.log
  /\ sp' = work
  /\ UNCHANGED <<work, committed, mode>>

\* The transaction fails, by itself or on a limit: RollbackSavepoint.
RollbackSavepoint ==
  /\ mode = "block" /\ sp.log # work.log
  /\ work' = [sp EXCEPT !.chain = work.chain]
  /\ UNCHANGED <<committed, sp, mode>>

EndBlock ==
  /\ mode = "block"
  /\ mode' = "next"
  /\ sp' = committed
  /\ UNCHANGED <<work, committed>>

\* InsertIntoBlockchain and Commit.
Commit ==
  /\ mode = "next"
  /\ committed' = work
  /\ sp' = work
  /\ mode' = "idle"
  /\ UNCHANGED work

\* A crash, or an error that makes PlaySafe or RollbackBlock call Rollback.
Rollback ==
  /\ mode # "idle"
  /\ work' = committed
  /\ sp' = committed
  /\ mode' = "idle"
  /\ UNCHANGED committed

\* RollbackBlock of the last block.
BeginRollback ==
  /\ mode = "idle" /\ work.chain # <<>>
  /\ mode' = "undo"
  /\ UNCHANGED <<work, committed, sp>>

LastBlock == work.chain[Len(work.chain)]

\* A slip: the records of the block are read in the order they were written.
FirstRecord == LastBlock.start + 1

\* ORDER BY ID DESC, the transactions of the block from the last one.
NextRecord == Len(work.log)

UndoRecord ==
  /\ mode = "undo" /\ Len(work.log) > LastBlock.start
  /\ LET i == NextRecord
     IN  /\ ~UndoFails(work.db, work.log[i])
         /\ work' = [work EXCEPT !.db = Undo(@, work.log[i]),
                                 !.log = SubSeq(@, 1, i - 1) \o SubSeq(@, i + 1, Len(@))]
  /\ UNCHANGED <<committed, sp, mode>>

\* DeleteById and Commit, once all the transactions are undone.
CommitRollback ==
  /\ mode = "undo" /\ Len(work.log) = LastBlock.start
  /\ work' = [work EXCEPT !.chain = SubSeq(@, 1, Len(@) - 1)]
  /\ committed' = work'
  /\ sp' = work'
  /\ mode' = "idle"

-----------------------------------------------------------------------------

\* A chain without blocks, the first ecosystem and no table of contracts.
EmptyDB ==
  [schema |-> [t \in UserTables |-> NoTable],
   rows   |-> [t \in Tables |->
                 IF t = "ecosystems" THEN [k \in {<<0, 1>>} |-> Row(Columns, 0)] ELSE <<>>]]

Init ==
  /\ work = [db |-> EmptyDB, log |-> <<>>, chain |-> <<>>]
  /\ committed = work
  /\ sp = work
  /\ mode = "idle"

Write ==
  \/ \E e \in Ecosystems, id \in Ids, v \in Values : InsertKey(e, id, v)
  \/ \E e \in Ecosystems, id \in Ids, v \in Values : NewMoney(e, id, v)
  \/ \E t \in UserTables, v \in Values : DBInsert(t, v)
  \/ \E t \in UserTables \cup {"keys"}, e \in Ecosystems, id \in Ids, c \in Columns,
        kind \in {"set", "+"}, v \in Values : DBUpdateExt(t, e, "id", id, c, kind, v)
  \/ \E t \in UserTables \cup {"keys"}, e \in Ecosystems, w \in WhereColumns, x \in Values,
        c \in Columns, v \in Values : DBUpdateExt(t, e, w, x, c, "set", v)
  \/ \E id \in Ids, v \in Values : SetPubKey(id, v)

Alter ==
  \/ \E t \in UserTables, cols \in SUBSET Columns : CreateTable(t, cols)
  \/ \E t \in UserTables, c \in Columns : CreateColumn(t, c) \/ DelColumn(t, c)
  \/ \E t \in UserTables : DelTable(t)
  \/ \E t \in UserTables, c \in Columns, v \in Values : PermColumn(t, c, v)
  \/ \E founder, guest \in Ids : CreateEcosystem(founder, guest)

Next ==
  \/ Write \/ Alter
  \/ BeginBlock \/ ReleaseSavepoint \/ RollbackSavepoint \/ EndBlock
  \/ Commit \/ Rollback
  \/ BeginRollback \/ UndoRecord \/ CommitRollback

Spec == Init /\ [][Next]_vars

-----------------------------------------------------------------------------
\* The chain as a stack of databases.
Chain == INSTANCE UndoStack WITH
  state <- committed.db,
  past  <- [i \in 1..Len(committed.chain) |-> committed.chain[i].db]

\* A rollback of the last block restores exactly the database that was there
\* before the block, or leaves everything as it is (RollbackBlock,
\* rollbackTransaction): the database with its log is a stack of databases.
RollbackIsExact == Chain!Spec

=============================================================================
