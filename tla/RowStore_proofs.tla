-------------------------- MODULE RowStore_proofs --------------------------
(***************************************************************************)
(* The rollback of a block is exact: RowStore implements UndoStack.        *)
(*                                                                         *)
(* The conditions are those under which one record is enough: a write that *)
(* the log keeps one record of changes one row, a wallet is given its key  *)
(* once, keys are only put into ecosystems there are, and a database       *)
(* transaction holds one block, so that what another connection tells of   *)
(* the schema is the schema before the block.                              *)
(*                                                                         *)
(* The argument: there is a history, the database after each record of     *)
(* rollback_tx, and undoing a record leads from one database of it to the  *)
(* one before.  That is so for the rows; the columns of a table that the   *)
(* block changed and then dropped are read from before the block, and each *)
(* column that the undo gets wrong there (Explained) is put right by a     *)
(* record further down, before the first record of the block.              *)
(***************************************************************************)
EXTENDS RowStore, WellFoundedInduction, TLAPS

\* The conditions of the theorems.
Exact ==
  /\ ~ManyRows /\ ~Rekey /\ ~StrayKeys /\ BatchSize = 1
  /\ \A t, u \in UserTables : NameOf[t] = NameOf[u] => t = u

-----------------------------------------------------------------------------
(***************************************************************************)
(* The databases that playing blocks leads to.                             *)
(***************************************************************************)

Names == {NameOf[t] : t \in UserTables}
TableEntries == [name : Names, columns : ColumnLists]
PlainRows == [Columns -> Nat \cup {Absent}]
RowsOf(t) == IF t = "tables" THEN TableEntries ELSE PlainRows

\* The columns of a table, if it is there, and the rows of a table.
ColumnSets == (SUBSET Columns) \cup {NoTable}
IsRows(t, R) == R \in [DOMAIN R -> RowsOf(t)] /\ DOMAIN R \in SUBSET (Nat \X Nat)

DBType(db) ==
  /\ db = [schema |-> db.schema, rows |-> db.rows]
  /\ db.schema \in [UserTables -> ColumnSets]
  /\ db.rows = [t \in Tables |-> db.rows[t]]
  /\ \A t \in Tables : IsRows(t, db.rows[t])

\* Rows are identified as the records of rollback_tx identify them, and the
\* ids in use are below some number.
KeysInv(db) ==
  /\ \A t \in Tables \ {"keys"} : \A k, l \in DOMAIN db.rows[t] : k[2] = l[2] => k = l
  /\ \A t \in UserTables \cup {"ecosystems"} : \A k \in DOMAIN db.rows[t] : k[1] = 0
  /\ \A t \in SharedTables : \A k \in DOMAIN db.rows[t] : Exists(db, k[1])
  /\ \A t \in Tables \ {"keys"} : \E n \in Nat : \A k \in DOMAIN db.rows[t] : k[2] <= n

\* A table has one row in 1_tables, no rows unless it is there, and in its rows
\* no values but those of its columns.
SchemaInv(db) ==
  /\ \A k, l \in DOMAIN db.rows["tables"] :
       db.rows["tables"][k].name = db.rows["tables"][l].name => k = l
  /\ \A t \in UserTables :
       /\ db.schema[t] = NoTable =>
            /\ DOMAIN db.rows[t] = {}
            /\ \A k \in DOMAIN db.rows["tables"] : db.rows["tables"][k].name # NameOf[t]
       /\ db.schema[t] # NoTable =>
            \A k \in DOMAIN db.rows[t], c \in Columns \ db.schema[t] : db.rows[t][k][c] = Absent

DBInv(db) == DBType(db) /\ KeysInv(db) /\ SchemaInv(db)

-----------------------------------------------------------------------------
(***************************************************************************)
(* The history of a log.                                                   *)
(***************************************************************************)

\* The columns of a table that another connection sees.
ColumnsOf(schema, t) == IF schema[t] = NoTable THEN {} ELSE schema[t]

\* A record that creates or drops the column c of t, or creates t.
Touches(rec, t, c) ==
  \/ rec.type = "NewTable" /\ rec.table = t
  \/ rec.type \in {"NewColumn", "DeleteColumn"} /\ rec.table = t /\ rec.data = c

\* Column c of t is in one set and not in the other, and a record between n
\* and m is about it.
Touched(log, n, m, t, c) == \E j \in (n + 1)..m : Touches(log[j], t, c)
Explained(X, Y, log, n, m, t) ==
  \A c \in Columns : ~(c \in X <=> c \in Y) => Touched(log, n, m, t, c)

\* What a record says of the schema before and after it.
SchemaStep(old, rec, new) ==
  CASE rec.type = "row"          -> new = old
    [] rec.type = "NewEcosystem" -> new = old
    [] rec.type = "NewTable"     -> /\ rec.table \in UserTables
                                    /\ new[rec.table] # NoTable
                                    /\ old = [new EXCEPT ![rec.table] = NoTable]
    [] rec.type = "NewColumn"    -> /\ rec.table \in UserTables
                                    /\ new[rec.table] # NoTable
                                    /\ rec.data \in new[rec.table]
                                    /\ old = [new EXCEPT ![rec.table] = @ \ {rec.data}]
    [] rec.type = "DeleteColumn" -> /\ rec.table \in UserTables
                                    /\ new[rec.table] # NoTable
                                    /\ rec.data \notin new[rec.table]
                                    /\ rec.data \in Columns
                                    /\ old = [new EXCEPT ![rec.table] = @ \cup {rec.data}]
    [] rec.type = "DeleteTable"  -> /\ rec.table \in UserTables
                                    /\ new[rec.table] = NoTable
                                    /\ old[rec.table] # NoTable
                                    /\ rec.data.cols \in SUBSET Columns
                                    /\ old = [new EXCEPT ![rec.table] = old[rec.table]]
    [] OTHER                     -> FALSE

\* A record leads back from a database to the one before it: exactly so for
\* the rows.
LeadsBack(old, rec, new) ==
  /\ Undo(new, rec).rows = old.rows
  /\ SchemaStep(old.schema, rec, new.schema)

IsSeq(s) == \E S : s \in Seq(S)

\* D is the history of a log and of the chain whose blocks begin in it.
History(D, db, log, chain) ==
  /\ IsSeq(log) /\ IsSeq(chain)
  /\ D[Len(log)] = db
  /\ \A i \in 0..Len(log) : DBType(D[i])
  /\ \A i \in 1..Len(log) : LeadsBack(D[i - 1], log[i], D[i])
  /\ \A b \in 1..Len(chain) :
       /\ chain[b].start \in 0..Len(log)
       /\ D[chain[b].start] = chain[b].db
       /\ DBInv(chain[b].db)
  /\ \A b, c \in 1..Len(chain) : b <= c => chain[b].start <= chain[c].start
  /\ \A i \in 1..Len(log), b \in 1..Len(chain) :
       log[i].type = "DeleteTable" /\ chain[b].start < i =>
         Explained(log[i].data.cols, D[i - 1].schema[log[i].table],
                   log, chain[b].start, i - 1, log[i].table)

\* A database and a log while the block after cdb is played; the log had n
\* records then.
Playing(db, log, chain, cdb, n) ==
  /\ \E D : History(D, db, log, chain)
  /\ n \in 0..Len(log)
  /\ \A b \in 1..Len(chain) : chain[b].start <= n
  /\ \A t \in UserTables :
       db.schema[t] # NoTable =>
         Explained(ColumnsOf(cdb.schema, t), db.schema[t], log, n, Len(log), t)

\* A database on the way back to the one before the block: it has the rows of
\* the history.
Undone(db, true, log, n) ==
  /\ db = [schema |-> db.schema, rows |-> true.rows]
  /\ db.schema \in [UserTables -> ColumnSets]
  /\ \A t \in UserTables :
       /\ db.schema[t] = NoTable <=> true.schema[t] = NoTable
       /\ db.schema[t] # NoTable =>
            Explained(db.schema[t], true.schema[t], log, n, Len(log), t)

-----------------------------------------------------------------------------
(***************************************************************************)
(* The invariant.                                                          *)
(***************************************************************************)

IsState(x) == x = [db |-> x.db, log |-> x.log, chain |-> x.chain]

CommittedInv ==
  /\ IsState(committed) /\ DBInv(committed.db)
  /\ \E D : History(D, committed.db, committed.log, committed.chain)

\* The chain with the block being played.
NewChain == Append(committed.chain, [start |-> Len(committed.log), db |-> committed.db])

PlayInv ==
  /\ mode \in {"block", "next"} =>
       /\ work.chain = NewChain
       /\ DBInv(work.db)
       /\ Playing(work.db, work.log, NewChain, committed.db, Len(committed.log))
  /\ mode = "block" =>
       /\ DBInv(sp.db)
       /\ Playing(sp.db, sp.log, NewChain, committed.db, Len(committed.log))

UndoInv ==
  mode = "undo" =>
    /\ work.chain = committed.chain /\ Len(work.chain) > 0
    /\ IsSeq(work.log) /\ Len(work.log) \in LastBlock.start..Len(committed.log)
    /\ \A i \in 1..Len(work.log) : work.log[i] = committed.log[i]
    /\ \E D : /\ History(D, committed.db, committed.log, committed.chain)
              /\ Undone(work.db, D[Len(work.log)], work.log, LastBlock.start)

RowInv ==
  /\ IsState(work) /\ IsState(sp)
  /\ mode \in {"idle", "block", "next", "undo"}
  /\ mode = "idle" => work = committed
  /\ CommittedInv /\ PlayInv /\ UndoInv

-----------------------------------------------------------------------------
(***************************************************************************)
(* Sequences, and the statements on a database.                            *)
(***************************************************************************)

LEMMA AppendFacts ==
  ASSUME NEW s, IsSeq(s), NEW e
  PROVE  /\ IsSeq(Append(s, e))
         /\ Len(s) \in Nat /\ Len(Append(s, e)) = Len(s) + 1
         /\ \A i \in 1..Len(s) : Append(s, e)[i] = s[i]
         /\ Append(s, e)[Len(s) + 1] = e
<1>1. PICK S : s \in Seq(S)
  BY DEF IsSeq
<1> DEFINE T == S \cup {e}
<1>2. s \in Seq(T)
  BY <1>1
<1>3. Append(s, e) \in Seq(T)
  BY <1>2
<1> QED
  BY <1>2, <1>3 DEF IsSeq

\* Taking the last element of a sequence away.
LEMMA CutFacts ==
  ASSUME NEW s, IsSeq(s), Len(s) > 0,
         NEW r, r = SubSeq(s, 1, Len(s) - 1) \o SubSeq(s, Len(s) + 1, Len(s))
  PROVE  /\ IsSeq(r) /\ Len(r) = Len(s) - 1
         /\ \A i \in 1..Len(r) : r[i] = s[i]
<1>1. PICK S : s \in Seq(S)
  BY DEF IsSeq
<1>2. /\ SubSeq(s, Len(s) + 1, Len(s)) \in Seq(S)
      /\ Len(SubSeq(s, Len(s) + 1, Len(s))) = 0
  BY <1>1
<1>3. /\ SubSeq(s, 1, Len(s) - 1) \in Seq(S)
      /\ Len(SubSeq(s, 1, Len(s) - 1)) = Len(s) - 1
      /\ \A i \in 1..(Len(s) - 1) : SubSeq(s, 1, Len(s) - 1)[i] = s[i]
  <2> DEFINE n == Len(s) - 1
  <2>1. n \in 0..Len(s) /\ Len(s) \in Nat
    BY <1>1
  <2> HIDE DEF n
  <2>2. /\ SubSeq(s, 1, n) \in Seq(S)
        /\ Len(SubSeq(s, 1, n)) = n
        /\ \A i \in 1..n : SubSeq(s, 1, n)[i] = s[i]
    BY <1>1, <2>1
  <2> QED
    BY <2>2 DEF n
<1>4. r \in Seq(S)
  BY <1>2, <1>3
<1> QED
  BY <1>1, <1>2, <1>3, <1>4 DEF IsSeq

LEMMA PrefixFacts ==
  ASSUME NEW s, IsSeq(s), NEW n \in 0..Len(s)
  PROVE  /\ IsSeq(SubSeq(s, 1, n)) /\ Len(SubSeq(s, 1, n)) = n
         /\ \A i \in 1..n : SubSeq(s, 1, n)[i] = s[i]
<1>1. PICK S : s \in Seq(S)
  BY DEF IsSeq
<1> QED
  BY <1>1 DEF IsSeq

\* A function of an empty set is the empty sequence.
LEMMA EmptyFunction ==
  ASSUME NEW f, NEW R, f \in [DOMAIN f -> R], DOMAIN f = {}
  PROVE  f = << >>
  OBVIOUS

\* The rows of one table after a statement.
Inserted(R, k, row) == [x \in DOMAIN R \cup {k} |-> IF x = k THEN row ELSE R[x]]
Deleted(R, K) == [x \in DOMAIN R \ K |-> R[x]]
Updated(R, c, f) == [x \in DOMAIN R |-> IF x \in DOMAIN f THEN [R[x] EXCEPT ![c] = f[x]] ELSE R[x]]

\* A database with other rows in one table, and what the statements make of it.
WithRows(db, t, N) == [schema |-> db.schema, rows |-> [db.rows EXCEPT ![t] = N]]

LEMMA InsertParts ==
  ASSUME NEW db, DBType(db), NEW t \in Tables, NEW k, NEW row
  PROVE  InsertRow(db, t, k, row) = WithRows(db, t, Inserted(db.rows[t], k, row))
<1>1. /\ db = [schema |-> db.schema, rows |-> db.rows]
      /\ db.rows = [u \in Tables |-> db.rows[u]]
  BY DEF DBType
<1> QED
  BY <1>1 DEF InsertRow, Inserted, WithRows

LEMMA DeleteParts ==
  ASSUME NEW db, DBType(db), NEW t \in Tables, NEW K
  PROVE  DeleteRows(db, t, K) = WithRows(db, t, Deleted(db.rows[t], K))
<1>1. /\ db = [schema |-> db.schema, rows |-> db.rows]
      /\ db.rows = [u \in Tables |-> db.rows[u]]
  BY DEF DBType
<1> QED
  BY <1>1 DEF DeleteRows, Deleted, WithRows

LEMMA UpdateParts ==
  ASSUME NEW db, DBType(db), NEW t \in Tables, NEW c, NEW f
  PROVE  UpdateRows(db, t, c, f) = WithRows(db, t, Updated(db.rows[t], c, f))
<1>1. /\ db = [schema |-> db.schema, rows |-> db.rows]
      /\ db.rows = [u \in Tables |-> db.rows[u]]
  BY DEF DBType
<1> QED
  BY <1>1, SMTT(30) DEF UpdateRows, Updated, WithRows

LEMMA TypeOfRows ==
  ASSUME NEW db, DBType(db), NEW t \in Tables,
         NEW N, IsRows(t, N),
         NEW new, new = WithRows(db, t, N)
  PROVE  /\ DBType(new) /\ new.schema = db.schema
         /\ new.rows[t] = N
         /\ \A u \in Tables : u # t => new.rows[u] = db.rows[u]
         /\ WithRows(new, t, db.rows[t]).rows = db.rows
<1>1. /\ db = [schema |-> db.schema, rows |-> db.rows]
      /\ db.rows = [u \in Tables |-> db.rows[u]]
  BY DEF DBType
<1>2. /\ new.schema = db.schema /\ new.rows = [db.rows EXCEPT ![t] = N]
      /\ new = [schema |-> new.schema, rows |-> new.rows]
      /\ new.rows = [u \in Tables |-> new.rows[u]] /\ new.rows[t] = N
      /\ \A u \in Tables : u # t => new.rows[u] = db.rows[u]
  BY <1>1 DEF WithRows
<1>3. DBType(new)
  BY <1>2 DEF DBType
<1>4. WithRows(new, t, db.rows[t]).rows = db.rows
  BY <1>1, <1>2 DEF WithRows
<1> QED
  BY <1>2, <1>3, <1>4

-----------------------------------------------------------------------------
(***************************************************************************)
(* Histories: one record more, one block more, a record or a block less.   *)
(***************************************************************************)

LEMMA MoreIsExplained ==
  ASSUME NEW X, NEW Y, NEW t, NEW log, NEW log2,
         NEW n \in Nat, NEW m \in Nat, NEW n2 \in Nat, NEW m2 \in Nat,
         n2 <= n, m <= m2, \A i \in 1..m : log2[i] = log[i],
         Explained(X, Y, log, n, m, t)
  PROVE  Explained(X, Y, log2, n2, m2, t)
BY DEF Explained, Touched

LEMMA ExtendHistory ==
  ASSUME NEW D, NEW db, NEW log, NEW chain, NEW rec, NEW new,
         History(D, db, log, chain), DBType(new), LeadsBack(db, rec, new),
         rec.type = "DeleteTable" => \A b \in 1..Len(chain) :
           Explained(rec.data.cols, db.schema[rec.table], log, chain[b].start, Len(log), rec.table)
  PROVE  \E E : History(E, new, Append(log, rec), chain)
<1> DEFINE n == Len(log)
           E == [i \in 0..(n + 1) |-> IF i = n + 1 THEN new ELSE D[i]]
           log2 == Append(log, rec)
<1>1. IsSeq(log) /\ IsSeq(chain) /\ D[n] = db
  BY DEF History
<1>2. /\ n \in Nat /\ Len(log2) = n + 1 /\ IsSeq(log2) /\ log2[n + 1] = rec
      /\ \A i \in 1..n : log2[i] = log[i]
  BY <1>1, AppendFacts
<1>3. E[n + 1] = new /\ \A i \in 0..n : E[i] = D[i]
  BY <1>2
<1>4. Len(chain) \in Nat
  BY <1>1 DEF IsSeq
<1>5. /\ \A i \in 0..n : DBType(D[i])
      /\ \A i \in 1..n : LeadsBack(D[i - 1], log[i], D[i])
      /\ \A b \in 1..Len(chain) :
           /\ chain[b].start \in 0..n
           /\ D[chain[b].start] = chain[b].db
           /\ DBInv(chain[b].db)
      /\ \A b, c \in 1..Len(chain) : b <= c => chain[b].start <= chain[c].start
      /\ \A i \in 1..n, b \in 1..Len(chain) :
           log[i].type = "DeleteTable" /\ chain[b].start < i =>
             Explained(log[i].data.cols, D[i - 1].schema[log[i].table],
                       log, chain[b].start, i - 1, log[i].table)
  BY DEF History
<1> HIDE DEF n, E, log2
<1>6. \A i \in 0..(n + 1) : DBType(E[i])
  BY <1>2, <1>3, <1>5
<1>7. ASSUME NEW i \in 1..(n + 1) PROVE LeadsBack(E[i - 1], log2[i], E[i])
  <2>1. CASE i = n + 1
    BY <2>1, <1>1, <1>2, <1>3
  <2>2. CASE i \in 1..n
    <3>1. i - 1 \in 0..n /\ i \in 0..n
      BY <2>2, <1>2
    <3> QED
      BY <3>1, <2>2, <1>2, <1>3, <1>5
  <2> QED
    BY <2>1, <2>2, <1>2
<1>8. ASSUME NEW i \in 1..(n + 1), NEW b \in 1..Len(chain),
             log2[i].type = "DeleteTable", chain[b].start < i
      PROVE  Explained(log2[i].data.cols, E[i - 1].schema[log2[i].table],
                       log2, chain[b].start, i - 1, log2[i].table)
  <2>0. chain[b].start \in Nat
    BY <1>5, <1>2
  <2>1. CASE i = n + 1
    <3>1. Explained(rec.data.cols, db.schema[rec.table], log, chain[b].start, n, rec.table)
      BY <1>8, <2>1, <1>2 DEF n
    <3>2. Explained(rec.data.cols, db.schema[rec.table], log2, chain[b].start, n, rec.table)
      BY <3>1, <2>0, <1>2, MoreIsExplained
    <3> QED
      BY <3>2, <2>1, <1>1, <1>2, <1>3
  <2>2. CASE i \in 1..n
    <3>1. i - 1 \in 0..n /\ i - 1 \in Nat /\ \A j \in 1..(i - 1) : log2[j] = log[j]
      BY <2>2, <1>2
    <3>2. Explained(log[i].data.cols, D[i - 1].schema[log[i].table],
                       log, chain[b].start, i - 1, log[i].table)
      BY <1>5, <1>8, <2>2, <1>2
    <3>3. Explained(log[i].data.cols, D[i - 1].schema[log[i].table],
                       log2, chain[b].start, i - 1, log[i].table)
      BY <3>1, <3>2, <2>0, MoreIsExplained
    <3> QED
      BY <3>3, <3>1, <2>2, <1>2, <1>3
  <2> QED
    BY <2>1, <2>2, <1>2
<1>9. ASSUME NEW b \in 1..Len(chain)
      PROVE  /\ chain[b].start \in 0..(n + 1)
             /\ E[chain[b].start] = chain[b].db
             /\ DBInv(chain[b].db)
  BY <1>2, <1>3, <1>5
<1>10. History(E, new, log2, chain)
  BY <1>1, <1>2, <1>3, <1>5, <1>6, <1>7, <1>8, <1>9 DEF History
<1> QED
  BY <1>10 DEF log2

\* A block begins: the chain has one more start, at the end of the log.
LEMMA BlockBegins ==
  ASSUME NEW D, NEW db, NEW log, NEW chain, History(D, db, log, chain), DBInv(db)
  PROVE  History(D, db, log, Append(chain, [start |-> Len(log), db |-> db]))
<1> DEFINE blk == [start |-> Len(log), db |-> db]
           chain2 == Append(chain, blk)
           m == Len(chain)
<1>1. IsSeq(log) /\ IsSeq(chain) /\ D[Len(log)] = db
  BY DEF History
<1>2. /\ m \in Nat /\ Len(chain2) = m + 1 /\ IsSeq(chain2) /\ chain2[m + 1] = blk
      /\ \A i \in 1..m : chain2[i] = chain[i]
  BY <1>1, AppendFacts
<1>3. Len(log) \in Nat /\ blk.start = Len(log) /\ blk.db = db
  BY <1>1 DEF IsSeq
<1>5. /\ \A i \in 0..Len(log) : DBType(D[i])
      /\ \A i \in 1..Len(log) : LeadsBack(D[i - 1], log[i], D[i])
      /\ \A b \in 1..m :
           /\ chain[b].start \in 0..Len(log)
           /\ D[chain[b].start] = chain[b].db
           /\ DBInv(chain[b].db)
      /\ \A b, c \in 1..m : b <= c => chain[b].start <= chain[c].start
      /\ \A i \in 1..Len(log), b \in 1..m :
           log[i].type = "DeleteTable" /\ chain[b].start < i =>
             Explained(log[i].data.cols, D[i - 1].schema[log[i].table],
                       log, chain[b].start, i - 1, log[i].table)
  BY DEF History
<1> HIDE DEF blk, chain2, m
<1>6. ASSUME NEW b \in 1..(m + 1)
      PROVE  /\ chain2[b].start \in 0..Len(log)
             /\ D[chain2[b].start] = chain2[b].db
             /\ DBInv(chain2[b].db)
  BY <1>1, <1>2, <1>3, <1>5
<1>7. ASSUME NEW b \in 1..(m + 1), NEW c \in 1..(m + 1), b <= c
      PROVE  chain2[b].start <= chain2[c].start
  <2>1. CASE c = m + 1
    BY <2>1, <1>2, <1>3, <1>6
  <2>2. CASE c \in 1..m
    BY <2>2, <1>7, <1>2, <1>5
  <2> QED
    BY <2>1, <2>2, <1>2
<1>8. ASSUME NEW i \in 1..Len(log), NEW b \in 1..(m + 1),
             log[i].type = "DeleteTable", chain2[b].start < i
      PROVE  Explained(log[i].data.cols, D[i - 1].schema[log[i].table],
                       log, chain2[b].start, i - 1, log[i].table)
  <2>1. b \in 1..m
    BY <1>8, <1>2, <1>3
  <2> QED
    BY <2>1, <1>8, <1>2, <1>5
<1> HIDE <1>5
<1>9. History(D, db, log, chain2)
  BY <1>1, <1>2, <1>3, <1>5, <1>6, <1>7, <1>8 DEF History
<1> QED
  BY <1>9 DEF chain2, blk

\* The columns of a schema differ after a record only where the record says.
LEMMA SchemaStepTouches ==
  ASSUME NEW old \in [UserTables -> ColumnSets],
         NEW new \in [UserTables -> ColumnSets],
         NEW rec, SchemaStep(old, rec, new),
         NEW t \in UserTables, new[t] # NoTable, NEW c \in Columns
  PROVE  \/ Touches(rec, t, c)
         \/ old[t] # NoTable /\ (c \in old[t] <=> c \in new[t])
<1> DEFINE u == rec.table
<1>1. CASE rec.type = "row" \/ rec.type = "NewEcosystem"
  BY <1>1 DEF SchemaStep
<1>2. CASE rec.type = "NewTable"
  <2>1. u \in UserTables /\ old = [new EXCEPT ![u] = NoTable]
    BY <1>2 DEF SchemaStep
  <2> QED
    BY <1>2, <2>1 DEF Touches
<1>3. CASE rec.type = "NewColumn"
  <2>1. u \in UserTables /\ new[u] # NoTable /\ old = [new EXCEPT ![u] = @ \ {rec.data}]
    BY <1>3 DEF SchemaStep
  <2>2. CASE t = u
    <3>1. old[t] = new[t] \ {rec.data} /\ new[t] \in SUBSET Columns
      BY <2>1, <2>2 DEF ColumnSets
    <3>2. old[t] # NoTable
      BY <3>1, RowAssumption
    <3> QED
      BY <3>1, <3>2, <2>2, <1>3 DEF Touches
  <2> QED
    BY <2>1, <2>2
<1>4. CASE rec.type = "DeleteColumn"
  <2>1. /\ u \in UserTables /\ new[u] # NoTable /\ rec.data \in Columns
        /\ old = [new EXCEPT ![u] = @ \cup {rec.data}]
    BY <1>4 DEF SchemaStep
  <2>2. CASE t = u
    <3>1. old[t] = new[t] \cup {rec.data} /\ new[t] \in SUBSET Columns
      BY <2>1, <2>2 DEF ColumnSets
    <3>2. old[t] # NoTable
      BY <3>1, <2>1, RowAssumption
    <3> QED
      BY <3>1, <3>2, <2>2, <1>4 DEF Touches
  <2> QED
    BY <2>1, <2>2
<1>5. CASE rec.type = "DeleteTable"
  <2>1. u \in UserTables /\ new[u] = NoTable /\ old = [new EXCEPT ![u] = old[u]]
    BY <1>5 DEF SchemaStep
  <2> QED
    BY <2>1
<1> QED
  BY <1>1, <1>2, <1>3, <1>4, <1>5 DEF SchemaStep

\* One more record while a block is played.
LEMMA PlayRecord ==
  ASSUME NEW db, NEW log, NEW chain, NEW cdb, NEW n, NEW rec, NEW new,
         Playing(db, log, chain, cdb, n), DBType(new), LeadsBack(db, rec, new),
         rec.type = "DeleteTable" => rec.data.cols = ColumnsOf(cdb.schema, rec.table)
  PROVE  Playing(new, Append(log, rec), chain, cdb, n)
<1>1. PICK D : History(D, db, log, chain)
  BY DEF Playing
<1>2. /\ IsSeq(log) /\ IsSeq(chain) /\ DBType(D[Len(log)]) /\ D[Len(log)] = db
      /\ \A b \in 1..Len(chain) : chain[b].start \in 0..Len(log)
  <2>1. IsSeq(log) /\ IsSeq(chain) /\ D[Len(log)] = db
    BY <1>1 DEF History
  <2>2. Len(log) \in 0..Len(log)
    BY <2>1 DEF IsSeq
  <2> QED
    BY <1>1, <2>1, <2>2 DEF History
<1>3. DBType(db)
  BY <1>2
<1> DEFINE log2 == Append(log, rec)
<1>4. /\ Len(log) \in Nat /\ Len(log2) = Len(log) + 1 /\ log2[Len(log) + 1] = rec
      /\ \A i \in 1..Len(log) : log2[i] = log[i]
  BY <1>2, AppendFacts
<1> HIDE DEF log2
<1>5. /\ n \in 0..Len(log)
      /\ \A b \in 1..Len(chain) : chain[b].start <= n
      /\ \A t \in UserTables :
           db.schema[t] # NoTable =>
             Explained(ColumnsOf(cdb.schema, t), db.schema[t], log, n, Len(log), t)
  BY DEF Playing
<1>6. /\ db.schema \in [UserTables -> ColumnSets]
      /\ new.schema \in [UserTables -> ColumnSets]
      /\ SchemaStep(db.schema, rec, new.schema)
  BY <1>3 DEF DBType, LeadsBack
<1>7. ASSUME rec.type = "DeleteTable", NEW b \in 1..Len(chain)
      PROVE  Explained(rec.data.cols, db.schema[rec.table], log, chain[b].start, Len(log), rec.table)
  <2>1. rec.table \in UserTables /\ db.schema[rec.table] # NoTable
    BY <1>6, <1>7 DEF SchemaStep
  <2>2. Explained(rec.data.cols, db.schema[rec.table], log, n, Len(log), rec.table)
    BY <1>5, <1>7, <2>1
  <2>3. chain[b].start \in Nat /\ n \in Nat /\ chain[b].start <= n
    BY <1>2, <1>4, <1>5, <1>7
  <2> QED
    BY <2>2, <2>3, <1>4, MoreIsExplained
<1>8. \E E : History(E, new, log2, chain)
  BY <1>1, <1>7, ExtendHistory DEF log2
<1>9. ASSUME NEW t \in UserTables, new.schema[t] # NoTable
      PROVE  Explained(ColumnsOf(cdb.schema, t), new.schema[t], log2, n, Len(log2), t)
  <2> DEFINE X == ColumnsOf(cdb.schema, t)
  <2> HIDE DEF X
  <2> SUFFICES ASSUME NEW c \in Columns, ~(c \in X <=> c \in new.schema[t])
               PROVE  \E j \in (n + 1)..(Len(log) + 1) : Touches(log2[j], t, c)
    BY <1>4 DEF Explained, Touched, X
  <2>1. CASE Touches(rec, t, c)
    BY <2>1, <1>4, <1>5
  <2>2. CASE db.schema[t] # NoTable /\ (c \in db.schema[t] <=> c \in new.schema[t])
    <3>1. Explained(X, db.schema[t], log, n, Len(log), t)
      BY <2>2, <1>5 DEF X
    <3>2. ~(c \in X <=> c \in db.schema[t])
      BY <2>2
    <3>3. PICK j \in (n + 1)..Len(log) : Touches(log[j], t, c)
      BY <3>1, <3>2 DEF Explained, Touched
    <3> QED
      BY <3>3, <1>4, <1>5
  <2> QED
    BY <2>1, <2>2, <1>6, <1>9, SchemaStepTouches
<1>10. n \in 0..Len(log2)
  BY <1>4, <1>5
<1> QED
  BY <1>5, <1>8, <1>9, <1>10 DEF Playing, log2

\* A block less: the history up to its first record.
LEMMA BlockEnds ==
  ASSUME NEW D, NEW db, NEW log, NEW chain, History(D, db, log, chain), Len(chain) > 0,
         NEW last, last = chain[Len(chain)], NEW log2, IsSeq(log2),
         Len(log2) = last.start, \A i \in 1..Len(log2) : log2[i] = log[i]
  PROVE  History(D, last.db, log2, SubSeq(chain, 1, Len(chain) - 1))
<1> DEFINE m == Len(chain) - 1
           chain2 == SubSeq(chain, 1, m)
<1>1. IsSeq(log) /\ IsSeq(chain) /\ D[Len(log)] = db
  BY DEF History
<1>2. Len(log) \in Nat /\ Len(chain) \in Nat /\ m \in Nat /\ m \in 0..Len(chain) /\ Len(chain) = m + 1
  BY <1>1 DEF IsSeq
<1>3. /\ \A i \in 0..Len(log) : DBType(D[i])
      /\ \A i \in 1..Len(log) : LeadsBack(D[i - 1], log[i], D[i])
      /\ \A b \in 1..(m + 1) :
           /\ chain[b].start \in 0..Len(log)
           /\ D[chain[b].start] = chain[b].db
           /\ DBInv(chain[b].db)
      /\ \A b, c \in 1..(m + 1) : b <= c => chain[b].start <= chain[c].start
      /\ \A i \in 1..Len(log), b \in 1..(m + 1) :
           log[i].type = "DeleteTable" /\ chain[b].start < i =>
             Explained(log[i].data.cols, D[i - 1].schema[log[i].table],
                       log, chain[b].start, i - 1, log[i].table)
  BY <1>2 DEF History
<1>4. last = chain[m + 1]
  BY <1>2
<1> HIDE DEF m
<1>5. /\ IsSeq(chain2) /\ Len(chain2) = m
      /\ \A i \in 1..m : chain2[i] = chain[i]
  BY <1>1, <1>2, PrefixFacts
<1> HIDE DEF chain2
<1>6. /\ last.start \in 0..Len(log) /\ D[last.start] = last.db
      /\ \A b \in 1..m : chain[b].start <= last.start
  BY <1>2, <1>3, <1>4
<1>7. /\ \A i \in 0..Len(log2) : DBType(D[i])
      /\ \A i \in 1..Len(log2) : LeadsBack(D[i - 1], log2[i], D[i])
  BY <1>2, <1>3, <1>6
<1>8. ASSUME NEW b \in 1..m
      PROVE  /\ chain2[b].start \in 0..Len(log2)
             /\ D[chain2[b].start] = chain2[b].db
             /\ DBInv(chain2[b].db)
  BY <1>2, <1>3, <1>5, <1>6
<1>9. \A b, c \in 1..m : b <= c => chain2[b].start <= chain2[c].start
  BY <1>2, <1>3, <1>5
<1>10. ASSUME NEW i \in 1..Len(log2), NEW b \in 1..m,
             log2[i].type = "DeleteTable", chain2[b].start < i
      PROVE  Explained(log2[i].data.cols, D[i - 1].schema[log2[i].table],
                       log2, chain2[b].start, i - 1, log2[i].table)
  <2>1. /\ i \in 1..Len(log) /\ log2[i] = log[i] /\ i - 1 \in Nat
        /\ \A j \in 1..(i - 1) : log2[j] = log[j]
    BY <1>2, <1>6
  <2>2. chain2[b] = chain[b] /\ b \in 1..(m + 1) /\ chain[b].start \in Nat
    BY <1>2, <1>3, <1>5
  <2>3. Explained(log[i].data.cols, D[i - 1].schema[log[i].table],
                       log, chain[b].start, i - 1, log[i].table)
    BY <1>3, <1>10, <2>1, <2>2
  <2>4. Explained(log[i].data.cols, D[i - 1].schema[log[i].table],
                       log2, chain[b].start, i - 1, log[i].table)
    BY <2>1, <2>2, <2>3, MoreIsExplained
  <2> QED
    BY <2>1, <2>2, <2>4
<1>11. History(D, last.db, log2, chain2)
  BY <1>5, <1>6, <1>7, <1>8, <1>9, <1>10 DEF History
<1> QED
  BY <1>11 DEF chain2, m

-----------------------------------------------------------------------------
(***************************************************************************)
(* The way back.                                                           *)
(***************************************************************************)

\* The schema that undoing a record leaves.
UndoneSchema(schema, rec) ==
  CASE rec.type = "NewTable"     -> [schema EXCEPT ![rec.table] = NoTable]
    [] rec.type = "NewColumn"    -> [schema EXCEPT ![rec.table] = @ \ {rec.data}]
    [] rec.type = "DeleteColumn" -> [schema EXCEPT ![rec.table] = @ \cup {rec.data}]
    [] rec.type = "DeleteTable"  -> [schema EXCEPT ![rec.table] = rec.data.cols]
    [] OTHER                     -> schema

\* Undoing a record leaves a database, whose rows depend on the rows alone and
\* whose schema depends on the schema alone.
LEMMA UndoParts ==
  ASSUME NEW rec,
         rec.type \in {"row", "NewTable", "NewColumn", "DeleteColumn", "DeleteTable", "NewEcosystem"},
         NEW S, NEW S2, NEW R
  PROVE  LET u == Undo([schema |-> S, rows |-> R], rec)
         IN  u = [schema |-> UndoneSchema(S, rec),
                  rows |-> Undo([schema |-> S2, rows |-> R], rec).rows]
<1> DEFINE d == [schema |-> S, rows |-> R]
           e == [schema |-> S2, rows |-> R]
<1>1. CASE rec.type = "row"
  <2>1. Undo(d, rec) = UndoRow(d, rec) /\ Undo(e, rec) = UndoRow(e, rec) /\ UndoneSchema(S, rec) = S
    BY <1>1 DEF Undo, UndoneSchema
  <2>2. UndoRow(d, rec) = [schema |-> S, rows |-> UndoRow(e, rec).rows]
    <3>1. Matches(d, rec.table, rec.key) = Matches(e, rec.table, rec.key)
      BY DEF Matches
    <3> DEFINE K == Matches(e, rec.table, rec.key)
    <3> HIDE DEF K
    <3>2. CASE rec.data = NoData
      <4>1. UndoRow(d, rec) = DeleteRows(d, rec.table, K) /\ UndoRow(e, rec) = DeleteRows(e, rec.table, K)
        BY <3>1, <3>2 DEF UndoRow, K
      <4>2. DeleteRows(d, rec.table, K) = [schema |-> S, rows |-> DeleteRows(e, rec.table, K).rows]
        BY DEF DeleteRows
      <4> QED
        BY <4>1, <4>2
    <3>3. CASE rec.data # NoData
      <4> DEFINE f == [k \in K |-> RestoredValue(rec.table, rec.data.column, rec.data.value)]
                 c == rec.data.column
      <4>1. /\ UndoRow(d, rec) = UpdateRows(d, rec.table, c, f)
            /\ UndoRow(e, rec) = UpdateRows(e, rec.table, c, f)
        BY <3>1, <3>3 DEF UndoRow, K
      <4> HIDE DEF f, c
      <4>2. UpdateRows(d, rec.table, c, f) = [schema |-> S, rows |-> UpdateRows(e, rec.table, c, f).rows]
        BY DEF UpdateRows
      <4> QED
        BY <4>1, <4>2
    <3> QED
      BY <3>2, <3>3
  <2> QED
    BY <2>1, <2>2
<1>2. CASE rec.type = "NewTable"
  BY <1>2 DEF Undo, UndoneSchema, DropSQL
<1>3. CASE rec.type = "NewColumn"
  BY <1>3 DEF Undo, UndoneSchema, DropColumnSQL
<1>4. CASE rec.type = "DeleteColumn"
  BY <1>4 DEF Undo, UndoneSchema, AddColumnSQL
<1>5. CASE rec.type = "DeleteTable"
  BY <1>5 DEF Undo, UndoneSchema, UndoDeleteTable, InsertRow, CreateSQL
<1>6. CASE rec.type = "NewEcosystem"
  BY <1>6 DEF Undo, UndoneSchema, UndoEcosystem
<1> QED
  BY <1>1, <1>2, <1>3, <1>4, <1>5, <1>6

\* Undoing the last record of a log leads from the database on the way back to
\* the next one.
LEMMA UndoOne ==
  ASSUME NEW db, NEW new, NEW old, NEW log, NEW log2, NEW n \in Nat, NEW rec,
         Undone(db, new, log, n), DBType(new), DBType(old), LeadsBack(old, rec, new),
         IsSeq(log), Len(log) > n, rec = log[Len(log)],
         Len(log2) = Len(log) - 1, \A i \in 1..Len(log2) : log2[i] = log[i],
         rec.type = "DeleteTable" =>
           Explained(rec.data.cols, old.schema[rec.table], log, n, Len(log) - 1, rec.table)
  PROVE  Undone(Undo(db, rec), old, log2, n)
<1> DEFINE Schemas == [UserTables -> ColumnSets]
           s == UndoneSchema(db.schema, rec)
           m == Len(log) - 1
<1>0. m \in Nat /\ Len(log) = m + 1 /\ m >= n
  BY DEF IsSeq
<1>1. /\ db = [schema |-> db.schema, rows |-> new.rows] /\ db.schema \in Schemas
      /\ new = [schema |-> new.schema, rows |-> new.rows] /\ new.schema \in Schemas
      /\ old.schema \in Schemas
  BY DEF DBType, Undone
<1>2. SchemaStep(old.schema, rec, new.schema) /\ Undo(new, rec).rows = old.rows
  BY DEF LeadsBack
<1>3. rec.type \in {"row", "NewTable", "NewColumn", "DeleteColumn", "DeleteTable", "NewEcosystem"}
  BY <1>2 DEF SchemaStep
<1>4. Undo(db, rec) = [schema |-> s, rows |-> old.rows]
  BY <1>1, <1>2, <1>3, UndoParts
<1> HIDE DEF s, m
<1>5. /\ s \in Schemas
      /\ \A t \in UserTables :
           /\ s[t] = NoTable <=> old.schema[t] = NoTable
           /\ s[t] # NoTable =>
                \A c \in Columns : ~(c \in s[t] <=> c \in old.schema[t]) =>
                  \E j \in (n + 1)..m : Touches(log[j], t, c)
  <2> DEFINE d == db.schema
             e == new.schema
             o == old.schema
             u == rec.table
  <2>1. \A t \in UserTables :
          /\ d[t] = NoTable <=> e[t] = NoTable
          /\ d[t] # NoTable =>
               \A c \in Columns : ~(c \in d[t] <=> c \in e[t]) =>
                 \E j \in (n + 1)..(m + 1) : Touches(log[j], t, c)
    BY <1>0 DEF Undone, Explained, Touched
  <2>2. log[m + 1] = rec
    BY <1>0
  <2>3. d \in Schemas /\ e \in Schemas /\ o \in Schemas /\ SchemaStep(o, rec, e)
    BY <1>1, <1>2
  \* A difference that the record itself does not explain has an earlier one.
  <2>4. ASSUME NEW t \in UserTables, NEW c \in Columns, d[t] # NoTable,
               ~(c \in d[t] <=> c \in e[t]), ~Touches(rec, t, c)
        PROVE  \E j \in (n + 1)..m : Touches(log[j], t, c)
    <3>1. PICK j \in (n + 1)..(m + 1) : Touches(log[j], t, c)
      BY <2>1, <2>4
    <3>2. j # m + 1
      BY <3>1, <2>2, <2>4
    <3> QED
      BY <3>1, <3>2, <1>0
  <2>5. \A S \in SUBSET Columns : S # NoTable
    BY RowAssumption
  <2> HIDE DEF d, e, o
  <2>6. CASE rec.type \in {"row", "NewEcosystem"}
    <3>1. UndoneSchema(d, rec) = d /\ o = e /\ \A t, c : ~Touches(rec, t, c)
      BY <2>3, <2>6 DEF SchemaStep, UndoneSchema, Touches
    <3> QED
      BY <3>1, <2>1, <2>3, <2>4 DEF d, o, s, ColumnSets
  <2>7. CASE rec.type = "NewTable"
    <3>1. /\ UndoneSchema(d, rec) = [d EXCEPT ![u] = NoTable] /\ u \in UserTables
          /\ o = [e EXCEPT ![u] = NoTable] /\ \A t, c : Touches(rec, t, c) => t = u
      BY <2>3, <2>7 DEF SchemaStep, UndoneSchema, Touches
    <3> QED
      BY <3>1, <2>1, <2>3, <2>4 DEF d, o, s, ColumnSets
  <2>8. CASE rec.type = "NewColumn"
    <3>1. /\ UndoneSchema(d, rec) = [d EXCEPT ![u] = @ \ {rec.data}] /\ u \in UserTables
          /\ o = [e EXCEPT ![u] = @ \ {rec.data}] /\ e[u] # NoTable
          /\ \A t, c : Touches(rec, t, c) => t = u /\ c = rec.data
      BY <2>3, <2>8 DEF SchemaStep, UndoneSchema, Touches
    <3>2. d[u] # NoTable /\ d[u] \in SUBSET Columns /\ e[u] \in SUBSET Columns
      BY <3>1, <2>1, <2>3 DEF ColumnSets
    <3>3. d[u] \ {rec.data} # NoTable /\ e[u] \ {rec.data} # NoTable
      BY <3>2, <2>5
    <3>4. s = UndoneSchema(d, rec)
      BY DEF s, d
    <3>5. s \in Schemas /\ s[u] = d[u] \ {rec.data} /\ o[u] = e[u] \ {rec.data}
      BY <3>1, <3>2, <3>4, <2>3 DEF ColumnSets
    <3>6. ASSUME NEW t \in UserTables, t # u
          PROVE  s[t] = d[t] /\ o[t] = e[t] /\ \A c : ~Touches(rec, t, c)
      BY <3>1, <3>4, <3>6, <2>3
    <3>7. ASSUME NEW c \in Columns, ~(c \in s[u] <=> c \in o[u])
          PROVE  \E j \in (n + 1)..m : Touches(log[j], u, c)
      <4>1. c # rec.data /\ ~(c \in d[u] <=> c \in e[u])
        BY <3>5, <3>7
      <4> QED
        BY <4>1, <3>1, <3>2, <2>4
    <3>8. ASSUME NEW t \in UserTables, t # u
          PROVE  /\ s[t] = NoTable <=> o[t] = NoTable
                 /\ s[t] # NoTable =>
                      \A c \in Columns : ~(c \in s[t] <=> c \in o[t]) =>
                        \E j \in (n + 1)..m : Touches(log[j], t, c)
      BY <3>6, <3>8, <2>1, <2>4
    <3>9. s[u] # NoTable /\ o[u] # NoTable
      BY <3>3, <3>5
    <3> QED
      BY <3>5, <3>7, <3>8, <3>9 DEF o
  <2>9. CASE rec.type = "DeleteColumn"
    <3>1. /\ UndoneSchema(d, rec) = [d EXCEPT ![u] = @ \cup {rec.data}] /\ u \in UserTables
          /\ o = [e EXCEPT ![u] = @ \cup {rec.data}] /\ e[u] # NoTable /\ rec.data \in Columns
          /\ \A t, c : Touches(rec, t, c) => t = u /\ c = rec.data
      BY <2>3, <2>9 DEF SchemaStep, UndoneSchema, Touches
    <3>2. d[u] # NoTable /\ d[u] \in SUBSET Columns /\ e[u] \in SUBSET Columns
      BY <3>1, <2>1, <2>3 DEF ColumnSets
    <3>3. d[u] \cup {rec.data} # NoTable /\ e[u] \cup {rec.data} # NoTable
      BY <3>1, <3>2, <2>5
    <3>4. s = UndoneSchema(d, rec)
      BY DEF s, d
    <3>5. s \in Schemas /\ s[u] = d[u] \cup {rec.data} /\ o[u] = e[u] \cup {rec.data}
      BY <3>1, <3>2, <3>4, <2>3 DEF ColumnSets
    <3>6. ASSUME NEW t \in UserTables, t # u
          PROVE  s[t] = d[t] /\ o[t] = e[t] /\ \A c : ~Touches(rec, t, c)
      BY <3>1, <3>4, <3>6, <2>3
    <3>7. ASSUME NEW c \in Columns, ~(c \in s[u] <=> c \in o[u])
          PROVE  \E j \in (n + 1)..m : Touches(log[j], u, c)
      <4>1. c # rec.data /\ ~(c \in d[u] <=> c \in e[u])
        BY <3>5, <3>7
      <4> QED
        BY <4>1, <3>1, <3>2, <2>4
    <3>8. ASSUME NEW t \in UserTables, t # u
          PROVE  /\ s[t] = NoTable <=> o[t] = NoTable
                 /\ s[t] # NoTable =>
                      \A c \in Columns : ~(c \in s[t] <=> c \in o[t]) =>
                        \E j \in (n + 1)..m : Touches(log[j], t, c)
      BY <3>6, <3>8, <2>1, <2>4
    <3>9. s[u] # NoTable /\ o[u] # NoTable
      BY <3>3, <3>5
    <3> QED
      BY <3>5, <3>7, <3>8, <3>9 DEF o
  <2>10. CASE rec.type = "DeleteTable"
    <3>1. /\ UndoneSchema(d, rec) = [d EXCEPT ![u] = rec.data.cols] /\ u \in UserTables
          /\ o = [e EXCEPT ![u] = o[u]] /\ o[u] # NoTable
          /\ rec.data.cols \in SUBSET Columns /\ \A t, c : ~Touches(rec, t, c)
      BY <2>3, <2>10 DEF SchemaStep, UndoneSchema, Touches
    <3>2. \A c \in Columns : ~(c \in rec.data.cols <=> c \in o[u]) =>
            \E j \in (n + 1)..m : Touches(log[j], u, c)
      BY <2>10 DEF Explained, Touched, o, m
    <3>3. rec.data.cols # NoTable
      BY <3>1, <2>5
    <3> QED
      BY <3>1, <3>2, <3>3, <2>1, <2>3, <2>4 DEF d, o, s, ColumnSets
  <2> QED
    BY <1>3, <2>6, <2>7, <2>8, <2>9, <2>10
<1>6. ASSUME NEW t \in UserTables, s[t] # NoTable
      PROVE  Explained(s[t], old.schema[t], log2, n, Len(log2), t)
  <2>1. Len(log2) = m /\ \A i \in 1..m : log2[i] = log[i]
    BY DEF m
  <2> SUFFICES ASSUME NEW c \in Columns, ~(c \in s[t] <=> c \in old.schema[t])
               PROVE  \E j \in (n + 1)..m : Touches(log2[j], t, c)
    BY <2>1 DEF Explained, Touched
  <2>2. PICK j \in (n + 1)..m : Touches(log[j], t, c)
    BY <1>5, <1>6
  <2> QED
    BY <2>1, <2>2, <1>0
<1>7. Undo(db, rec).schema = s
  BY <1>4
<1> QED
  BY <1>4, <1>5, <1>6, <1>7 DEF Undone

-----------------------------------------------------------------------------
(***************************************************************************)
(* Each record leads back.                                                 *)
(***************************************************************************)

RowRecord(t, k, data) == [type |-> "row", table |-> t, key |-> k, data |-> data]

LEMMA InsertLeadsBack ==
  ASSUME NEW db, DBType(db), NEW t \in Tables, NEW k \in Nat \X Nat, NEW row \in RowsOf(t),
         \A x \in DOMAIN db.rows[t] : ~(x[2] = k[2] /\ (t \in KeyTables => x[1] = k[1])),
         NEW new, new = InsertRow(db, t, k, row)
  PROVE  /\ DBType(new) /\ LeadsBack(db, RowRecord(t, k, NoData), new)
         /\ new.schema = db.schema
         /\ \A u \in Tables : u # t => new.rows[u] = db.rows[u]
         /\ new.rows[t] = Inserted(db.rows[t], k, row)
<1> DEFINE R == db.rows[t]
           N == Inserted(R, k, row)
           rec == RowRecord(t, k, NoData)
<1>1. R \in [DOMAIN R -> RowsOf(t)] /\ DOMAIN R \in SUBSET (Nat \X Nat)
  BY DEF DBType, IsRows
<1>2. new = WithRows(db, t, N)
  BY InsertParts
<1>3. k \notin DOMAIN R
  OBVIOUS
<1> HIDE DEF R
<1>4. IsRows(t, N) /\ DOMAIN N = DOMAIN R \cup {k} /\ Deleted(N, {k}) = R
  BY <1>1, <1>3 DEF Inserted, Deleted, IsRows
<1> HIDE DEF N
<1>5. /\ DBType(new) /\ new.schema = db.schema /\ new.rows[t] = N
      /\ \A u \in Tables : u # t => new.rows[u] = db.rows[u]
      /\ WithRows(new, t, R).rows = db.rows
  BY <1>2, <1>4, TypeOfRows DEF R
<1>6. Matches(new, t, k) = {k}
  BY <1>4, <1>5 DEF Matches, R
<1>7. Undo(new, rec) = DeleteRows(new, t, {k})
  BY <1>6 DEF Undo, UndoRow, RowRecord
<1>8. DeleteRows(new, t, {k}) =
        WithRows(new, t, Deleted(new.rows[t], {k}))
  <2>1. DBType(new)
    BY <1>5
  <2> QED
    BY ONLY <2>1, DeleteParts, t \in Tables
<1>9. Undo(new, rec).rows = db.rows
  BY <1>4, <1>5, <1>7, <1>8
<1>10. SchemaStep(db.schema, rec, new.schema)
  BY <1>5 DEF SchemaStep, RowRecord
<1> QED
  BY <1>5, <1>9, <1>10 DEF LeadsBack, N, R

\* The columns of a table's rows, and their values.
ColumnsIn(t) == IF t = "tables" THEN {"columns"} ELSE Columns
ValuesIn(t) == IF t = "tables" THEN ColumnLists ELSE Nat \cup {Absent}

\* A record that names k names no other row; the update of one row.
OnlyRow(db, t, k) ==
  \A x \in DOMAIN db.rows[t] : x[2] = k[2] /\ (t \in KeyTables => x[1] = k[1]) => x = k
One(k, v) == [x \in {k} |-> v]
UpdatedRow(R, k, c, v) == [R EXCEPT ![k] = [R[k] EXCEPT ![c] = v]]

LEMMA UpdateLeadsBack ==
  ASSUME NEW db, DBType(db), NEW t \in Tables, NEW k \in DOMAIN db.rows[t],
         OnlyRow(db, t, k), NEW c \in ColumnsIn(t), NEW v \in ValuesIn(t),
         NEW new, new = UpdateRows(db, t, c, One(k, v))
  PROVE  /\ DBType(new)
         /\ LeadsBack(db, RowRecord(t, k, [column |-> c, value |-> db.rows[t][k][c]]), new)
         /\ new.schema = db.schema
         /\ \A u \in Tables : u # t => new.rows[u] = db.rows[u]
         /\ new.rows[t] = UpdatedRow(db.rows[t], k, c, v)
<1> DEFINE R == db.rows[t]
           f == One(k, v)
           r == [R[k] EXCEPT ![c] = v]
           N == [R EXCEPT ![k] = r]
           old == R[k][c]
           rec == RowRecord(t, k, [column |-> c, value |-> old])
           g == [x \in {k} |-> old]
<1>1. R \in [DOMAIN R -> RowsOf(t)] /\ DOMAIN R \in SUBSET (Nat \X Nat)
  BY DEF DBType, IsRows
<1>2. R[k] \in RowsOf(t)
  BY <1>1
<1>3. r \in RowsOf(t) /\ [r EXCEPT ![c] = old] = R[k] /\ old \in ValuesIn(t)
  <2>1. CASE t = "tables"
    BY <2>1, <1>2 DEF RowsOf, TableEntries, ColumnsIn, ValuesIn
  <2>2. CASE t # "tables"
    BY <2>2, <1>2 DEF RowsOf, PlainRows, ColumnsIn, ValuesIn
  <2> QED
    BY <2>1, <2>2
<1>4. new = WithRows(db, t, Updated(R, c, f))
  BY UpdateParts
<1> HIDE DEF R, old
<1>5. Updated(R, c, f) = N
  BY <1>1 DEF Updated, One
<1> HIDE DEF r
<1>6. /\ N \in [DOMAIN R -> RowsOf(t)] /\ DOMAIN N = DOMAIN R /\ N[k] = r
      /\ \A x \in DOMAIN R : x # k => N[x] = R[x]
  BY <1>1, <1>3 DEF R
<1> HIDE DEF N
<1>7. Updated(N, c, g) = R
  <2>1. DOMAIN g = {k} /\ g[k] = old
    OBVIOUS
  <2> HIDE DEF g
  <2>2. \A x \in DOMAIN R : (IF x \in DOMAIN g THEN [N[x] EXCEPT ![c] = g[x]] ELSE N[x]) = R[x]
    BY <2>1, <1>3, <1>6
  <2> QED
    BY <2>2, <1>1, <1>6 DEF Updated
<1> HIDE DEF g
<1>8. /\ DBType(new) /\ new.schema = db.schema /\ new.rows[t] = N
      /\ \A u \in Tables : u # t => new.rows[u] = db.rows[u]
      /\ WithRows(new, t, R).rows = db.rows
  <2>1. IsRows(t, N)
    BY <1>1, <1>6 DEF IsRows
  <2>2. new = WithRows(db, t, N)
    BY <1>4, <1>5
  <2>3. /\ DBType(new) /\ new.schema = db.schema /\ new.rows[t] = N
          /\ \A u \in Tables : u # t => new.rows[u] = db.rows[u]
        /\ WithRows(new, t, db.rows[t]).rows = db.rows
    BY ONLY <2>1, <2>2, TypeOfRows, DBType(db), t \in Tables
  <2> QED
    BY <2>3 DEF R
<1>9. Matches(new, t, k) = {k}
  BY <1>6, <1>8 DEF Matches, R, OnlyRow
<1>10. rec.data # NoData /\ rec.data.column = c /\ rec.data.value = old
  <2>1. c \in Columns \cup {"columns"} /\ old \in Nat \cup {Absent} \cup ColumnLists
    BY <1>3 DEF ColumnsIn, ValuesIn
  <2> QED
    BY <2>1, RowAssumption DEF RowRecord
<1>11. Undo(new, rec) = UpdateRows(new, t, c, g)
  <2>1. Undo(new, rec) = UndoRow(new, rec) /\ rec.table = t /\ rec.key = k
    BY DEF Undo, RowRecord
  <2> QED
    BY <2>1, <1>9, <1>10 DEF UndoRow, RestoredValue, g
<1>12. UpdateRows(new, t, c, g) =
        WithRows(new, t, Updated(new.rows[t], c, g))
  BY <1>8, UpdateParts
<1>13. Undo(new, rec).rows = db.rows
  BY <1>7, <1>8, <1>11, <1>12
<1>14. SchemaStep(db.schema, rec, new.schema)
  BY <1>8 DEF SchemaStep, RowRecord
<1> QED
  BY <1>8, <1>13, <1>14 DEF LeadsBack, UpdatedRow, N, R, r, old

\* A table of contracts with other columns and other rows, and what ALTER TABLE
\* makes of it.
Altered(db, t, X, N) ==
  [schema |-> [db.schema EXCEPT ![t] = X], rows |-> [db.rows EXCEPT ![t] = N]]

Filled(R, c, v) == [x \in DOMAIN R |-> [R[x] EXCEPT ![c] = v]]

LEMMA AlterParts ==
  ASSUME NEW db, DBType(db), NEW t \in UserTables, NEW c, NEW cols
  PROVE  /\ CreateSQL(db, t, cols) = Altered(db, t, cols, db.rows[t])
         /\ DropSQL(db, t) = Altered(db, t, NoTable, << >>)
         /\ AddColumnSQL(db, t, c) = Altered(db, t, db.schema[t] \cup {c}, Filled(db.rows[t], c, 0))
         /\ DropColumnSQL(db, t, c) = Altered(db, t, db.schema[t] \ {c}, Filled(db.rows[t], c, Absent))
<1>1. /\ db = [schema |-> db.schema, rows |-> db.rows]
      /\ db.rows = [u \in Tables |-> db.rows[u]]
      /\ db.schema \in [UserTables -> ColumnSets]
      /\ t \in Tables
  BY DEF DBType, Tables
<1>2. CreateSQL(db, t, cols) = Altered(db, t, cols, db.rows[t])
  <2>1. [db.rows EXCEPT ![t] = db.rows[t]] = db.rows
    BY <1>1
  <2> QED
    BY <1>1, <2>1 DEF CreateSQL, Altered
<1>3. DropSQL(db, t) = Altered(db, t, NoTable, << >>)
  BY DEF DropSQL, Altered
<1>4. AddColumnSQL(db, t, c) = Altered(db, t, db.schema[t] \cup {c}, Filled(db.rows[t], c, 0))
  BY <1>1 DEF AddColumnSQL, Altered, Filled
<1>5. DropColumnSQL(db, t, c) = Altered(db, t, db.schema[t] \ {c}, Filled(db.rows[t], c, Absent))
  BY <1>1 DEF DropColumnSQL, Altered, Filled
<1> QED
  BY <1>2, <1>3, <1>4, <1>5

LEMMA UserTableRows ==
  ASSUME NEW t \in UserTables
  PROVE  t \in Tables /\ RowsOf(t) = PlainRows /\ t \notin {"keys", "tables", "ecosystems"}
BY RowAssumption DEF Tables, RowsOf

LEMMA TypeOfAltered ==
  ASSUME NEW db, DBType(db), NEW t \in UserTables, NEW X \in ColumnSets,
         NEW N, IsRows(t, N),
         NEW new, new = Altered(db, t, X, N)
  PROVE  /\ DBType(new) /\ new.schema[t] = X /\ new.rows[t] = N
         /\ \A u \in Tables : u # t => new.rows[u] = db.rows[u]
         /\ \A u \in UserTables : u # t => new.schema[u] = db.schema[u]
<1>1. /\ db = [schema |-> db.schema, rows |-> db.rows]
      /\ db.rows = [u \in Tables |-> db.rows[u]]
      /\ db.schema \in [UserTables -> ColumnSets]
      /\ t \in Tables /\ RowsOf(t) = PlainRows
  BY UserTableRows DEF DBType
<1>2. /\ new.schema = [db.schema EXCEPT ![t] = X] /\ new.rows = [db.rows EXCEPT ![t] = N]
      /\ new = [schema |-> new.schema, rows |-> new.rows]
  BY DEF Altered
<1>3. /\ new.schema \in [UserTables -> ColumnSets] /\ new.schema[t] = X
      /\ \A u \in UserTables : u # t => new.schema[u] = db.schema[u]
      /\ new.rows = [u \in Tables |-> new.rows[u]] /\ new.rows[t] = N
      /\ \A u \in Tables : u # t => new.rows[u] = db.rows[u]
  BY <1>1, <1>2
<1>4. DBType(new)
  BY <1>1, <1>2, <1>3 DEF DBType
<1> QED
  BY <1>3, <1>4

\* Putting the rows of the table back restores the rows.
LEMMA AlteredBack ==
  ASSUME NEW db, DBType(db), NEW new, DBType(new), NEW t \in UserTables, NEW Y,
         \A u \in Tables : u # t => new.rows[u] = db.rows[u]
  PROVE  Altered(new, t, Y, db.rows[t]).rows = db.rows
<1>1. /\ db.rows = [u \in Tables |-> db.rows[u]]
      /\ new.rows = [u \in Tables |-> new.rows[u]]
      /\ t \in Tables
  BY UserTableRows DEF DBType
<1>2. [new.rows EXCEPT ![t] = db.rows[t]] = db.rows
  BY <1>1
<1> QED
  BY <1>2 DEF Altered

LEMMA NewTableLeadsBack ==
  ASSUME NEW db, DBType(db), NEW t \in UserTables, NEW cols \in SUBSET Columns,
         db.schema[t] = NoTable, DOMAIN db.rows[t] = {},
         NEW new, new = CreateSQL(db, t, cols)
  PROVE  /\ DBType(new) /\ LeadsBack(db, SysRecord("NewTable", t, NoData), new)
         /\ new.schema[t] = cols
         /\ \A u \in UserTables : u # t => new.schema[u] = db.schema[u]
         /\ \A u \in Tables : new.rows[u] = db.rows[u]
<1> DEFINE rec == SysRecord("NewTable", t, NoData)
<1>1. t \in Tables /\ IsRows(t, db.rows[t]) /\ db.schema \in [UserTables -> ColumnSets]
  BY UserTableRows DEF DBType
<1>2. new = Altered(db, t, cols, db.rows[t])
  BY AlterParts
<1>3. /\ DBType(new) /\ new.schema[t] = cols
      /\ \A u \in UserTables : u # t => new.schema[u] = db.schema[u]
      /\ new.rows[t] = db.rows[t]
      /\ \A u \in Tables : u # t => new.rows[u] = db.rows[u]
  <2>1. cols \in ColumnSets
    BY DEF ColumnSets
  <2> QED
    BY <2>1, <1>1, <1>2, TypeOfAltered
<1>4. db.rows[t] = << >>
  BY <1>1, EmptyFunction DEF IsRows
<1>5. Undo(new, rec) = DropSQL(new, t)
  BY DEF Undo, SysRecord
<1>6. DropSQL(new, t) = Altered(new, t, NoTable, << >>)
  BY <1>3, AlterParts
<1>7. Undo(new, rec).rows = db.rows
  BY <1>3, <1>4, <1>5, <1>6, AlteredBack
<1>8. SchemaStep(db.schema, rec, new.schema)
  <2>1. cols # NoTable
    BY RowAssumption
  <2>2. db.schema = [new.schema EXCEPT ![t] = NoTable]
    BY <1>1, <1>3 DEF DBType
  <2> QED
    BY <2>1, <2>2, <1>3 DEF SchemaStep, SysRecord
<1> QED
  BY <1>3, <1>7, <1>8 DEF LeadsBack

LEMMA NewColumnLeadsBack ==
  ASSUME NEW db, DBType(db), NEW t \in UserTables, NEW c \in Columns,
         db.schema[t] # NoTable, c \notin db.schema[t],
         \A k \in DOMAIN db.rows[t] : db.rows[t][k][c] = Absent,
         NEW new, new = AddColumnSQL(db, t, c)
  PROVE  /\ DBType(new) /\ LeadsBack(db, SysRecord("NewColumn", t, c), new)
         /\ new.schema[t] = db.schema[t] \cup {c}
         /\ \A u \in UserTables : u # t => new.schema[u] = db.schema[u]
         /\ \A u \in Tables : u # t => new.rows[u] = db.rows[u]
         /\ new.rows[t] = Filled(db.rows[t], c, 0)
<1> DEFINE rec == SysRecord("NewColumn", t, c)
           R == db.rows[t]
           N == Filled(R, c, 0)
           X == db.schema[t] \cup {c}
<1>1. /\ t \in Tables /\ R \in [DOMAIN R -> PlainRows]
      /\ DOMAIN R \in SUBSET (Nat \X Nat) /\ RowsOf(t) = PlainRows
      /\ db.schema \in [UserTables -> ColumnSets]
  BY UserTableRows DEF DBType, IsRows
<1>2. new = Altered(db, t, X, N)
  BY AlterParts
<1>3. X \in SUBSET Columns /\ X # NoTable /\ X \in ColumnSets
  BY <1>1, RowAssumption DEF ColumnSets
<1>4. N \in [DOMAIN R -> PlainRows] /\ Filled(N, c, Absent) = R
  <2> HIDE DEF R
  <2>1. \A k \in DOMAIN R : /\ [R[k] EXCEPT ![c] = 0] \in PlainRows
                            /\ [[R[k] EXCEPT ![c] = 0] EXCEPT ![c] = Absent] = R[k]
    BY <1>1 DEF R, PlainRows
  <2> QED
    BY <2>1, <1>1 DEF Filled
<1> HIDE DEF N, X
<1>5. /\ DBType(new) /\ new.schema[t] = X
      /\ \A u \in UserTables : u # t => new.schema[u] = db.schema[u]
      /\ new.rows[t] = N
      /\ \A u \in Tables : u # t => new.rows[u] = db.rows[u]
  <2>1. IsRows(t, N)
    BY <1>1, <1>4 DEF IsRows
  <2> QED
    BY <2>1, <1>2, <1>3, TypeOfAltered
<1>6. Undo(new, rec) = DropColumnSQL(new, t, c)
  BY DEF Undo, SysRecord
<1>7. DropColumnSQL(new, t, c) = Altered(new, t, X \ {c}, Filled(N, c, Absent))
  BY <1>5, AlterParts
<1>8. Undo(new, rec).rows = db.rows
  BY <1>4, <1>5, <1>6, <1>7, AlteredBack
<1>9. SchemaStep(db.schema, rec, new.schema)
  <2>1. X \ {c} = db.schema[t] /\ c \in X
    BY <1>1 DEF X
  <2>2. db.schema = [new.schema EXCEPT ![t] = new.schema[t] \ {c}]
    BY <2>1, <1>1, <1>5 DEF DBType
  <2> QED
    BY <2>1, <2>2, <1>3, <1>5 DEF SchemaStep, SysRecord
<1> QED
  BY <1>5, <1>8, <1>9 DEF LeadsBack, X, N

LEMMA DeleteColumnLeadsBack ==
  ASSUME NEW db, DBType(db), NEW t \in UserTables, NEW c \in Columns,
         db.schema[t] # NoTable, c \in db.schema[t], DOMAIN db.rows[t] = {},
         NEW new, new = DropColumnSQL(db, t, c)
  PROVE  /\ DBType(new) /\ LeadsBack(db, SysRecord("DeleteColumn", t, c), new)
         /\ new.schema[t] = db.schema[t] \ {c}
         /\ \A u \in UserTables : u # t => new.schema[u] = db.schema[u]
         /\ \A u \in Tables : new.rows[u] = db.rows[u]
<1> DEFINE rec == SysRecord("DeleteColumn", t, c)
           R == db.rows[t]
           X == db.schema[t] \ {c}
<1>1. /\ t \in Tables /\ R \in [DOMAIN R -> PlainRows]
      /\ DOMAIN R \in SUBSET (Nat \X Nat) /\ RowsOf(t) = PlainRows
      /\ db.schema \in [UserTables -> ColumnSets]
  BY UserTableRows DEF DBType, IsRows
<1>2. Filled(R, c, Absent) = R /\ Filled(R, c, 0) = R
  BY <1>1 DEF Filled
<1>3. new = Altered(db, t, X, R)
  <2>1. new = Altered(db, t, X, Filled(R, c, Absent))
    BY AlterParts
  <2> QED
    BY <1>2, <2>1
<1>4. X \in SUBSET Columns /\ X # NoTable /\ X \in ColumnSets
  BY <1>1, RowAssumption DEF ColumnSets
<1> HIDE DEF X
<1>5. /\ DBType(new) /\ new.schema[t] = X
      /\ \A u \in UserTables : u # t => new.schema[u] = db.schema[u]
      /\ new.rows[t] = R
      /\ \A u \in Tables : u # t => new.rows[u] = db.rows[u]
  <2>1. IsRows(t, R)
    BY <1>1 DEF IsRows
  <2> QED
    BY <2>1, <1>3, <1>4, TypeOfAltered
<1>6. Undo(new, rec) = AddColumnSQL(new, t, c)
  BY DEF Undo, SysRecord
<1>7. AddColumnSQL(new, t, c) = Altered(new, t, X \cup {c}, Filled(R, c, 0))
  <2>1. AddColumnSQL(new, t, c) = Altered(new, t, new.schema[t] \cup {c}, Filled(new.rows[t], c, 0))
    BY ONLY <1>5, AlterParts, t \in UserTables
  <2> QED
    BY <2>1, <1>5
<1>8. Undo(new, rec).rows = db.rows
  BY <1>2, <1>5, <1>6, <1>7, AlteredBack
<1>9. SchemaStep(db.schema, rec, new.schema)
  <2>1. X \cup {c} = db.schema[t] /\ c \notin X
    BY <1>1 DEF X
  <2>2. db.schema = [new.schema EXCEPT ![t] = new.schema[t] \cup {c}]
    BY <2>1, <1>1, <1>5 DEF DBType
  <2> QED
    BY <2>1, <2>2, <1>4, <1>5 DEF SchemaStep, SysRecord
<1> QED
  BY <1>5, <1>8, <1>9 DEF LeadsBack, X

LEMMA DeleteTableLeadsBack ==
  ASSUME NEW db, DBType(db), NEW t \in UserTables, db.schema[t] # NoTable, DOMAIN db.rows[t] = {},
         NEW k \in DOMAIN db.rows["tables"], NEW cols \in SUBSET Columns,
         NEW new, new = DropSQL(DeleteRows(db, "tables", {k}), t)
  PROVE  /\ DBType(new)
         /\ LeadsBack(db, SysRecord("DeleteTable", t,
                            [key |-> k, row |-> db.rows["tables"][k], cols |-> cols]), new)
         /\ new.schema[t] = NoTable
         /\ \A u \in UserTables : u # t => new.schema[u] = db.schema[u]
         /\ \A u \in Tables : u # "tables" => new.rows[u] = db.rows[u]
         /\ new.rows["tables"] = Deleted(db.rows["tables"], {k})
<1> DEFINE T == db.rows["tables"]
           N == Deleted(T, {k})
           row == T[k]
           rec == SysRecord("DeleteTable", t, [key |-> k, row |-> row, cols |-> cols])
           mid == DeleteRows(db, "tables", {k})
           back == CreateSQL(new, t, cols)
<1>1. /\ t \in Tables /\ "tables" \in Tables /\ t # "tables"
      /\ IsRows("tables", T) /\ IsRows(t, db.rows[t])
      /\ db.schema \in [UserTables -> ColumnSets]
      /\ db.rows = [u \in Tables |-> db.rows[u]]
  BY UserTableRows DEF DBType, Tables, SharedTables
<1>2. IsRows("tables", N) /\ Inserted(N, k, row) = T
  BY <1>1 DEF IsRows, Deleted, Inserted
<1>3. mid = WithRows(db, "tables", N)
  BY <1>1, DeleteParts
<1> HIDE DEF N, T, mid
<1>4. /\ DBType(mid) /\ mid.schema = db.schema /\ mid.rows["tables"] = N
      /\ \A u \in Tables : u # "tables" => mid.rows[u] = db.rows[u]
  BY <1>1, <1>2, <1>3, TypeOfRows, SMTT(30)
<1>5. db.rows[t] = << >>
  BY <1>1, EmptyFunction DEF IsRows
<1>6. new = Altered(mid, t, NoTable, db.rows[t])
  BY <1>4, <1>5, AlterParts DEF mid
<1>7. NoTable \in ColumnSets /\ cols \in ColumnSets /\ cols # NoTable
  BY RowAssumption DEF ColumnSets
<1>8. /\ DBType(new) /\ new.schema[t] = NoTable /\ new.rows["tables"] = N
      /\ \A u \in UserTables : u # t => new.schema[u] = db.schema[u]
      /\ \A u \in Tables : u # "tables" => new.rows[u] = db.rows[u]
  <2>1. IsRows(t, db.rows[t]) /\ DBType(mid) /\ NoTable \in ColumnSets
    BY <1>1, <1>4, <1>7
  <2>2. /\ DBType(new) /\ new.schema[t] = NoTable /\ new.rows[t] = db.rows[t]
        /\ \A u \in Tables : u # t => new.rows[u] = mid.rows[u]
        /\ \A u \in UserTables : u # t => new.schema[u] = mid.schema[u]
    BY ONLY <2>1, <1>6, TypeOfAltered, t \in UserTables
  <2> QED
    BY ONLY <2>2, <1>1, <1>4
<1>9. DBType(new)
  BY <1>8
<1>10. back = Altered(new, t, cols, new.rows[t])
  BY ONLY <1>9, AlterParts, t \in UserTables DEF back
<1> HIDE DEF back
<1>11. DBType(back) /\ \A u \in Tables : back.rows[u] = new.rows[u]
  <2>1. IsRows(t, new.rows[t]) /\ cols \in ColumnSets
    BY <1>1, <1>7, <1>9 DEF DBType
  <2>2. DBType(back) /\ back.rows[t] = new.rows[t] /\ \A u \in Tables : u # t => back.rows[u] = new.rows[u]
    BY ONLY <2>1, <1>9, <1>10, TypeOfAltered, t \in UserTables
  <2> QED
    BY ONLY <2>2
<1>12. Undo(new, rec) = InsertRow(back, "tables", k, row)
  <2>1. Undo(new, rec) = UndoDeleteTable(new, rec)
    BY DEF Undo, SysRecord
  <2>2. rec.table = t /\ rec.data.key = k /\ rec.data.row = row /\ rec.data.cols = cols
    BY DEF SysRecord
  <2> QED
    BY <2>1, <2>2 DEF UndoDeleteTable, back
<1>13. Undo(new, rec) = WithRows(back, "tables", T)
  <2>1. back.rows["tables"] = N
    BY ONLY <1>1, <1>8, <1>11
  <2>2. InsertRow(back, "tables", k, row) = WithRows(back, "tables", Inserted(back.rows["tables"], k, row))
    BY ONLY <1>1, <1>11, InsertParts
  <2> QED
    BY ONLY <2>1, <2>2, <1>2, <1>12
<1>14. Undo(new, rec).rows = db.rows
  <2>1. back.rows = [u \in Tables |-> back.rows[u]]
    BY <1>11 DEF DBType
  <2>2. [back.rows EXCEPT !["tables"] = T] = db.rows
    <3>1. \A u \in Tables : u # "tables" => back.rows[u] = db.rows[u]
      BY ONLY <1>8, <1>11
    <3> QED
      BY ONLY <3>1, <2>1, <1>1 DEF T
  <2> QED
    BY <2>2, <1>13 DEF WithRows
<1>15. SchemaStep(db.schema, rec, new.schema)
  <2>1. db.schema = [new.schema EXCEPT ![t] = db.schema[t]]
    BY <1>1, <1>8 DEF DBType
  <2>2. rec.table = t /\ rec.data.cols = cols /\ rec.type = "DeleteTable"
    BY DEF SysRecord
  <2> HIDE DEF rec
  <2> QED
    BY <2>1, <2>2, <1>8 DEF SchemaStep
<1> QED
  BY <1>8, <1>14, <1>15 DEF LeadsBack, N, T

LEMMA NewEcosystemLeadsBack ==
  ASSUME NEW db, DBType(db), NEW e \in Nat, NEW g \in Nat, NEW row \in PlainRows,
         \A t \in SharedTables : \A x \in DOMAIN db.rows[t] : x[1] # e,
         NEW new, new = InsertRow(db, "keys", <<e, g>>, row)
  PROVE  /\ DBType(new) /\ LeadsBack(db, SysRecord("NewEcosystem", "keys", e), new)
         /\ new.schema = db.schema
         /\ \A u \in Tables : u # "keys" => new.rows[u] = db.rows[u]
         /\ new.rows["keys"] = Inserted(db.rows["keys"], <<e, g>>, row)
<1> DEFINE R == db.rows["keys"]
           k == <<e, g>>
           N == Inserted(R, k, row)
           rec == SysRecord("NewEcosystem", "keys", e)
<1>1. /\ "keys" \in Tables /\ "keys" \in SharedTables /\ RowsOf("keys") = PlainRows
      /\ \A t \in Tables : IsRows(t, db.rows[t])
      /\ db.rows = [u \in Tables |-> db.rows[u]] /\ SharedTables \subseteq Tables
  BY DEF DBType, Tables, SharedTables, RowsOf
<1>2. k \in Nat \X Nat /\ k[1] = e
  OBVIOUS
<1> HIDE DEF k
<1>3. new = WithRows(db, "keys", N)
  BY <1>1, InsertParts DEF k
<1>4. /\ IsRows("keys", N) /\ DOMAIN N = DOMAIN R \cup {k} /\ N[k] = row
      /\ \A x \in DOMAIN R : x # k => N[x] = R[x]
  <2>1. IsRows("keys", R)
    BY <1>1
  <2> HIDE DEF R
  <2> QED
    BY <2>1, <1>1, <1>2 DEF IsRows, Inserted
<1> HIDE DEF N
<1>5. /\ DBType(new) /\ new.schema = db.schema /\ new.rows["keys"] = N
      /\ \A u \in Tables : u # "keys" => new.rows[u] = db.rows[u]
  <2>1. IsRows("keys", N) /\ "keys" \in Tables
    BY <1>1, <1>4
  <2> QED
    BY ONLY <2>1, <1>3, TypeOfRows, DBType(db)
<1>6. Undo(new, rec).rows = [t \in Tables |->
        IF t \in SharedTables
          THEN [x \in {y \in DOMAIN new.rows[t] : y[1] # e} |-> new.rows[t][x]]
          ELSE new.rows[t]]
  <2>1. new = [schema |-> new.schema, rows |-> new.rows]
    BY <1>5 DEF DBType
  <2>2. Undo(new, rec) = UndoEcosystem(new, e)
    BY DEF Undo, SysRecord
  <2> QED
    BY <2>1, <2>2 DEF UndoEcosystem
<1>7. ASSUME NEW t \in SharedTables
      PROVE  [x \in {y \in DOMAIN new.rows[t] : y[1] # e} |-> new.rows[t][x]] = db.rows[t]
  <2>1. db.rows[t] \in [DOMAIN db.rows[t] -> RowsOf(t)] /\ \A x \in DOMAIN db.rows[t] : x[1] # e
    BY <1>1 DEF IsRows
  <2>2. CASE t = "keys"
    <3>1. {y \in DOMAIN N : y[1] # e} = DOMAIN R /\ k \notin DOMAIN R
      BY <2>1, <2>2, <1>2, <1>4
    <3>2. \A x \in DOMAIN R : N[x] = R[x]
      BY <3>1, <1>4
    <3> QED
      BY <3>1, <3>2, <2>1, <2>2, <1>5
  <2>3. CASE t # "keys"
    <3>1. new.rows[t] = db.rows[t]
      BY <2>3, <1>1, <1>5
    <3>2. {y \in DOMAIN db.rows[t] : y[1] # e} = DOMAIN db.rows[t]
      BY <2>1
    <3> QED
      BY <3>1, <3>2, <2>1
  <2> QED
    BY <2>2, <2>3
<1>8. Undo(new, rec).rows = db.rows
  <2>1. \A t \in Tables : (IF t \in SharedTables
          THEN [x \in {y \in DOMAIN new.rows[t] : y[1] # e} |-> new.rows[t][x]]
          ELSE new.rows[t]) = db.rows[t]
    BY <1>1, <1>5, <1>7
  <2> QED
    BY <2>1, <1>1, <1>6
<1>9. SchemaStep(db.schema, rec, new.schema)
  BY <1>5 DEF SchemaStep, SysRecord
<1> QED
  BY <1>5, <1>8, <1>9 DEF LeadsBack, N, k

-----------------------------------------------------------------------------
(***************************************************************************)
(* Identifiers.                                                            *)
(***************************************************************************)

LEMMA LessThanWellFounded == IsWellFoundedOn({ p \in Nat \X Nat : p[1] < p[2] }, Nat)
<1>1. OpToRel(<, Nat) = { p \in Nat \X Nat : p[1] < p[2] }
  BY Zenon DEF OpToRel
<1> QED
  BY <1>1, NatLessThanWellFounded, Zenon

\* A set of numbers up to n has a greatest one.
LEMMA Greatest ==
  ASSUME NEW n \in Nat, NEW S \in SUBSET (0..n), S # {}
  PROVE  \E k \in S : \A j \in S : j <= k
<1> DEFINE R == { p \in Nat \X Nat : p[1] < p[2] }
           T == { i \in 0..n : n - i \in S }
<1>1. T \subseteq Nat
  OBVIOUS
<1>2. T # {}
  <2>1. PICK k \in S : TRUE
    OBVIOUS
  <2>2. n - k \in 0..n /\ n - (n - k) = k
    OBVIOUS
  <2> QED
    BY <2>1, <2>2
<1>3. IsWellFoundedOn(R, Nat)
  BY LessThanWellFounded
<1> HIDE DEF R, T
<1>4. PICK i \in T : \A y \in T : ~(<<y, i>> \in R)
  BY <1>1, <1>2, <1>3, WFMin
<1>5. i \in 0..n /\ n - i \in S
  BY <1>4 DEF T
<1>6. ASSUME NEW j \in S PROVE j <= n - i
  <2>1. j \in 0..n /\ n - j \in 0..n /\ n - (n - j) = j
    OBVIOUS
  <2>2. n - j \in T
    BY <2>1 DEF T
  <2>3. ~(<<n - j, i>> \in R)
    BY <1>4, <2>2
  <2>4. ~(n - j < i)
    BY <1>5, <2>1, <2>3 DEF R
  <2> QED
    BY <1>5, <2>1, <2>4
<1> QED
  BY <1>5, <1>6

\* GetNextID returns an id above all of those in use.
LEMMA NextIDIsNew ==
  ASSUME NEW db, DBInv(db), NEW t \in Tables \ {"keys"}
  PROVE  NextID(db, t) \in Nat \ {0} /\ \A k \in DOMAIN db.rows[t] : k[2] < NextID(db, t)
<1> DEFINE K == DOMAIN db.rows[t]
           ids == {k[2] : k \in K}
<1>1. K \in SUBSET (Nat \X Nat)
  BY DEF DBInv, DBType, IsRows
<1>2. PICK n \in Nat : \A k \in K : k[2] <= n
  BY DEF DBInv, KeysInv
<1>3. NextID(db, t) = IF ids = {} THEN 1 ELSE 1 + CHOOSE i \in ids : \A j \in ids : j <= i
  BY DEF NextID
<1> HIDE DEF K
<1>4. ids \in SUBSET (0..n)
  BY <1>1, <1>2
<1>5. \A k \in K : k[2] \in ids
  OBVIOUS
<1> HIDE DEF ids
<1>6. CASE ids = {}
  BY <1>3, <1>5, <1>6 DEF K
<1>7. CASE ids # {}
  <2> DEFINE m == CHOOSE i \in ids : \A j \in ids : j <= i
  <2>1. \E i \in ids : \A j \in ids : j <= i
    BY <1>4, <1>7, Greatest
  <2>2. m \in ids /\ \A j \in ids : j <= m
    BY <2>1
  <2>3. NextID(db, t) = 1 + m
    BY <1>3, <1>7
  <2> HIDE DEF m
  <2>4. m \in Nat
    BY <2>2, <1>4
  <2>5. ASSUME NEW k \in K PROVE k[2] < 1 + m
    BY <2>2, <2>4, <1>1, <1>5
  <2> QED
    BY <2>3, <2>4, <2>5 DEF K
<1> QED
  BY <1>6, <1>7

\* Rows of the same keys, or of fewer, are identified as before.
LEMMA KeysKept ==
  ASSUME NEW db, DBInv(db), NEW new, \A u \in Tables : DOMAIN new.rows[u] \subseteq DOMAIN db.rows[u],
         DOMAIN new.rows["ecosystems"] = DOMAIN db.rows["ecosystems"]
  PROVE  KeysInv(new)
<1>1. UserTables \cup {"ecosystems"} \subseteq Tables /\ SharedTables \subseteq Tables
  BY DEF Tables
<1>2. KeysInv(db)
  BY DEF DBInv
<1>3. \A t \in Tables \ {"keys"} : \A k, l \in DOMAIN new.rows[t] : k[2] = l[2] => k = l
  BY <1>2 DEF KeysInv
<1>4. \A t \in UserTables \cup {"ecosystems"} : \A k \in DOMAIN new.rows[t] : k[1] = 0
  BY <1>1, <1>2 DEF KeysInv
<1>5. \A t \in SharedTables : \A k \in DOMAIN new.rows[t] : Exists(new, k[1])
  BY <1>1, <1>2 DEF KeysInv, Exists
<1>6. ASSUME NEW t \in Tables \ {"keys"} PROVE \E n \in Nat : \A k \in DOMAIN new.rows[t] : k[2] <= n
  BY <1>2 DEF KeysInv
<1> QED
  BY <1>3, <1>4, <1>5, <1>6 DEF KeysInv

\* So they are with one more row.
LEMMA KeysInserted ==
  ASSUME NEW db, DBInv(db), NEW new, NEW t \in Tables, NEW k \in Nat \X Nat,
         DOMAIN new.rows[t] = DOMAIN db.rows[t] \cup {k},
         \A u \in Tables : u # t => DOMAIN new.rows[u] = DOMAIN db.rows[u],
         t # "keys" => \A x \in DOMAIN db.rows[t] : x[2] # k[2],
         t \in UserTables \cup {"ecosystems"} => k[1] = 0,
         t \in SharedTables => Exists(db, k[1])
  PROVE  KeysInv(new)
<1>1. /\ UserTables \cup {"ecosystems"} \subseteq Tables /\ SharedTables \subseteq Tables
      /\ "ecosystems" \in Tables
  BY DEF Tables
<1>2. KeysInv(db) /\ DOMAIN db.rows[t] \in SUBSET (Nat \X Nat)
  BY DEF DBInv, DBType, IsRows
<1>3. ASSUME NEW u \in Tables \ {"keys"}, NEW x \in DOMAIN new.rows[u], NEW y \in DOMAIN new.rows[u],
             x[2] = y[2]
      PROVE  x = y
  BY <1>2, <1>3 DEF KeysInv
<1>4. \A u \in UserTables \cup {"ecosystems"} : \A x \in DOMAIN new.rows[u] : x[1] = 0
  BY <1>1, <1>2 DEF KeysInv
<1>5. \A e : Exists(db, e) => Exists(new, e)
  BY <1>1 DEF Exists
<1>6. \A u \in SharedTables : \A x \in DOMAIN new.rows[u] : Exists(new, x[1])
  BY <1>1, <1>2, <1>5 DEF KeysInv
<1>7. ASSUME NEW u \in Tables \ {"keys"}
      PROVE  \E n \in Nat : \A x \in DOMAIN new.rows[u] : x[2] <= n
  <2>1. PICK n \in Nat : \A x \in DOMAIN db.rows[u] : x[2] <= n
    BY <1>2 DEF KeysInv
  <2>2. CASE u # t
    BY <2>1, <2>2
  <2>3. CASE u = t
    <3> DEFINE m == n + k[2]
    <3>1. m \in Nat /\ n <= m /\ k[2] <= m
      OBVIOUS
    <3> HIDE DEF m
    <3>2. ASSUME NEW x \in DOMAIN new.rows[u] PROVE x[2] <= m
      <4>1. CASE x = k
        BY <4>1, <3>1
      <4>2. CASE x \in DOMAIN db.rows[u]
        <5>1. x[2] \in Nat /\ x[2] <= n
          BY <4>2, <2>1, <2>3, <1>2
        <5> QED
          BY <5>1, <3>1
      <4> QED
        BY <4>1, <4>2, <2>3
    <3> QED
      BY <3>1, <3>2
  <2> QED
    BY <2>2, <2>3
<1> QED
  BY <1>3, <1>4, <1>6, <1>7 DEF KeysInv

-----------------------------------------------------------------------------
(***************************************************************************)
(* What contracts do keeps DBInv, and its records lead back.               *)
(***************************************************************************)

LEMMA TableNames ==
  /\ "keys" \in Tables /\ "tables" \in Tables /\ "ecosystems" \in Tables
  /\ UserTables \subseteq Tables /\ KeyTables = {"keys"} /\ SharedTables = {"keys", "tables"}
  /\ \A t \in UserTables : t # "keys" /\ t # "tables" /\ t # "ecosystems" /\ RowsOf(t) = PlainRows
  /\ RowsOf("keys") = PlainRows /\ RowsOf("ecosystems") = PlainRows /\ RowsOf("tables") = TableEntries
BY RowAssumption DEF Tables, SharedTables, KeyTables, RowsOf

LEMMA SchemaKept ==
  ASSUME NEW db, DBInv(db), NEW new, new.schema = db.schema,
         \A u \in UserTables \cup {"tables"} : new.rows[u] = db.rows[u]
  PROVE  SchemaInv(new)
BY DEF DBInv, SchemaInv

LEMMA KeyInserted ==
  ASSUME NEW db, DBInv(db), NEW e \in Nat, NEW id \in Nat, NEW row \in PlainRows,
         Exists(db, e), <<e, id>> \notin DOMAIN db.rows["keys"],
         NEW new, new = InsertRow(db, "keys", <<e, id>>, row)
  PROVE  DBInv(new) /\ LeadsBack(db, RowRecord("keys", <<e, id>>, NoData), new)
<1> DEFINE k == <<e, id>>
<1>1. k \in Nat \X Nat /\ k[1] = e /\ DBType(db) /\ DOMAIN db.rows["keys"] \in SUBSET (Nat \X Nat)
  BY TableNames DEF DBInv, DBType, IsRows
<1>2. \A x \in DOMAIN db.rows["keys"] : ~(x[2] = k[2] /\ x[1] = k[1])
  <2> SUFFICES ASSUME NEW x \in DOMAIN db.rows["keys"], x[2] = id, x[1] = e PROVE FALSE
    OBVIOUS
  <2>1. x = <<e, id>>
    BY <1>1
  <2> QED
    BY <2>1
<1> HIDE DEF k
<1>3. new = InsertRow(db, "keys", k, row) /\ Exists(db, k[1])
  BY <1>1 DEF k
<1>4. /\ DBType(new) /\ LeadsBack(db, RowRecord("keys", k, NoData), new)
      /\ new.schema = db.schema
      /\ \A u \in Tables : u # "keys" => new.rows[u] = db.rows[u]
      /\ new.rows["keys"] = Inserted(db.rows["keys"], k, row)
  BY <1>1, <1>2, <1>3, TableNames, InsertLeadsBack
<1>5. DOMAIN new.rows["keys"] = DOMAIN db.rows["keys"] \cup {k}
  BY <1>4 DEF Inserted
<1>6. KeysInv(new)
  BY <1>1, <1>3, <1>4, <1>5, TableNames, KeysInserted
<1>7. SchemaInv(new)
  BY <1>4, TableNames, SchemaKept
<1> QED
  BY <1>4, <1>6, <1>7 DEF DBInv, k

LEMMA RowInserted ==
  ASSUME NEW db, DBInv(db), NEW t \in UserTables, db.schema[t] # NoTable, NEW v \in Values,
         NEW k, k = <<0, NextID(db, t)>>,
         NEW new, new = InsertRow(db, t, k, Row(db.schema[t], v))
  PROVE  DBInv(new) /\ LeadsBack(db, RowRecord(t, k, NoData), new)
<1> DEFINE row == Row(db.schema[t], v)
           R == db.rows[t]
<1>1. /\ NextID(db, t) \in Nat /\ \A x \in DOMAIN R : x[2] < NextID(db, t)
  BY TableNames, NextIDIsNew
<1>2. DBType(db) /\ DOMAIN R \in SUBSET (Nat \X Nat)
  BY TableNames DEF DBInv, DBType, IsRows
<1>3. k \in Nat \X Nat /\ k[1] = 0 /\ \A x \in DOMAIN R : x[2] # k[2]
  BY <1>1, <1>2
<1>4. row \in PlainRows /\ \A c \in Columns \ db.schema[t] : row[c] = Absent
  <2>1. v \in Nat
    BY RowAssumption
  <2> QED
    BY <2>1 DEF Row, PlainRows
<1> HIDE DEF row
<1>5. /\ DBType(new) /\ LeadsBack(db, RowRecord(t, k, NoData), new)
      /\ new.schema = db.schema
      /\ \A u \in Tables : u # t => new.rows[u] = db.rows[u]
      /\ new.rows[t] = Inserted(R, k, row)
  <2>1. new = InsertRow(db, t, k, row) /\ t \in Tables /\ row \in RowsOf(t)
    BY <1>4, TableNames DEF row
  <2> QED
    BY ONLY <2>1, <1>2, <1>3, InsertLeadsBack DEF R
<1>6. DOMAIN new.rows[t] = DOMAIN R \cup {k}
  BY <1>5 DEF Inserted
<1>7. KeysInv(new)
  <2>1. t \in Tables /\ t \notin SharedTables
    BY TableNames
  <2> QED
    BY ONLY <2>1, <1>3, <1>5, <1>6, DBInv(db), KeysInserted DEF R
<1>8. SchemaInv(new)
  <2>1. SchemaInv(db)
    BY DEF DBInv
  <2>2. ASSUME NEW x \in DOMAIN new.rows[t], NEW c \in Columns \ new.schema[t]
        PROVE  new.rows[t][x][c] = Absent
    BY <2>1, <1>4, <1>5 DEF SchemaInv, Inserted
  <2>3. \A u \in UserTables \cup {"tables"} : u # t => new.rows[u] = db.rows[u]
    BY <1>5, TableNames
  <2>4. new.rows["tables"] = db.rows["tables"]
    BY <2>3, TableNames
  <2> QED
    <3>1. ASSUME NEW u \in UserTables, u # t
          PROVE  /\ new.schema[u] = NoTable => DOMAIN new.rows[u] = {}
                 /\ new.schema[u] # NoTable =>
                      \A x \in DOMAIN new.rows[u], c \in Columns \ new.schema[u] : new.rows[u][x][c] = Absent
      BY <3>1, <2>1, <2>3, <1>5 DEF SchemaInv
    <3>2. /\ \A x, y \in DOMAIN db.rows["tables"] :
                db.rows["tables"][x].name = db.rows["tables"][y].name => x = y
          /\ \A u \in UserTables : db.schema[u] = NoTable =>
                \A x \in DOMAIN db.rows["tables"] : db.rows["tables"][x].name # NameOf[u]
      BY <2>1 DEF SchemaInv
    <3>3. new.schema[t] # NoTable /\ new.schema = db.schema
      BY <1>5
    <3> QED
      BY ONLY <3>1, <3>2, <3>3, <2>2, <2>4 DEF SchemaInv
<1> QED
  BY <1>5, <1>7, <1>8 DEF DBInv

LEMMA RowUpdated ==
  ASSUME NEW db, DBInv(db), NEW t \in UserTables \cup {"keys"}, NEW k \in DOMAIN db.rows[t],
         NEW c \in Columns, NEW v \in Nat, t \in UserTables => c \in db.schema[t],
         NEW new, new = UpdateRows(db, t, c, One(k, v))
  PROVE  DBInv(new) /\ LeadsBack(db, RowRecord(t, k, [column |-> c, value |-> db.rows[t][k][c]]), new)
<1> DEFINE R == db.rows[t]
<1>1. /\ t \in Tables /\ c \in ColumnsIn(t) /\ v \in ValuesIn(t) /\ t # "tables"
      /\ DBType(db) /\ R \in [DOMAIN R -> PlainRows] /\ DOMAIN R \in SUBSET (Nat \X Nat)
  BY TableNames DEF DBInv, DBType, IsRows, ColumnsIn, ValuesIn
<1>2. ASSUME NEW x \in DOMAIN R, x[2] = k[2], t \in KeyTables => x[1] = k[1] PROVE x = k
  <2>1. CASE t = "keys"
    <3>1. x \in Nat \X Nat /\ k \in Nat \X Nat
      BY <1>1
    <3>2. x[1] = k[1]
      BY <1>2, <2>1, TableNames
    <3> QED
      BY <3>1, <3>2, <1>2
  <2>2. CASE t # "keys"
    BY <2>2, <1>1, <1>2 DEF DBInv, KeysInv
  <2> QED
    BY <2>1, <2>2
<1>3. /\ DBType(new)
      /\ LeadsBack(db, RowRecord(t, k, [column |-> c, value |-> R[k][c]]), new)
      /\ new.schema = db.schema
      /\ \A u \in Tables : u # t => new.rows[u] = db.rows[u]
      /\ new.rows[t] = UpdatedRow(R, k, c, v)
  <2>1. OnlyRow(db, t, k)
    BY <1>2 DEF OnlyRow
  <2> QED
    BY <2>1, <1>1, UpdateLeadsBack
<1>4. DOMAIN new.rows[t] = DOMAIN R
  BY <1>3 DEF UpdatedRow
<1>5. KeysInv(new)
  <2>1. /\ \A u \in Tables : DOMAIN new.rows[u] \subseteq DOMAIN db.rows[u]
        /\ DOMAIN new.rows["ecosystems"] = DOMAIN db.rows["ecosystems"]
    BY <1>3, <1>4, TableNames
  <2> QED
    BY <2>1, KeysKept
<1>6. SchemaInv(new)
  <2>1. SchemaInv(db)
    BY DEF DBInv
  <2>2. ASSUME t \in UserTables, NEW x \in DOMAIN new.rows[t], NEW d \in Columns \ new.schema[t],
               new.schema[t] # NoTable
        PROVE  new.rows[t][x][d] = Absent
    <3>1. R[x][d] = Absent /\ d # c /\ x \in DOMAIN R
      BY <2>1, <2>2, <1>3, <1>4 DEF SchemaInv
    <3> QED
      BY <3>1, <1>1, <1>3 DEF PlainRows, UpdatedRow
  <2>3. \A u \in UserTables \cup {"tables"} : u # t => new.rows[u] = db.rows[u]
    BY <1>3, TableNames
  <2>4. new.rows["tables"] = db.rows["tables"]
    BY <2>3, TableNames
  <2> QED
    BY <2>1, <2>2, <2>3, <2>4, <1>3, <1>4 DEF SchemaInv
<1> QED
  BY <1>3, <1>5, <1>6 DEF DBInv

\* The column "columns" of a row of 1_tables.
LEMMA EntryUpdated ==
  ASSUME NEW db, DBInv(db), NEW k \in DOMAIN db.rows["tables"], NEW v \in ColumnLists,
         NEW new, new = UpdateRows(db, "tables", "columns", One(k, v))
  PROVE  /\ DBInv(new)
         /\ LeadsBack(db, RowRecord("tables", k,
              [column |-> "columns", value |-> db.rows["tables"][k]["columns"]]), new)
         /\ new.schema = db.schema
         /\ \A u \in Tables : u # "tables" => new.rows[u] = db.rows[u]
<1> DEFINE T == db.rows["tables"]
<1>1. /\ "tables" \in Tables /\ "columns" \in ColumnsIn("tables") /\ v \in ValuesIn("tables")
      /\ "tables" \notin KeyTables
      /\ DBType(db) /\ T \in [DOMAIN T -> TableEntries]
  BY TableNames DEF DBInv, DBType, IsRows, ColumnsIn, ValuesIn
<1>2. \A x \in DOMAIN T : x[2] = k[2] => x = k
  BY <1>1, TableNames DEF DBInv, KeysInv
<1>3. /\ DBType(new)
      /\ LeadsBack(db, RowRecord("tables", k, [column |-> "columns", value |-> T[k]["columns"]]), new)
      /\ new.schema = db.schema
      /\ \A u \in Tables : u # "tables" => new.rows[u] = db.rows[u]
      /\ new.rows["tables"] = UpdatedRow(T, k, "columns", v)
  <2>1. OnlyRow(db, "tables", k)
    BY <1>2 DEF OnlyRow
  <2> QED
    BY <2>1, <1>1, UpdateLeadsBack
<1>4. /\ DOMAIN new.rows["tables"] = DOMAIN T
      /\ \A x \in DOMAIN T : new.rows["tables"][x].name = T[x].name
  BY <1>1, <1>3 DEF TableEntries, UpdatedRow
<1>5. KeysInv(new)
  <2>1. /\ \A u \in Tables : DOMAIN new.rows[u] \subseteq DOMAIN db.rows[u]
        /\ DOMAIN new.rows["ecosystems"] = DOMAIN db.rows["ecosystems"]
    BY <1>3, <1>4, TableNames
  <2> QED
    BY <2>1, KeysKept
<1>6. SchemaInv(new)
  <2>1. SchemaInv(db)
    BY DEF DBInv
  <2>2. \A u \in UserTables : new.rows[u] = db.rows[u]
    BY <1>3, TableNames
  <2> QED
    BY <2>1, <2>2, <1>3, <1>4 DEF SchemaInv
<1> QED
  BY <1>3, <1>5, <1>6 DEF DBInv

LEMMA TableCreated ==
  ASSUME Exact, NEW db, DBInv(db), NEW t \in UserTables, NEW cols \in SUBSET Columns,
         db.schema[t] = NoTable, Exists(db, EcosystemOf[t]),
         NEW k, k = <<EcosystemOf[t], NextID(db, "tables")>>,
         NEW mid, mid = InsertRow(db, "tables", k, [name |-> NameOf[t], columns |-> [c \in cols |-> 0]]),
         NEW new, new = CreateSQL(mid, t, cols)
  PROVE  /\ DBType(mid) /\ LeadsBack(db, RowRecord("tables", k, NoData), mid)
         /\ DBInv(new) /\ LeadsBack(mid, SysRecord("NewTable", t, NoData), new)
<1> DEFINE T == db.rows["tables"]
           row == [name |-> NameOf[t], columns |-> [c \in cols |-> 0]]
<1>1. /\ NextID(db, "tables") \in Nat /\ \A x \in DOMAIN T : x[2] < NextID(db, "tables")
  BY TableNames, NextIDIsNew
<1>2. DBType(db) /\ T \in [DOMAIN T -> TableEntries] /\ DOMAIN T \in SUBSET (Nat \X Nat)
  BY TableNames DEF DBInv, DBType, IsRows
<1>3. /\ k \in Nat \X Nat /\ k[1] = EcosystemOf[t] /\ \A x \in DOMAIN T : x[2] # k[2]
      /\ k \notin DOMAIN T
  <2>1. EcosystemOf[t] \in Nat
    BY RowAssumption
  <2> QED
    BY <2>1, <1>1, <1>2
<1>4. row \in TableEntries /\ row.name = NameOf[t]
  <2>1. [c \in cols |-> 0] \in ColumnLists
    BY DEF ColumnLists
  <2> QED
    BY <2>1 DEF TableEntries, Names
<1> HIDE DEF row
<1>5. /\ DBType(mid) /\ LeadsBack(db, RowRecord("tables", k, NoData), mid)
      /\ mid.schema = db.schema
      /\ \A u \in Tables : u # "tables" => mid.rows[u] = db.rows[u]
      /\ mid.rows["tables"] = Inserted(T, k, row)
  <2>1. /\ mid = InsertRow(db, "tables", k, row) /\ "tables" \in Tables /\ row \in RowsOf("tables")
    BY <1>4, TableNames DEF row
  <2> QED
    BY ONLY <2>1, <1>2, <1>3, InsertLeadsBack DEF T
<1>6. SchemaInv(db)
  BY DEF DBInv
<1>7. mid.schema[t] = NoTable /\ DOMAIN mid.rows[t] = {}
  BY <1>5, <1>6, TableNames DEF SchemaInv
<1>8. /\ DBType(new) /\ LeadsBack(mid, SysRecord("NewTable", t, NoData), new)
      /\ new.schema[t] = cols
      /\ \A u \in UserTables : u # t => new.schema[u] = db.schema[u]
      /\ \A u \in Tables : new.rows[u] = mid.rows[u]
  BY <1>5, <1>7, NewTableLeadsBack
<1>9. /\ \A u \in Tables : u # "tables" => new.rows[u] = db.rows[u]
      /\ DOMAIN new.rows["tables"] = DOMAIN T \cup {k}
      /\ new.rows["tables"][k] = row
      /\ \A x \in DOMAIN T : new.rows["tables"][x] = T[x]
  BY ONLY <1>3, <1>5, <1>8, TableNames DEF Inserted
<1>10. KeysInv(new)
  <2>1. /\ \A u \in Tables : u # "tables" => DOMAIN new.rows[u] = DOMAIN db.rows[u]
        /\ "tables" \notin UserTables \cup {"ecosystems"} /\ Exists(db, k[1]) /\ "tables" \in Tables
    BY <1>3, <1>9, TableNames
  <2> QED
    BY ONLY <2>1, <1>3, <1>9, DBInv(db), KeysInserted DEF T
<1>11. SchemaInv(new)
  <2> DEFINE U == new.rows["tables"]
  <2>1. \A x \in DOMAIN T : T[x].name # NameOf[t]
    BY <1>6 DEF SchemaInv
  <2>2. ASSUME NEW x \in DOMAIN U, NEW y \in DOMAIN U, U[x].name = U[y].name PROVE x = y
    BY <2>1, <2>2, <1>4, <1>6, <1>9 DEF SchemaInv
  <2>3. cols # NoTable /\ DOMAIN new.rows[t] = {}
    BY <1>6, <1>9, RowAssumption, TableNames DEF SchemaInv
  <2>4. ASSUME NEW u \in UserTables, u # t
        PROVE  /\ new.schema[u] = NoTable => /\ DOMAIN new.rows[u] = {}
                                             /\ \A x \in DOMAIN U : U[x].name # NameOf[u]
               /\ new.schema[u] # NoTable =>
                    \A x \in DOMAIN new.rows[u], c \in Columns \ new.schema[u] : new.rows[u][x][c] = Absent
    <3>1. NameOf[u] # NameOf[t] /\ new.rows[u] = db.rows[u] /\ new.schema[u] = db.schema[u]
      BY <2>4, <1>8, <1>9, TableNames DEF Exact
    <3> QED
      BY <3>1, <1>4, <1>6, <1>9 DEF SchemaInv
  <2> QED
    <3>1. new.schema[t] = cols
      BY <1>8
    <3> HIDE DEF U
    <3> QED
      BY ONLY <2>2, <2>3, <2>4, <3>1 DEF SchemaInv, U
<1> QED
  BY <1>5, <1>8, <1>10, <1>11 DEF DBInv

LEMMA ColumnCreated ==
  ASSUME NEW db, DBInv(db), NEW t \in UserTables, NEW c \in Columns,
         db.schema[t] # NoTable, c \notin db.schema[t], NEW new, new = AddColumnSQL(db, t, c)
  PROVE  DBInv(new) /\ LeadsBack(db, SysRecord("NewColumn", t, c), new)
<1> DEFINE R == db.rows[t]
<1>1. /\ DBType(db) /\ SchemaInv(db) /\ t \in Tables
      /\ R \in [DOMAIN R -> PlainRows] /\ db.schema \in [UserTables -> ColumnSets]
  BY TableNames DEF DBInv, DBType, IsRows
<1>2. \A k \in DOMAIN R : R[k][c] = Absent
  BY <1>1 DEF SchemaInv
<1>3. /\ DBType(new) /\ LeadsBack(db, SysRecord("NewColumn", t, c), new)
      /\ new.schema[t] = db.schema[t] \cup {c}
      /\ \A u \in UserTables : u # t => new.schema[u] = db.schema[u]
      /\ \A u \in Tables : u # t => new.rows[u] = db.rows[u]
      /\ new.rows[t] = Filled(R, c, 0)
  BY <1>1, <1>2, NewColumnLeadsBack
<1>4. DOMAIN new.rows[t] = DOMAIN R
  BY <1>3 DEF Filled
<1>5. KeysInv(new)
  <2>1. /\ \A u \in Tables : DOMAIN new.rows[u] \subseteq DOMAIN db.rows[u]
        /\ DOMAIN new.rows["ecosystems"] = DOMAIN db.rows["ecosystems"]
    BY <1>3, <1>4, TableNames
  <2> QED
    BY <2>1, KeysKept
<1>6. SchemaInv(new)
  <2>1. new.schema[t] # NoTable
    BY <1>1, <1>3, RowAssumption DEF ColumnSets
  <2>2. ASSUME NEW x \in DOMAIN new.rows[t], NEW d \in Columns \ new.schema[t]
        PROVE  new.rows[t][x][d] = Absent
    <3>1. R[x][d] = Absent /\ d # c /\ x \in DOMAIN R
      BY <1>1, <1>3, <1>4 DEF SchemaInv
    <3> QED
      BY <3>1, <1>1, <1>3 DEF Filled, PlainRows
  <2>3. new.rows["tables"] = db.rows["tables"] /\ \A u \in UserTables : u # t => new.rows[u] = db.rows[u]
    BY <1>3, TableNames
  <2>4. ASSUME NEW u \in UserTables, u # t
        PROVE  /\ new.schema[u] = NoTable =>
                    /\ DOMAIN new.rows[u] = {}
                    /\ \A x \in DOMAIN new.rows["tables"] : new.rows["tables"][x].name # NameOf[u]
               /\ new.schema[u] # NoTable =>
                    \A x \in DOMAIN new.rows[u], d \in Columns \ new.schema[u] : new.rows[u][x][d] = Absent
    BY <2>3, <2>4, <1>1, <1>3 DEF SchemaInv
  <2> QED
    BY <2>1, <2>2, <2>3, <2>4, <1>1 DEF SchemaInv
<1> QED
  BY <1>3, <1>5, <1>6 DEF DBInv

LEMMA ColumnDropped ==
  ASSUME NEW db, DBInv(db), NEW t \in UserTables, NEW c \in Columns, DOMAIN db.rows[t] = {},
         db.schema[t] # NoTable, c \in db.schema[t], NEW new, new = DropColumnSQL(db, t, c)
  PROVE  DBInv(new) /\ LeadsBack(db, SysRecord("DeleteColumn", t, c), new)
<1>1. DBType(db) /\ SchemaInv(db) /\ t \in Tables /\ db.schema \in [UserTables -> ColumnSets]
  BY TableNames DEF DBInv, DBType
<1>2. /\ DBType(new) /\ LeadsBack(db, SysRecord("DeleteColumn", t, c), new)
      /\ new.schema[t] = db.schema[t] \ {c}
      /\ \A u \in UserTables : u # t => new.schema[u] = db.schema[u]
      /\ \A u \in Tables : new.rows[u] = db.rows[u]
  BY <1>1, DeleteColumnLeadsBack
<1>3. KeysInv(new)
  BY <1>2, TableNames, KeysKept
<1>4. SchemaInv(new)
  <2>1. new.schema[t] # NoTable
    BY <1>1, <1>2, RowAssumption DEF ColumnSets
  <2>2. new.rows["tables"] = db.rows["tables"] /\ \A u \in UserTables : new.rows[u] = db.rows[u]
    BY <1>2, TableNames
  <2>3. ASSUME NEW u \in UserTables, u # t
        PROVE  /\ new.schema[u] = NoTable =>
                    /\ DOMAIN new.rows[u] = {}
                    /\ \A x \in DOMAIN new.rows["tables"] : new.rows["tables"][x].name # NameOf[u]
               /\ new.schema[u] # NoTable =>
                    \A x \in DOMAIN new.rows[u], d \in Columns \ new.schema[u] : new.rows[u][x][d] = Absent
    BY <2>2, <2>3, <1>1, <1>2 DEF SchemaInv
  <2> QED
    BY <2>1, <2>2, <2>3, <1>1 DEF SchemaInv
<1> QED
  BY <1>2, <1>3, <1>4 DEF DBInv

LEMMA TableDropped ==
  ASSUME NEW db, DBInv(db), NEW t \in UserTables, db.schema[t] # NoTable, DOMAIN db.rows[t] = {},
         NEW k \in TableRows(db, t), NEW cols \in SUBSET Columns,
         NEW new, new = DropSQL(DeleteRows(db, "tables", {k}), t)
  PROVE  /\ DBInv(new)
         /\ LeadsBack(db, SysRecord("DeleteTable", t,
              [key |-> k, row |-> db.rows["tables"][k], cols |-> cols]), new)
<1> DEFINE T == db.rows["tables"]
           U == new.rows["tables"]
<1>1. DBType(db) /\ SchemaInv(db) /\ k \in DOMAIN T /\ T[k].name = NameOf[t]
  BY DEF DBInv, TableRows
<1>2. /\ DBType(new)
      /\ LeadsBack(db, SysRecord("DeleteTable", t,
           [key |-> k, row |-> db.rows["tables"][k], cols |-> cols]), new)
      /\ new.schema[t] = NoTable
      /\ \A u \in UserTables : u # t => new.schema[u] = db.schema[u]
      /\ \A u \in Tables : u # "tables" => new.rows[u] = db.rows[u]
      /\ U = Deleted(T, {k})
  <2>1. k \in DOMAIN db.rows["tables"] /\ DBType(db)
    BY <1>1
  <2> QED
    BY <2>1, DeleteTableLeadsBack
<1> HIDE DEF U
<1>3. DOMAIN U = DOMAIN T \ {k} /\ \A x \in DOMAIN U : U[x] = T[x]
  BY ONLY <1>2 DEF Deleted
<1>4. KeysInv(new)
  <2>1. /\ \A u \in Tables : DOMAIN new.rows[u] \subseteq DOMAIN db.rows[u]
        /\ DOMAIN new.rows["ecosystems"] = DOMAIN db.rows["ecosystems"]
    BY <1>2, <1>3, TableNames DEF U
  <2> QED
    BY <2>1, KeysKept
<1>5. SchemaInv(new)
  <2>1. \A x \in DOMAIN U : U[x].name # NameOf[t]
    BY <1>1, <1>3 DEF SchemaInv
  <2>2. \A x, y \in DOMAIN U : U[x].name = U[y].name => x = y
    BY <1>1, <1>3 DEF SchemaInv
  <2>3. \A u \in UserTables : new.rows[u] = db.rows[u]
    BY <1>2, TableNames
  <2>4. ASSUME NEW u \in UserTables, u # t
        PROVE  /\ new.schema[u] = NoTable =>
                    /\ DOMAIN new.rows[u] = {}
                    /\ \A x \in DOMAIN U : U[x].name # NameOf[u]
               /\ new.schema[u] # NoTable =>
                    \A x \in DOMAIN new.rows[u], d \in Columns \ new.schema[u] : new.rows[u][x][d] = Absent
    <3>1. new.rows[u] = db.rows[u] /\ new.schema[u] = db.schema[u]
      BY <2>3, <2>4, <1>2
    <3> QED
      BY ONLY <3>1, <1>1, <1>3, u \in UserTables DEF SchemaInv, T
  <2> QED
    <3>1. new.schema[t] = NoTable /\ DOMAIN new.rows[t] = {}
      BY <2>3, <1>2
    <3> QED
      BY ONLY <3>1, <2>1, <2>2, <2>4 DEF SchemaInv, U
<1> QED
  BY <1>2, <1>4, <1>5 DEF DBInv

\* CreateEcosystem: the guest, the founder and the row of 1_ecosystems.
LEMMA EcosystemFounded ==
  ASSUME NEW db, DBInv(db), NEW e, e = NextID(db, "ecosystems"),
         NEW founder \in Ids, NEW guest \in Ids, founder # guest,
         NEW d1, d1 = InsertRow(db, "keys", <<e, guest>>, Row(Columns, 0)),
         NEW d2, d2 = InsertRow(d1, "keys", <<e, founder>>, Row(Columns, 0)),
         NEW new, new = InsertRow(d2, "ecosystems", <<0, e>>, Row(Columns, 0))
  PROVE  /\ DBType(d1) /\ LeadsBack(db, SysRecord("NewEcosystem", "keys", e), d1)
         /\ DBType(d2) /\ LeadsBack(d1, RowRecord("keys", <<e, founder>>, NoData), d2)
         /\ DBInv(new) /\ LeadsBack(d2, RowRecord("ecosystems", <<0, e>>, NoData), new)
<1> DEFINE row == Row(Columns, 0)
           E == DOMAIN db.rows["ecosystems"]
           K == DOMAIN db.rows["keys"]
           kg == <<e, guest>>
           kf == <<e, founder>>
           ke == <<0, e>>
<1>1. /\ DBType(db) /\ KeysInv(db) /\ E \in SUBSET (Nat \X Nat)
      /\ e \in Nat /\ \A x \in E : x[2] < e
      /\ founder \in Nat /\ guest \in Nat
  BY TableNames, NextIDIsNew, RowAssumption DEF DBInv, DBType, IsRows
<1>2. row \in PlainRows
  BY DEF Row, PlainRows
<1>3. ASSUME NEW t \in SharedTables, NEW x \in DOMAIN db.rows[t] PROVE x[1] # e
  <2>1. <<0, x[1]>> \in E
    BY <1>1, <1>3 DEF KeysInv, Exists
  <2>2. <<0, x[1]>>[2] < e
    BY <2>1, <1>1
  <2> QED
    BY <2>2, <1>1
<1>4. /\ kg \in Nat \X Nat /\ kf \in Nat \X Nat /\ ke \in Nat \X Nat
      /\ kg[1] = e /\ kf[1] = e /\ ke[1] = 0 /\ ke[2] = e /\ kg[2] # kf[2]
  BY <1>1
<1> HIDE DEF row
<1>5. /\ DBType(d1) /\ LeadsBack(db, SysRecord("NewEcosystem", "keys", e), d1)
      /\ d1.schema = db.schema
      /\ \A u \in Tables : u # "keys" => d1.rows[u] = db.rows[u]
      /\ d1.rows["keys"] = Inserted(db.rows["keys"], kg, row)
  BY <1>1, <1>2, <1>3, NewEcosystemLeadsBack DEF row
<1>6. DOMAIN d1.rows["keys"] = K \cup {kg}
  BY <1>5 DEF Inserted
<1> HIDE DEF kg, kf, ke
<1>7. \A x \in DOMAIN d1.rows["keys"] : ~(x[2] = kf[2] /\ x[1] = kf[1])
  BY <1>3, <1>4, <1>6, TableNames
<1>8. /\ DBType(d2) /\ LeadsBack(d1, RowRecord("keys", kf, NoData), d2)
      /\ d2.schema = d1.schema
      /\ \A u \in Tables : u # "keys" => d2.rows[u] = d1.rows[u]
      /\ d2.rows["keys"] = Inserted(d1.rows["keys"], kf, row)
  <2>1. d2 = InsertRow(d1, "keys", kf, row) /\ "keys" \in Tables /\ row \in RowsOf("keys")
    BY <1>2, TableNames DEF kf, row
  <2>2. \A x \in DOMAIN d1.rows["keys"] : ~(x[2] = kf[2] /\ ("keys" \in KeyTables => x[1] = kf[1]))
    BY <1>7, TableNames
  <2>3. DBType(d1) /\ kf \in Nat \X Nat
    BY <1>4, <1>5
  <2> QED
    BY ONLY <2>1, <2>2, <2>3, InsertLeadsBack
<1>9. DOMAIN d2.rows["keys"] = K \cup {kg, kf}
  BY <1>6, <1>8 DEF Inserted
<1>10. DOMAIN d2.rows["ecosystems"] = E
  BY <1>5, <1>8, TableNames
<1>11. /\ DBType(new) /\ LeadsBack(d2, RowRecord("ecosystems", ke, NoData), new)
       /\ new.schema = d2.schema
       /\ \A u \in Tables : u # "ecosystems" => new.rows[u] = d2.rows[u]
       /\ new.rows["ecosystems"] = Inserted(d2.rows["ecosystems"], ke, row)
  <2>1. new = InsertRow(d2, "ecosystems", ke, row) /\ "ecosystems" \in Tables /\ row \in RowsOf("ecosystems")
    BY <1>2, TableNames DEF ke, row
  <2>2. \A x \in DOMAIN d2.rows["ecosystems"] : x[2] # ke[2]
    BY <1>1, <1>4, <1>10
  <2>3. DBType(d2) /\ ke \in Nat \X Nat
    BY <1>4, <1>8
  <2> QED
    BY ONLY <2>1, <2>2, <2>3, InsertLeadsBack
<1>12. DOMAIN new.rows["ecosystems"] = E \cup {ke}
  BY <1>10, <1>11 DEF Inserted
<1>13. /\ DOMAIN new.rows["keys"] = K \cup {kg, kf}
       /\ \A u \in UserTables \cup {"tables"} : new.rows[u] = db.rows[u]
       /\ new.schema = db.schema
  BY <1>5, <1>8, <1>9, <1>11, TableNames
<1>14. SchemaInv(new)
  BY <1>13, SchemaKept
<1>15. KeysInv(new)
  <2>1. ASSUME NEW t \in Tables \ {"keys"} , t # "ecosystems"
        PROVE  new.rows[t] = db.rows[t]
    BY <2>1, <1>13 DEF Tables, SharedTables
  <2>2. \A x \in E \cup {ke}, y \in E \cup {ke} : x[2] = y[2] => x = y
    BY <1>1, <1>4, TableNames DEF KeysInv
  <2>3. \A t \in Tables \ {"keys"} : \A k, l \in DOMAIN new.rows[t] : k[2] = l[2] => k = l
    BY <2>1, <2>2, <1>1, <1>12 DEF KeysInv
  <2>4. \A t \in UserTables \cup {"ecosystems"} : \A k \in DOMAIN new.rows[t] : k[1] = 0
    BY <1>1, <1>4, <1>12, <1>13 DEF KeysInv
  <2>5. Exists(new, e) /\ \A i : Exists(db, i) => Exists(new, i)
    BY <1>12 DEF Exists, ke
  <2>6. ASSUME NEW t \in SharedTables, NEW k \in DOMAIN new.rows[t] PROVE Exists(new, k[1])
    <3>1. CASE t = "keys"
      BY <3>1, <2>5, <2>6, <1>1, <1>4, <1>13 DEF KeysInv
    <3>2. CASE t = "tables"
      BY <3>2, <2>5, <2>6, <1>1, <1>13 DEF KeysInv
    <3> QED
      BY <3>1, <3>2, TableNames
  <2>7. \A x \in E \cup {ke} : x[2] <= e
    BY <1>1, <1>4
  <2>8. ASSUME NEW t \in Tables \ {"keys"}
        PROVE  \E n \in Nat : \A k \in DOMAIN new.rows[t] : k[2] <= n
    BY <2>1, <2>7, <1>1, <1>12 DEF KeysInv
  <2> QED
    BY <2>3, <2>4, <2>6, <2>8 DEF KeysInv
<1> QED
  BY <1>5, <1>8, <1>11, <1>14, <1>15 DEF DBInv, kf, ke

-----------------------------------------------------------------------------
(***************************************************************************)
(* The actions of contracts.                                               *)
(***************************************************************************)

\* A state of the database transaction that the block being played may lead to.
IsPlayed(w) ==
  /\ IsState(w) /\ w.chain = NewChain
  /\ Playing(w.db, w.log, NewChain, committed.db, Len(committed.log))

LEMMA LoggedParts ==
  ASSUME NEW w, IsState(w), NEW rec, NEW newdb, NEW x, x = Logged(w, rec, newdb)
  PROVE  x.db = newdb /\ x.log = Append(w.log, rec) /\ x.chain = w.chain /\ IsState(x)
BY DEF Logged, IsState

LEMMA LoggedIsPlayed ==
  ASSUME NEW w, IsPlayed(w), NEW rec, NEW newdb, DBType(newdb), LeadsBack(w.db, rec, newdb),
         rec.type = "DeleteTable" => rec.data.cols = ColumnsOf(committed.db.schema, rec.table),
         NEW x, x = Logged(w, rec, newdb)
  PROVE  IsPlayed(x) /\ x.db = newdb
<1>1. x.db = newdb /\ x.log = Append(w.log, rec) /\ x.chain = w.chain /\ IsState(x)
  BY LoggedParts DEF IsPlayed
<1>2. Playing(newdb, Append(w.log, rec), NewChain, committed.db, Len(committed.log))
  BY PlayRecord DEF IsPlayed
<1> QED
  BY <1>1, <1>2 DEF IsPlayed

LEMMA WorkIsPlayed ==
  ASSUME RowInv, mode = "block"
  PROVE  IsPlayed(work) /\ DBInv(work.db) /\ DBType(work.db) /\ DBInv(committed.db)
BY DEF RowInv, PlayInv, CommittedInv, IsPlayed, DBInv

LEMMA PlayedKeeps ==
  ASSUME RowInv, NEW w, Played(w), IsPlayed(w), DBInv(w.db)
  PROVE  RowInv'
<1>1. mode = "block" /\ work' = w /\ committed' = committed /\ sp' = sp /\ mode' = mode
  BY DEF Played
<1>2. NewChain' = NewChain
  BY <1>1 DEF NewChain
<1> QED
  BY <1>1, <1>2 DEF RowInv, CommittedInv, PlayInv, UndoInv, IsPlayed

\* An insert and an update, each with its record.
LEMMA InsertIsPlayed ==
  ASSUME NEW w, IsPlayed(w), NEW t, NEW k, NEW row, NEW new, new = InsertRow(w.db, t, k, row),
         DBType(new), LeadsBack(w.db, RowRecord(t, k, NoData), new)
  PROVE  IsPlayed(insert(w, t, k, row)) /\ insert(w, t, k, row).db = new
<1> DEFINE rec == RowRecord(t, k, NoData)
<1>1. insert(w, t, k, row) = Logged(w, rec, new) /\ rec.type # "DeleteTable"
  BY DEF insert, RowRecord
<1> HIDE DEF rec
<1> QED
  BY <1>1, LoggedIsPlayed DEF rec

LEMMA UpdateIsPlayed ==
  ASSUME NEW w, IsPlayed(w), NEW t, NEW k, NEW c, NEW f, NEW new, new = UpdateRows(w.db, t, c, f),
         SavedValue(t, c, w.db.rows[t][k][c]) = w.db.rows[t][k][c],
         DBType(new), LeadsBack(w.db, RowRecord(t, k, [column |-> c, value |-> w.db.rows[t][k][c]]), new)
  PROVE  IsPlayed(update(w, t, k, c, f)) /\ update(w, t, k, c, f).db = new
<1> DEFINE rec == RowRecord(t, k, [column |-> c, value |-> w.db.rows[t][k][c]])
<1>1. update(w, t, k, c, f) = Logged(w, rec, new) /\ rec.type # "DeleteTable"
  BY DEF update, RowRecord
<1> HIDE DEF rec
<1> QED
  BY <1>1, LoggedIsPlayed DEF rec

LEMMA KeyRows ==
  /\ \A v \in Values : KeyRow(v) \in PlainRows /\ v \in Nat /\ v \in 0..9
  /\ Ids \subseteq Nat /\ Ecosystems \subseteq Nat
BY RowAssumption DEF KeyRow, PlainRows

LEMMA KeyIsPlayed ==
  ASSUME RowInv, mode = "block", NEW e \in Ecosystems, NEW id \in Ids, NEW v \in Values,
         Exists(work.db, e), <<e, id>> \notin DOMAIN work.db.rows["keys"],
         Played(insert(work, "keys", <<e, id>>, KeyRow(v)))
  PROVE  RowInv'
<1> DEFINE k == <<e, id>>
           row == KeyRow(v)
           new == InsertRow(work.db, "keys", k, row)
<1>1. IsPlayed(work) /\ DBInv(work.db) /\ row \in PlainRows /\ e \in Nat /\ id \in Nat
  BY WorkIsPlayed, KeyRows
<1>2. DBInv(new) /\ LeadsBack(work.db, RowRecord("keys", k, NoData), new)
  BY <1>1, KeyInserted
<1>3. DBType(new)
  BY <1>2 DEF DBInv
<1> HIDE DEF row, k
<1>4. IsPlayed(insert(work, "keys", k, row)) /\ insert(work, "keys", k, row).db = new
  BY <1>1, <1>2, <1>3, InsertIsPlayed
<1> HIDE DEF new
<1> QED
  BY <1>2, <1>4, PlayedKeeps DEF k, row

LEMMA InsertKeyKeeps ==
  ASSUME Exact, RowInv, NEW e \in Ecosystems, NEW id \in Ids, NEW v \in Values,
         InsertKey(e, id, v) \/ NewMoney(e, id, v)
  PROVE  RowInv'
<1>1. /\ Exists(work.db, e) /\ <<e, id>> \notin DOMAIN work.db.rows["keys"]
      /\ Played(insert(work, "keys", <<e, id>>, KeyRow(v)))
  BY DEF Exact, InsertKey, NewMoney
<1>2. mode = "block"
  BY <1>1 DEF Played
<1> QED
  BY <1>1, <1>2, KeyIsPlayed

LEMMA DBInsertKeeps ==
  ASSUME RowInv, NEW t \in UserTables, NEW v \in Values, DBInsert(t, v)
  PROVE  RowInv'
<1> DEFINE k == <<0, NextID(work.db, t)>>
           row == Row(work.db.schema[t], v)
           new == InsertRow(work.db, t, k, row)
           w == insert(work, t, k, row)
<1>1. work.db.schema[t] # NoTable /\ Played(w) /\ mode = "block"
  BY DEF DBInsert, Played
<1>2. IsPlayed(work) /\ DBInv(work.db)
  BY <1>1, WorkIsPlayed
<1>3. DBInv(new) /\ LeadsBack(work.db, RowRecord(t, k, NoData), new)
  BY <1>1, <1>2, RowInserted
<1>4. DBType(new)
  BY <1>3 DEF DBInv
<1> HIDE DEF row, k
<1>5. IsPlayed(w) /\ w.db = new
  BY <1>2, <1>3, <1>4, InsertIsPlayed
<1> HIDE DEF new, w
<1> QED
  BY <1>1, <1>3, <1>5, PlayedKeeps

\* An update of one row of a key table or of a table of contracts.
LEMMA RowUpdateKeeps ==
  ASSUME RowInv, mode = "block", NEW t \in UserTables \cup {"keys"}, NEW k \in DOMAIN work.db.rows[t],
         NEW c \in Columns, NEW v \in Nat, t \in UserTables => c \in work.db.schema[t],
         IsByteColumn(t, c) => work.db.rows[t][k][c] = 0,
         Played(update(work, t, k, c, One(k, v)))
  PROVE  RowInv'
<1> DEFINE old == work.db.rows[t][k][c]
           new == UpdateRows(work.db, t, c, One(k, v))
           w == update(work, t, k, c, One(k, v))
<1>1. IsPlayed(work) /\ DBInv(work.db)
  BY WorkIsPlayed
<1>2. DBInv(new) /\ LeadsBack(work.db, RowRecord(t, k, [column |-> c, value |-> old]), new)
  BY <1>1, RowUpdated
<1>3. DBType(new)
  BY <1>2 DEF DBInv
<1>4. SavedValue(t, c, old) = old
  BY DEF SavedValue
<1>5. IsPlayed(w) /\ w.db = new
  BY <1>1, <1>2, <1>3, <1>4, UpdateIsPlayed
<1> HIDE DEF new, w
<1>6. Played(w)
  BY DEF w
<1> QED
  BY <1>2, <1>5, <1>6, PlayedKeeps

LEMMA DBUpdateExtKeeps ==
  ASSUME Exact, RowInv, NEW t \in UserTables \cup {"keys"}, NEW e, NEW column, NEW value,
         NEW c \in Columns, NEW kind \in {"set", "+"}, NEW v \in Values,
         DBUpdateExt(t, e, column, value, c, kind, v)
  PROVE  RowInv'
<1> DEFINE K == Where(work.db, t, e, column, value)
           new == [k \in K |-> IF kind = "+" THEN work.db.rows[t][k][c] + v ELSE v]
<1>1. /\ t \in UserTables => work.db.schema[t] # NoTable /\ {c, column} \subseteq work.db.schema[t] \cup {"id"}
      /\ ManyRows \/ \A k, l \in K : k = l
      /\ kind = "+" => \A k \in K : work.db.rows[t][k][c] + v \in Values
      /\ IsByteColumn(t, c) => Rekey \/ \A k \in K : work.db.rows[t][k][c] = 0
  BY DEF DBUpdateExt
<1>2. PICK k \in K : Played(update(work, t, k, c, new))
  BY DEF DBUpdateExt
<1>3. k \in DOMAIN work.db.rows[t]
  BY <1>2 DEF Where
<1> HIDE DEF K
<1>4. K = {k} /\ (IsByteColumn(t, c) => work.db.rows[t][k][c] = 0)
  BY <1>1, <1>2 DEF Exact
<1>5. t \in UserTables => c \in work.db.schema[t]
  BY <1>1, RowAssumption
<1> DEFINE x == IF kind = "+" THEN work.db.rows[t][k][c] + v ELSE v
<1>6. x \in Values
  BY <1>1, <1>2
<1>7. new = One(k, x)
  BY <1>4 DEF One
<1>8. x \in Nat
  BY <1>6, KeyRows
<1> HIDE DEF x, new
<1>9. Played(update(work, t, k, c, One(k, x))) /\ mode = "block"
  BY <1>2, <1>7 DEF Played
<1> QED
  BY <1>3, <1>4, <1>5, <1>8, <1>9, RowUpdateKeeps

LEMMA SetPubKeyKeeps ==
  ASSUME Exact, RowInv, NEW id \in Ids, NEW v \in Values, SetPubKey(id, v)
  PROVE  RowInv'
<1> DEFINE K == Where(work.db, "keys", 1, "id", id)
<1>1. PICK k \in K : /\ Rekey \/ work.db.rows["keys"][k]["pub"] = 0
                     /\ Played(update(work, "keys", k, "pub", [x \in K |-> v]))
  BY DEF SetPubKey
<1>2. mode = "block"
  BY <1>1 DEF Played
<1>3. DOMAIN work.db.rows["keys"] \in SUBSET (Nat \X Nat)
  BY <1>2, WorkIsPlayed, TableNames DEF DBType, IsRows
<1>4. k \in DOMAIN work.db.rows["keys"] /\ \A x \in K : x \in Nat \X Nat /\ x[1] = 1 /\ x[2] = id
  BY <1>1, <1>3, TableNames DEF Where
<1>5. K = {k}
  <2> HIDE DEF K
  <2>1. ASSUME NEW x \in K PROVE x = k
    BY <1>1, <1>4
  <2> QED
    BY <1>1, <2>1
<1>6. [x \in K |-> v] = One(k, v)
  BY <1>5 DEF One
<1>7. work.db.rows["keys"][k]["pub"] = 0
  BY <1>1 DEF Exact
<1>8. /\ Played(update(work, "keys", k, "pub", One(k, v))) /\ v \in Nat /\ "pub" \in Columns
      /\ "keys" \in UserTables \cup {"keys"} /\ "keys" \notin UserTables
  BY <1>1, <1>6, KeyRows, RowAssumption
<1> QED
  BY <1>2, <1>4, <1>7, <1>8, RowUpdateKeeps

\* The columns in a row of 1_tables.
LEMMA EntryColumns ==
  ASSUME NEW db, DBType(db), NEW k \in DOMAIN db.rows["tables"]
  PROVE  db.rows["tables"][k].columns \in ColumnLists /\ db.rows["tables"][k] \in TableEntries
<1>1. db.rows["tables"][k] \in TableEntries
  BY TableNames DEF DBType, IsRows
<1> QED
  BY <1>1 DEF TableEntries

LEMMA ColumnListsChange ==
  ASSUME NEW old \in ColumnLists, NEW c \in Columns, NEW v \in 0..9
  PROVE  /\ [x \in DOMAIN old \cup {c} |-> IF x = c THEN v ELSE old[x]] \in ColumnLists
         /\ [x \in DOMAIN old \ {c} |-> old[x]] \in ColumnLists
<1>1. PICK S \in SUBSET Columns : old \in [S -> 0..9]
  BY DEF ColumnLists
<1>2. /\ [x \in DOMAIN old \cup {c} |-> IF x = c THEN v ELSE old[x]] \in [S \cup {c} -> 0..9]
      /\ [x \in DOMAIN old \ {c} |-> old[x]] \in [S \ {c} -> 0..9]
  BY <1>1
<1>3. \A f : \A D \in SUBSET Columns : f \in [D -> 0..9] => f \in ColumnLists
  BY Zenon DEF ColumnLists
<1>4. S \cup {c} \in SUBSET Columns /\ S \ {c} \in SUBSET Columns
  OBVIOUS
<1> QED
  BY <1>2, <1>3, <1>4, Zenon

\* An update of "columns", the first record of three operations.
LEMMA EntryIsPlayed ==
  ASSUME RowInv, mode = "block", NEW k \in DOMAIN work.db.rows["tables"], NEW v \in ColumnLists,
         NEW w, w = update(work, "tables", k, "columns", One(k, v))
  PROVE  /\ IsPlayed(w) /\ DBInv(w.db) /\ w.db.schema = work.db.schema
         /\ \A u \in UserTables : w.db.rows[u] = work.db.rows[u]
<1> DEFINE old == work.db.rows["tables"][k]["columns"]
           new == UpdateRows(work.db, "tables", "columns", One(k, v))
<1>1. IsPlayed(work) /\ DBInv(work.db)
  BY WorkIsPlayed
<1>2. /\ DBInv(new) /\ LeadsBack(work.db, RowRecord("tables", k, [column |-> "columns", value |-> old]), new)
      /\ new.schema = work.db.schema
      /\ \A u \in Tables : u # "tables" => new.rows[u] = work.db.rows[u]
  BY <1>1, EntryUpdated
<1>3. DBType(new)
  BY <1>2 DEF DBInv
<1>4. SavedValue("tables", "columns", old) = old
  BY DEF SavedValue, IsByteColumn
<1>5. IsPlayed(w) /\ w.db = new
  BY <1>1, <1>2, <1>3, <1>4, UpdateIsPlayed
<1> HIDE DEF new
<1> QED
  BY <1>2, <1>5, TableNames

LEMMA PermColumnKeeps ==
  ASSUME Exact, RowInv, NEW t \in UserTables, NEW c \in Columns, NEW v \in Values, PermColumn(t, c, v)
  PROVE  RowInv'
<1> DEFINE T == work.db.rows["tables"]
           C == committed.db.rows["tables"]
           K == {k \in DOMAIN T : T[k].name = NameOf[t]}
           read(from) == C[from].columns
           new(from) == [x \in DOMAIN read(from) \cup {c} |-> IF x = c THEN v ELSE read(from)[x]]
<1>1. PICK from \in {k \in DOMAIN C : C[k].name = NameOf[t]}, k \in K :
        Played(update(work, "tables", k, "columns", [x \in K |-> new(from)]))
  BY DEF PermColumn
<1>2. mode = "block"
  BY <1>1 DEF Played
<1>3. DBInv(work.db) /\ DBInv(committed.db)
  BY <1>2, WorkIsPlayed
<1>4. read(from) \in ColumnLists
  BY <1>1, <1>3, EntryColumns DEF DBInv
<1>5. new(from) \in ColumnLists
  BY <1>4, ColumnListsChange, KeyRows
<1>6. k \in DOMAIN T /\ \A x \in K : x = k
  <2>1. \A x, y \in DOMAIN T : T[x].name = T[y].name => x = y
    BY <1>3, Zenon DEF DBInv, SchemaInv
  <2>2. k \in DOMAIN T /\ T[k].name = NameOf[t]
    BY <1>1
  <2> QED
    BY <2>1, <2>2
<1> DEFINE n == new(from)
<1>7. [x \in K |-> n] = One(k, n)
  <2>1. K = {k}
    BY <1>1, <1>6
  <2> HIDE DEF K, n
  <2> QED
    BY <2>1 DEF One
<1>8. Played(update(work, "tables", k, "columns", One(k, n)))
  BY <1>1, <1>7
<1>9. n \in ColumnLists
  BY <1>5
<1> HIDE DEF n, K
<1> DEFINE w == update(work, "tables", k, "columns", One(k, n))
<1>10. IsPlayed(w) /\ DBInv(w.db)
  BY <1>2, <1>6, <1>9, EntryIsPlayed
<1>11. Played(w)
  BY <1>8
<1> HIDE DEF w
<1> QED
  BY <1>10, <1>11, PlayedKeeps

LEMMA CreateTableKeeps ==
  ASSUME Exact, RowInv, NEW t \in UserTables, NEW cols \in SUBSET Columns, CreateTable(t, cols)
  PROVE  RowInv'
<1> DEFINE db == work.db
           k == <<EcosystemOf[t], NextID(db, "tables")>>
           row == [name |-> NameOf[t], columns |-> [c \in cols |-> 0]]
           w == insert(work, "tables", k, row)
           rec == SysRecord("NewTable", t, NoData)
           mid == InsertRow(db, "tables", k, row)
           new == CreateSQL(mid, t, cols)
           x == Logged(w, rec, CreateSQL(w.db, t, cols))
<1>1. Exists(db, EcosystemOf[t]) /\ db.schema[t] = NoTable /\ Played(x) /\ mode = "block"
  BY DEF CreateTable, Played
<1>2. IsPlayed(work) /\ DBInv(db)
  BY <1>1, WorkIsPlayed
<1>3. /\ DBType(mid) /\ LeadsBack(db, RowRecord("tables", k, NoData), mid)
      /\ DBInv(new) /\ LeadsBack(mid, rec, new)
  BY <1>1, <1>2, TableCreated
<1> HIDE DEF k, row
<1>4. IsPlayed(w) /\ w.db = mid
  BY <1>2, <1>3, InsertIsPlayed
<1>5. DBType(new) /\ rec.type # "DeleteTable"
  BY <1>3 DEF DBInv, SysRecord
<1> HIDE DEF w, mid, rec
<1>6. IsPlayed(x) /\ x.db = new
  <2>1. x = Logged(w, rec, new)
    BY <1>4
  <2> HIDE DEF x, new
  <2> QED
    BY <2>1, <1>3, <1>4, <1>5, LoggedIsPlayed
<1> HIDE DEF x, new
<1> QED
  BY <1>1, <1>3, <1>6, PlayedKeeps

LEMMA CreateColumnKeeps ==
  ASSUME RowInv, NEW t \in UserTables, NEW c \in Columns, CreateColumn(t, c)
  PROVE  RowInv'
<1> DEFINE T == work.db.rows["tables"]
           list(k) == [x \in DOMAIN T[k].columns \cup {c} |-> IF x = c THEN 0 ELSE T[k].columns[x]]
           upd(k) == update(work, "tables", k, "columns", [x \in {k} |-> list(k)])
           rec == SysRecord("NewColumn", t, c)
<1>1. work.db.schema[t] # NoTable /\ c \notin work.db.schema[t]
  BY DEF CreateColumn
<1>2. PICK k \in TableRows(work.db, t) :
        Played(Logged(upd(k), rec, AddColumnSQL(upd(k).db, t, c)))
  BY DEF CreateColumn
<1>3. mode = "block" /\ k \in DOMAIN T
  BY <1>2 DEF Played, TableRows
<1>4. list(k) \in ColumnLists
  <2>1. T[k].columns \in ColumnLists
    BY <1>3, WorkIsPlayed, EntryColumns
  <2>2. 0 \in 0..9
    OBVIOUS
  <2> QED
    BY <2>1, <2>2, ColumnListsChange
<1> DEFINE n == list(k)
           w == update(work, "tables", k, "columns", One(k, n))
           new == AddColumnSQL(w.db, t, c)
           x == Logged(w, rec, new)
<1>5. Played(x)
  BY <1>2 DEF One
<1>6. /\ IsPlayed(w) /\ DBInv(w.db) /\ w.db.schema = work.db.schema
  BY <1>3, <1>4, EntryIsPlayed
<1> HIDE DEF w
<1>7. DBInv(new) /\ LeadsBack(w.db, rec, new)
  BY <1>1, <1>6, ColumnCreated
<1>8. DBType(new) /\ rec.type # "DeleteTable"
  BY <1>7 DEF DBInv, SysRecord
<1> HIDE DEF new, rec
<1>9. IsPlayed(x) /\ x.db = new
  BY <1>6, <1>7, <1>8, LoggedIsPlayed
<1> HIDE DEF x
<1> QED
  BY <1>5, <1>7, <1>9, PlayedKeeps

LEMMA DelColumnKeeps ==
  ASSUME RowInv, NEW t \in UserTables, NEW c \in Columns, DelColumn(t, c)
  PROVE  RowInv'
<1> DEFINE T == work.db.rows["tables"]
           list(k) == [y \in DOMAIN T[k].columns \ {c} |-> T[k].columns[y]]
           upd(k) == update(work, "tables", k, "columns", [x \in {k} |-> list(k)])
           rec == SysRecord("DeleteColumn", t, c)
<1>1. work.db.schema[t] # NoTable /\ c \in work.db.schema[t] /\ DOMAIN work.db.rows[t] = {}
  BY DEF DelColumn
<1>2. PICK k \in TableRows(work.db, t) :
        Played(Logged(upd(k), rec, DropColumnSQL(upd(k).db, t, c)))
  BY DEF DelColumn
<1>3. mode = "block" /\ k \in DOMAIN T
  BY <1>2 DEF Played, TableRows
<1>4. list(k) \in ColumnLists
  <2>1. T[k].columns \in ColumnLists
    BY <1>3, WorkIsPlayed, EntryColumns
  <2>2. 0 \in 0..9
    OBVIOUS
  <2> QED
    BY <2>1, <2>2, ColumnListsChange
<1> DEFINE n == list(k)
           w == update(work, "tables", k, "columns", One(k, n))
           new == DropColumnSQL(w.db, t, c)
           x == Logged(w, rec, new)
<1>5. Played(x)
  BY <1>2 DEF One
<1>6. /\ IsPlayed(w) /\ DBInv(w.db) /\ w.db.schema = work.db.schema
      /\ DOMAIN w.db.rows[t] = {}
  <2> HIDE DEF list
  <2>1. /\ IsPlayed(w) /\ DBInv(w.db) /\ w.db.schema = work.db.schema
        /\ \A u \in UserTables : w.db.rows[u] = work.db.rows[u]
    BY <1>3, <1>4, EntryIsPlayed
  <2> QED
    BY <2>1, <1>1
<1> HIDE DEF w
<1>7. DBInv(new) /\ LeadsBack(w.db, rec, new)
  BY <1>1, <1>6, ColumnDropped
<1>8. DBType(new) /\ rec.type # "DeleteTable"
  BY <1>7 DEF DBInv, SysRecord
<1> HIDE DEF new, rec
<1>9. IsPlayed(x) /\ x.db = new
  BY <1>6, <1>7, <1>8, LoggedIsPlayed
<1> HIDE DEF x
<1> QED
  BY <1>5, <1>7, <1>9, PlayedKeeps

LEMMA DelTableKeeps ==
  ASSUME RowInv, NEW t \in UserTables, DelTable(t)
  PROVE  RowInv'
<1> DEFINE cols == GetAllColumnTypes(t)
           data(k) == [key |-> k, row |-> work.db.rows["tables"][k], cols |-> cols]
<1>1. work.db.schema[t] # NoTable /\ DOMAIN work.db.rows[t] = {}
  BY DEF DelTable
<1>2. PICK k \in TableRows(work.db, t) :
        Played(Logged(work, SysRecord("DeleteTable", t, data(k)),
                      DropSQL(DeleteRows(work.db, "tables", {k}), t)))
  BY DEF DelTable
<1> DEFINE rec == SysRecord("DeleteTable", t, data(k))
           new == DropSQL(DeleteRows(work.db, "tables", {k}), t)
           x == Logged(work, rec, new)
<1>3. mode = "block" /\ Played(x)
  BY <1>2 DEF Played
<1>4. IsPlayed(work) /\ DBInv(work.db) /\ DBType(committed.db)
  BY <1>3, WorkIsPlayed DEF DBInv
<1>5. cols = ColumnsOf(committed.db.schema, t) /\ cols \in SUBSET Columns
  <2>1. committed.db.schema[t] \in ColumnSets
    BY <1>4 DEF DBType
  <2> QED
    BY <2>1 DEF GetAllColumnTypes, ColumnsOf, ColumnSets
<1> HIDE DEF cols
<1>6. DBInv(new) /\ LeadsBack(work.db, rec, new)
  BY <1>1, <1>4, <1>5, TableDropped
<1>7. DBType(new) /\ rec.data.cols = cols /\ rec.table = t
  BY <1>6 DEF DBInv, SysRecord
<1> HIDE DEF new, rec
<1>8. IsPlayed(x) /\ x.db = new
  BY <1>4, <1>5, <1>6, <1>7, LoggedIsPlayed
<1> HIDE DEF x
<1> QED
  BY <1>3, <1>6, <1>8, PlayedKeeps

LEMMA CreateEcosystemKeeps ==
  ASSUME RowInv, NEW founder \in Ids, NEW guest \in Ids, CreateEcosystem(founder, guest)
  PROVE  RowInv'
<1> DEFINE e  == NextID(work.db, "ecosystems")
           row == Row(Columns, 0)
           rec == SysRecord("NewEcosystem", "keys", e)
           d1 == InsertRow(work.db, "keys", <<e, guest>>, row)
           w1 == Logged(work, rec, d1)
           w2 == insert(w1, "keys", <<e, founder>>, row)
           w3 == insert(w2, "ecosystems", <<0, e>>, row)
           d2 == InsertRow(d1, "keys", <<e, founder>>, row)
           d3 == InsertRow(d2, "ecosystems", <<0, e>>, row)
<1>1. founder # guest /\ Played(w3) /\ mode = "block"
  BY DEF CreateEcosystem, Played
<1>2. IsPlayed(work) /\ DBInv(work.db)
  BY <1>1, WorkIsPlayed
<1>3. /\ DBType(d1) /\ LeadsBack(work.db, rec, d1)
      /\ DBType(d2) /\ LeadsBack(d1, RowRecord("keys", <<e, founder>>, NoData), d2)
      /\ DBInv(d3) /\ LeadsBack(d2, RowRecord("ecosystems", <<0, e>>, NoData), d3)
  BY <1>1, <1>2, EcosystemFounded
<1>4. DBType(d3) /\ rec.type # "DeleteTable"
  BY <1>3 DEF DBInv, SysRecord
<1> HIDE DEF row, e, rec, d1
<1>5. IsPlayed(w1) /\ w1.db = d1
  BY <1>2, <1>3, <1>4, LoggedIsPlayed
<1> HIDE DEF w1, d2
<1>6. IsPlayed(w2) /\ w2.db = d2
  <2>1. d2 = InsertRow(w1.db, "keys", <<e, founder>>, row)
    BY <1>5 DEF d2
  <2> QED
    BY <2>1, <1>3, <1>5, InsertIsPlayed
<1> HIDE DEF w2, d3
<1>7. IsPlayed(w3) /\ w3.db = d3
  <2>1. d3 = InsertRow(w2.db, "ecosystems", <<0, e>>, row)
    BY <1>6 DEF d3
  <2> QED
    BY <2>1, <1>3, <1>4, <1>6, InsertIsPlayed
<1> HIDE DEF w3
<1> QED
  BY <1>1, <1>3, <1>7, PlayedKeeps

-----------------------------------------------------------------------------
(***************************************************************************)
(* Blocks.                                                                 *)
(***************************************************************************)

\* A column is no reason to differ from itself, and with no records left the
\* database on the way back is the one of the history.
LEMMA SameIsExplained ==
  ASSUME NEW X, NEW log, NEW n, NEW m, NEW t
  PROVE  Explained(X, X, log, n, m, t)
BY DEF Explained

LEMMA UndoneIsExact ==
  ASSUME NEW db, NEW true, NEW log, NEW n \in Nat, Len(log) = n,
         DBType(true), Undone(db, true, log, n)
  PROVE  db = true
<1>1. /\ db = [schema |-> db.schema, rows |-> true.rows]
      /\ true = [schema |-> true.schema, rows |-> true.rows]
      /\ db.schema \in [UserTables -> ColumnSets] /\ true.schema \in [UserTables -> ColumnSets]
  BY DEF Undone, DBType
<1>2. ASSUME NEW t \in UserTables PROVE db.schema[t] = true.schema[t]
  <2>1. CASE db.schema[t] = NoTable
    BY <2>1 DEF Undone
  <2>2. CASE db.schema[t] # NoTable
    <3>1. Explained(db.schema[t], true.schema[t], log, n, n, t) /\ true.schema[t] # NoTable
      BY <2>2 DEF Undone
    <3>2. (n + 1)..n = {}
      OBVIOUS
    <3>3. \A c \in Columns : c \in db.schema[t] <=> c \in true.schema[t]
      BY <3>1, <3>2 DEF Explained, Touched
    <3>4. db.schema[t] \in SUBSET Columns /\ true.schema[t] \in SUBSET Columns
      BY <1>1, <2>2, <3>1 DEF ColumnSets
    <3> QED
      BY <3>3, <3>4
  <2> QED
    BY <2>1, <2>2
<1>3. db.schema = true.schema
  BY <1>1, <1>2
<1> QED
  BY <1>1, <1>3

LEMMA HistoryParts ==
  ASSUME NEW D, NEW db, NEW log, NEW chain, History(D, db, log, chain)
  PROVE  /\ IsSeq(log) /\ IsSeq(chain) /\ Len(log) \in Nat /\ Len(chain) \in Nat
         /\ D[Len(log)] = db
         /\ \A b \in 1..Len(chain) : chain[b].start \in 0..Len(log)
         /\ chain # << >> => Len(chain) > 0
<1>1. IsSeq(log) /\ IsSeq(chain)
  BY DEF History
<1>2. Len(log) \in Nat /\ Len(chain) \in Nat /\ (chain # << >> => Len(chain) > 0)
  BY <1>1 DEF IsSeq
<1> QED
  BY <1>1, <1>2 DEF History

LEMMA BeginBlockKeeps ==
  ASSUME Exact, RowInv, BeginBlock
  PROVE  RowInv'
<1>1. PICK D : History(D, committed.db, committed.log, committed.chain)
  BY DEF RowInv, CommittedInv
<1>2. /\ IsSeq(committed.log) /\ IsSeq(committed.chain)
      /\ Len(committed.log) \in Nat /\ Len(committed.chain) \in Nat
  BY <1>1, HistoryParts
<1>3. Len(NewChain) = Len(committed.chain) + 1
  BY <1>2, AppendFacts DEF NewChain
<1>4. mode = "idle" /\ work = committed
  <2>1. ASSUME mode = "next" PROVE FALSE
    <3>1. work.chain = NewChain
      BY <2>1 DEF RowInv, PlayInv
    <3>2. Len(NewChain) - Len(committed.chain) < 1
      BY <2>1, <3>1 DEF BeginBlock, Exact
    <3> QED
      BY <3>2, <1>2, <1>3
  <2> QED
    BY <2>1 DEF BeginBlock, RowInv
<1>5. /\ mode' = "block" /\ sp' = committed /\ committed' = committed
      /\ work' = [committed EXCEPT !.chain = NewChain]
  BY <1>4 DEF BeginBlock, NewChain
<1>6. /\ IsState(work') /\ work'.db = committed.db /\ work'.log = committed.log
      /\ work'.chain = NewChain
  BY <1>5 DEF RowInv, CommittedInv, IsState
<1>7. DBInv(committed.db) /\ History(D, committed.db, committed.log, NewChain)
  BY <1>1, BlockBegins DEF NewChain, RowInv, CommittedInv
<1>8. Playing(committed.db, committed.log, NewChain, committed.db, Len(committed.log))
  <2>1. \A b \in 1..Len(NewChain) : NewChain[b].start <= Len(committed.log)
    BY <1>2, <1>7, HistoryParts
  <2>2. ASSUME NEW t \in UserTables, committed.db.schema[t] # NoTable
        PROVE  Explained(ColumnsOf(committed.db.schema, t), committed.db.schema[t],
                         committed.log, Len(committed.log), Len(committed.log), t)
    BY <2>2, SameIsExplained DEF ColumnsOf
  <2> QED
    BY <1>2, <1>7, <2>1, <2>2 DEF Playing
<1>9. NewChain' = NewChain /\ CommittedInv'
  BY <1>5 DEF NewChain, RowInv, CommittedInv
<1> QED
  BY <1>5, <1>6, <1>7, <1>8, <1>9 DEF RowInv, PlayInv, UndoInv, CommittedInv

LEMMA SavepointKeeps ==
  ASSUME RowInv, ReleaseSavepoint \/ RollbackSavepoint
  PROVE  RowInv'
<1>1. mode = "block" /\ mode' = mode /\ committed' = committed
  BY DEF ReleaseSavepoint, RollbackSavepoint
<1>2. NewChain' = NewChain /\ CommittedInv'
  BY <1>1 DEF NewChain, RowInv, CommittedInv
<1>3. CASE ReleaseSavepoint
  BY <1>1, <1>2, <1>3 DEF ReleaseSavepoint, RowInv, PlayInv, UndoInv
<1>4. CASE RollbackSavepoint
  <2>1. work' = [sp EXCEPT !.chain = work.chain] /\ sp' = sp
    BY <1>4 DEF RollbackSavepoint
  <2>2. IsState(work') /\ work'.db = sp.db /\ work'.log = sp.log /\ work'.chain = work.chain
    BY <2>1 DEF RowInv, IsState
  <2> QED
    BY <1>1, <1>2, <2>1, <2>2 DEF RowInv, PlayInv, UndoInv
<1> QED
  BY <1>3, <1>4

LEMMA EndBlockKeeps ==
  ASSUME RowInv, EndBlock
  PROVE  RowInv'
<1>1. NewChain' = NewChain /\ CommittedInv'
  BY DEF EndBlock, NewChain, RowInv, CommittedInv
<1> QED
  BY <1>1 DEF EndBlock, RowInv, PlayInv, UndoInv, CommittedInv

LEMMA CommitKeeps ==
  ASSUME RowInv, Commit
  PROVE  RowInv'
<1>1. /\ mode = "next" /\ committed' = work /\ sp' = work /\ work' = work /\ mode' = "idle"
  BY DEF Commit
<1>2. IsState(work) /\ DBInv(work.db) /\ \E D : History(D, work.db, work.log, work.chain)
  BY <1>1 DEF RowInv, PlayInv, Playing
<1>3. CommittedInv'
  BY <1>1, <1>2 DEF CommittedInv
<1> QED
  BY <1>1, <1>2, <1>3 DEF RowInv, PlayInv, UndoInv

LEMMA RollbackKeeps ==
  ASSUME RowInv, Rollback
  PROVE  RowInv'
<1>1. CommittedInv'
  BY DEF Rollback, RowInv, CommittedInv
<1> QED
  BY <1>1 DEF Rollback, RowInv, PlayInv, UndoInv, CommittedInv

LEMMA BeginRollbackKeeps ==
  ASSUME RowInv, BeginRollback
  PROVE  RowInv'
<1>1. /\ mode = "idle" /\ mode' = "undo" /\ work' = work /\ committed' = committed /\ sp' = sp
      /\ work = committed /\ committed.chain # << >>
  BY DEF BeginRollback, RowInv
<1>2. PICK D : History(D, committed.db, committed.log, committed.chain)
  BY DEF RowInv, CommittedInv
<1> DEFINE m == Len(committed.chain)
           n == committed.chain[m].start
           log == committed.log
<1>3. /\ IsSeq(log) /\ Len(log) \in Nat /\ m \in Nat /\ m > 0 /\ D[Len(log)] = committed.db
      /\ n \in 0..Len(log)
  BY <1>1, <1>2, HistoryParts
<1>4. Undone(committed.db, D[Len(log)], log, n)
  <2>1. DBType(committed.db)
    BY DEF RowInv, CommittedInv, DBInv
  <2> QED
    BY <2>1, <1>3, SameIsExplained DEF Undone, DBType
<1>5. LastBlock' = committed.chain[m]
  BY <1>1 DEF LastBlock
<1>6. CommittedInv'
  BY <1>1 DEF RowInv, CommittedInv
<1>7. UndoInv'
  BY <1>1, <1>2, <1>3, <1>4, <1>5 DEF UndoInv
<1> QED
  BY <1>1, <1>6, <1>7 DEF RowInv, PlayInv

LEMMA UndoRecordKeeps ==
  ASSUME RowInv, UndoRecord
  PROVE  RowInv'
<1> DEFINE n == LastBlock.start
           log == work.log
           i == Len(work.log)
           rec == log[i]
           log2 == SubSeq(log, 1, i - 1) \o SubSeq(log, i + 1, Len(log))
           chain == committed.chain
<1>1. /\ mode = "undo" /\ Len(log) > n /\ committed' = committed /\ sp' = sp /\ mode' = mode
      /\ work' = [work EXCEPT !.db = Undo(@, rec), !.log = log2]
  BY DEF UndoRecord, NextRecord
<1>2. /\ work.chain = chain /\ Len(chain) > 0
      /\ IsSeq(log) /\ i \in n..Len(committed.log)
      /\ \A j \in 1..i : log[j] = committed.log[j]
  BY <1>1 DEF RowInv, UndoInv
<1>3. PICK D : /\ History(D, committed.db, committed.log, chain)
               /\ Undone(work.db, D[i], log, n)
  BY <1>1 DEF RowInv, UndoInv
<1>4. LastBlock = chain[Len(chain)]
  BY <1>2 DEF LastBlock
<1>5. /\ Len(committed.log) \in Nat /\ Len(chain) \in Nat /\ Len(chain) \in 1..Len(chain)
      /\ n \in Nat /\ i \in Nat /\ i > n /\ i \in 1..Len(committed.log) /\ i - 1 \in Nat
  BY <1>1, <1>2, <1>3, <1>4, HistoryParts
<1>6. IsSeq(log2) /\ Len(log2) = i - 1 /\ \A j \in 1..Len(log2) : log2[j] = log[j]
  <2>1. Len(log) > 0 /\ IsSeq(log)
    BY <1>2, <1>5
  <2>2. log2 = SubSeq(log, 1, Len(log) - 1) \o SubSeq(log, Len(log) + 1, Len(log))
    OBVIOUS
  <2> HIDE DEF log, log2
  <2>3. IsSeq(log2) /\ Len(log2) = Len(log) - 1 /\ \A j \in 1..Len(log2) : log2[j] = log[j]
    BY <2>1, <2>2, CutFacts
  <2> QED
    BY <2>3 DEF log
<1>7. DBType(D[i]) /\ DBType(D[i - 1]) /\ LeadsBack(D[i - 1], rec, D[i])
  <2> DEFINE clog == committed.log
  <2>1. /\ \A j \in 0..Len(clog) : DBType(D[j])
        /\ \A j \in 1..Len(clog) : LeadsBack(D[j - 1], clog[j], D[j])
    BY <1>3, Zenon DEF History
  <2>2. i \in 0..Len(clog) /\ i - 1 \in 0..Len(clog) /\ i \in 1..Len(clog) /\ i \in 1..i
    BY <1>5
  <2>3. rec = clog[i]
    BY <1>2, <2>2
  <2> HIDE DEF i, rec, clog
  <2> QED
    BY <2>1, <2>2, <2>3
<1>8. ASSUME rec.type = "DeleteTable"
      PROVE  Explained(rec.data.cols, D[i - 1].schema[rec.table], log, n, i - 1, rec.table)
  <2>1. rec = committed.log[i]
    BY <1>2, <1>5
  <2>2. Explained(rec.data.cols, D[i - 1].schema[rec.table], committed.log, n, i - 1, rec.table)
    BY <1>3, <1>4, <1>5, <1>8, <2>1 DEF History
  <2>3. \A j \in 1..(i - 1) : log[j] = committed.log[j]
    BY <1>2, <1>5
  <2> HIDE DEF rec, n, i, log
  <2> QED
    BY <1>5, <2>2, <2>3, MoreIsExplained
<1>9. IsState(work') /\ work'.db = Undo(work.db, rec) /\ work'.log = log2 /\ work'.chain = chain
  BY <1>1, <1>2 DEF RowInv, IsState
<1> HIDE DEF log2, rec, i
<1>10. Undone(Undo(work.db, rec), D[i - 1], log2, n)
  BY <1>2, <1>3, <1>5, <1>6, <1>7, <1>8, UndoOne DEF rec, i
<1>11. CommittedInv'
  BY <1>1 DEF RowInv, CommittedInv
<1>12. LastBlock' = LastBlock
  BY <1>2, <1>9 DEF LastBlock
<1>13. UndoInv'
  <2>1. Len(log2) \in n..Len(committed.log)
    BY <1>2, <1>5, <1>6
  <2>2. \A j \in 1..Len(log2) : log2[j] = committed.log[j]
    BY <1>2, <1>5, <1>6
  <2> HIDE DEF n, chain
  <2>3. Undone(work'.db, D[Len(work'.log)], work'.log, n)
    BY <1>6, <1>9, <1>10
  <2> QED
    BY <1>1, <1>2, <1>3, <1>6, <1>9, <1>12, <2>1, <2>2, <2>3 DEF UndoInv, n, chain
<1> QED
  BY <1>1, <1>9, <1>11, <1>13 DEF RowInv, PlayInv

\* What the rollback of a block commits: the database before the block.
LEMMA CommitRollbackRestores ==
  ASSUME RowInv, CommitRollback
  PROVE  /\ RowInv'
         /\ committed.chain # << >> /\ Len(committed.chain) \in Nat /\ IsSeq(committed.chain)
         /\ committed'.db = committed.chain[Len(committed.chain)].db
         /\ committed'.chain = SubSeq(committed.chain, 1, Len(committed.chain) - 1)
<1> DEFINE chain == committed.chain
           last == chain[Len(chain)]
           chain2 == SubSeq(chain, 1, Len(chain) - 1)
<1>1. /\ mode = "undo" /\ Len(work.log) = LastBlock.start /\ mode' = "idle"
      /\ work' = [work EXCEPT !.chain = SubSeq(@, 1, Len(@) - 1)]
      /\ committed' = work' /\ sp' = work'
  BY DEF CommitRollback
<1>2. /\ work.chain = chain /\ Len(chain) > 0 /\ LastBlock = last
      /\ IsSeq(work.log)
      /\ \A j \in 1..Len(work.log) : work.log[j] = committed.log[j]
  BY <1>1 DEF RowInv, UndoInv, LastBlock
<1>3. PICK D : /\ History(D, committed.db, committed.log, chain)
               /\ Undone(work.db, D[Len(work.log)], work.log, last.start)
  BY <1>1, <1>2 DEF RowInv, UndoInv
<1>4. /\ Len(chain) \in Nat /\ Len(chain) \in 1..Len(chain) /\ IsSeq(chain)
      /\ last.start \in Nat /\ last.start \in 0..Len(committed.log)
  BY <1>2, <1>3, HistoryParts
<1>5. D[last.start] = last.db /\ DBInv(last.db) /\ DBType(last.db)
  BY <1>3, <1>4 DEF History, DBInv
<1>6. work.db = last.db
  BY <1>1, <1>2, <1>3, <1>4, <1>5, UndoneIsExact
<1>7. History(D, last.db, work.log, chain2)
  BY <1>1, <1>2, <1>3, BlockEnds
<1>8. IsState(work') /\ work'.db = last.db /\ work'.log = work.log /\ work'.chain = chain2
  BY <1>1, <1>2, <1>6 DEF RowInv, IsState
<1>9. CommittedInv'
  <2> HIDE DEF chain2, last
  <2> QED
    BY <1>1, <1>5, <1>7, <1>8 DEF CommittedInv
<1>10. RowInv'
  BY <1>1, <1>8, <1>9 DEF RowInv, PlayInv, UndoInv
<1>11. chain # << >>
  BY <1>2, <1>4
<1> QED
  BY <1>1, <1>4, <1>8, <1>10, <1>11

-----------------------------------------------------------------------------
(***************************************************************************)
(* The chain is a stack.                                                   *)
(***************************************************************************)

LEMMA EmptyDBInv ==
  DBInv(EmptyDB)
<1> DEFINE S == EmptyDB.schema
           R == EmptyDB.rows
           row == Row(Columns, 0)
           first == [k \in {<<0, 1>>} |-> row]
<1>1. /\ EmptyDB = [schema |-> S, rows |-> R]
      /\ S = [t \in UserTables |-> NoTable]
      /\ R = [t \in Tables |-> IF t = "ecosystems" THEN first ELSE << >>]
  BY DEF EmptyDB
<1>2. row \in PlainRows
  BY DEF Row, PlainRows
<1> HIDE DEF S, R, row
<1>3. /\ \A t \in Tables : t # "ecosystems" => R[t] = << >> /\ DOMAIN R[t] = {}
      /\ R["ecosystems"] = first /\ DOMAIN R["ecosystems"] = {<<0, 1>>}
  BY <1>1, TableNames
<1>4. DBType(EmptyDB)
  <2>1. S \in [UserTables -> ColumnSets]
    BY <1>1 DEF ColumnSets
  <2>2. IsRows("ecosystems", first)
    <3>1. first \in [{<<0, 1>>} -> PlainRows] /\ DOMAIN first = {<<0, 1>>}
      BY <1>2
    <3>2. <<0, 1>> \in Nat \X Nat
      OBVIOUS
    <3> HIDE DEF first
    <3> QED
      BY <3>1, <3>2 DEF IsRows, RowsOf
  <2>3. \A t : IsRows(t, << >>)
    BY DEF IsRows
  <2>4. ASSUME NEW t \in Tables PROVE IsRows(t, R[t])
    BY <1>3, <2>2, <2>3
  <2>5. R = [t \in Tables |-> R[t]]
    BY <1>1
  <2> QED
    BY <1>1, <2>1, <2>4, <2>5 DEF DBType, S, R
<1>5. KeysInv(EmptyDB)
  <2> HIDE DEF first
  <2>1. \A t \in Tables \ {"keys"} : \A k, l \in DOMAIN R[t] : k[2] = l[2] => k = l
    BY <1>3
  <2>2. \A t \in UserTables \cup {"ecosystems"} : \A k \in DOMAIN R[t] : k[1] = 0
    BY <1>3 DEF Tables
  <2>3. \A t \in SharedTables : DOMAIN R[t] = {}
    BY <1>3, TableNames DEF SharedTables, Tables
  <2>4. ASSUME NEW t \in Tables PROVE \E n \in Nat : \A k \in DOMAIN R[t] : k[2] <= n
    <3>1. \A k \in DOMAIN R[t] : k[2] = 1
      BY <1>3
    <3>2. \A k \in DOMAIN R[t] : k[2] <= 1
      BY <3>1
    <3> QED
      BY <3>2
  <2> QED
    BY <2>1, <2>2, <2>3, <2>4 DEF KeysInv, R
<1>6. SchemaInv(EmptyDB)
  <2>1. DOMAIN R["tables"] = {} /\ \A t \in UserTables : S[t] = NoTable /\ DOMAIN R[t] = {}
    BY <1>1, <1>3, TableNames DEF Tables
  <2> QED
    BY <2>1 DEF SchemaInv, R, S
<1> QED
  BY <1>4, <1>5, <1>6 DEF DBInv

LEMMA InitRows ==
  ASSUME Init
  PROVE  RowInv
<1>1. /\ work = [db |-> EmptyDB, log |-> << >>, chain |-> << >>]
      /\ committed = work /\ sp = work /\ mode = "idle"
  BY DEF Init
<1> DEFINE D == [i \in {0} |-> EmptyDB]
<1>2. D[0] = EmptyDB
  OBVIOUS
<1> HIDE DEF D
<1>3. History(D, EmptyDB, << >>, << >>)
  <2>1. IsSeq(<< >>) /\ Len(<< >>) = 0
    BY DEF IsSeq
  <2>2. DBType(EmptyDB)
    BY EmptyDBInv DEF DBInv
  <2> QED
    BY <1>2, <2>1, <2>2 DEF History
<1>4. IsState(work) /\ work.db = EmptyDB /\ work.log = << >> /\ work.chain = << >>
  BY <1>1 DEF IsState
<1>5. CommittedInv
  BY <1>1, <1>3, <1>4, EmptyDBInv DEF CommittedInv
<1> QED
  BY <1>1, <1>4, <1>5 DEF RowInv, PlayInv, UndoInv

LEMMA UpdateCommitsNothing ==
  ASSUME NEW t, NEW e, NEW column, NEW value, NEW c, NEW kind, NEW v,
         DBUpdateExt(t, e, column, value, c, kind, v)
  PROVE  committed' = committed
BY DEF DBUpdateExt, Played

LEMMA WriteKeeps ==
  ASSUME Exact, RowInv, Write
  PROVE  RowInv' /\ committed' = committed
<1>1. CASE \E e \in Ecosystems, id \in Ids, v \in Values : InsertKey(e, id, v) \/ NewMoney(e, id, v)
  BY <1>1, InsertKeyKeeps DEF InsertKey, NewMoney, Played
<1>2. CASE \E t \in UserTables, v \in Values : DBInsert(t, v)
  BY <1>2, DBInsertKeeps DEF DBInsert, Played
<1>3. CASE \E t \in UserTables \cup {"keys"}, e \in Ecosystems, id \in Ids, c \in Columns,
              kind \in {"set", "+"}, v \in Values : DBUpdateExt(t, e, "id", id, c, kind, v)
  <2>1. PICK t \in UserTables \cup {"keys"}, e \in Ecosystems, id \in Ids, c \in Columns,
             kind \in {"set", "+"}, v \in Values : DBUpdateExt(t, e, "id", id, c, kind, v)
    BY <1>3
  <2> QED
    BY <2>1, DBUpdateExtKeeps, UpdateCommitsNothing
<1>4. CASE \E t \in UserTables \cup {"keys"}, e \in Ecosystems, w \in WhereColumns, x \in Values,
              c \in Columns, v \in Values : DBUpdateExt(t, e, w, x, c, "set", v)
  <2>1. PICK t \in UserTables \cup {"keys"}, e \in Ecosystems, w \in WhereColumns, x \in Values,
             c \in Columns, v \in Values : DBUpdateExt(t, e, w, x, c, "set", v)
    BY <1>4
  <2> QED
    BY <2>1, DBUpdateExtKeeps, UpdateCommitsNothing
<1>5. CASE \E id \in Ids, v \in Values : SetPubKey(id, v)
  BY <1>5, SetPubKeyKeeps DEF SetPubKey, Played
<1> QED
  BY <1>1, <1>2, <1>3, <1>4, <1>5 DEF Write

LEMMA AlterKeeps ==
  ASSUME Exact, RowInv, Alter
  PROVE  RowInv' /\ committed' = committed
<1>1. CASE \E t \in UserTables, cols \in SUBSET Columns : CreateTable(t, cols)
  BY <1>1, CreateTableKeeps DEF CreateTable, Played
<1>2. CASE \E t \in UserTables, c \in Columns : CreateColumn(t, c)
  BY <1>2, CreateColumnKeeps DEF CreateColumn, Played
<1>3. CASE \E t \in UserTables, c \in Columns : DelColumn(t, c)
  <2>1. PICK t \in UserTables, c \in Columns : DelColumn(t, c)
    BY <1>3
  <2>2. committed' = committed
    BY <2>1 DEF DelColumn, Played
  <2> QED
    BY <2>1, <2>2, DelColumnKeeps
<1>4. CASE \E t \in UserTables : DelTable(t)
  BY <1>4, DelTableKeeps DEF DelTable, Played
<1>5. CASE \E t \in UserTables, c \in Columns, v \in Values : PermColumn(t, c, v)
  BY <1>5, PermColumnKeeps DEF PermColumn, Played
<1>6. CASE \E founder, guest \in Ids : CreateEcosystem(founder, guest)
  BY <1>6, CreateEcosystemKeeps DEF CreateEcosystem, Played
<1> QED
  BY <1>1, <1>2, <1>3, <1>4, <1>5, <1>6 DEF Alter

\* The databases before each block.
Pasts(chain) == [i \in 1..Len(chain) |-> chain[i].db]

LEMMA PastsFacts ==
  ASSUME NEW chain, IsSeq(chain), NEW p, p = Pasts(chain)
  PROVE  /\ p = [i \in 1..Len(chain) |-> p[i]]
         /\ IsSeq(p) /\ Len(p) = Len(chain) /\ Len(chain) \in Nat
         /\ \A i \in 1..Len(chain) : p[i] = chain[i].db
<1> DEFINE n == Len(chain)
           S == {chain[i].db : i \in 1..n}
<1>1. n \in Nat
  BY DEF IsSeq
<1>2. p \in [1..n -> S] /\ \A i \in 1..n : p[i] = chain[i].db
  BY DEF Pasts
<1> HIDE DEF n, S
<1>3. p \in Seq(S) /\ Len(p) = n
  BY <1>1, <1>2
<1> QED
  BY <1>1, <1>2, <1>3 DEF IsSeq, n

\* The first elements of a sequence, as a function.
LEMMA PrefixIs ==
  ASSUME NEW p, IsSeq(p), NEW n \in 0..Len(p),
         NEW q, q = [i \in 1..n |-> q[i]], \A i \in 1..n : q[i] = p[i]
  PROVE  SubSeq(p, 1, n) = q
<1>1. PICK S : p \in Seq(S)
  BY DEF IsSeq
<1>2. SubSeq(p, 1, n) = [i \in 1..n |-> p[i]]
  BY <1>1
<1> QED
  BY <1>2

LEMMA PastsPush ==
  ASSUME NEW chain, IsSeq(chain), NEW chain2, IsSeq(chain2), Len(chain2) = Len(chain) + 1,
         \A i \in 1..Len(chain) : chain2[i] = chain[i],
         NEW p, p = Pasts(chain), NEW q, q = Pasts(chain2)
  PROVE  /\ Len(q) > Len(p) /\ SubSeq(q, 1, Len(p)) = p
         /\ q[Len(p) + 1] = chain2[Len(chain) + 1].db
<1> DEFINE n == Len(chain)
<1>1. /\ p = [i \in 1..n |-> p[i]] /\ Len(p) = n /\ n \in Nat
      /\ \A i \in 1..n : p[i] = chain[i].db
  BY PastsFacts
<1>2. IsSeq(q) /\ Len(q) = n + 1 /\ \A i \in 1..(n + 1) : q[i] = chain2[i].db
  BY PastsFacts
<1> HIDE DEF n
<1>3. n \in 0..Len(q) /\ \A i \in 1..n : p[i] = q[i]
  BY <1>1, <1>2 DEF n
<1>4. SubSeq(q, 1, n) = p
  BY <1>1, <1>2, <1>3, PrefixIs
<1> QED
  BY <1>1, <1>2, <1>4 DEF n

LEMMA PastsPop ==
  ASSUME NEW chain, IsSeq(chain), chain # << >>, NEW p, p = Pasts(chain),
         NEW q, q = Pasts(SubSeq(chain, 1, Len(chain) - 1))
  PROVE  /\ p # << >> /\ q = SubSeq(p, 1, Len(p) - 1)
         /\ p[Len(p)] = chain[Len(chain)].db
<1> DEFINE n == Len(chain) - 1
           chain2 == SubSeq(chain, 1, n)
<1>1. n \in Nat /\ Len(chain) = n + 1 /\ n \in 0..Len(chain)
  BY DEF IsSeq
<1>2. IsSeq(p) /\ Len(p) = n + 1 /\ \A i \in 1..(n + 1) : p[i] = chain[i].db
  BY <1>1, PastsFacts
<1> HIDE DEF n
<1>3. IsSeq(chain2) /\ Len(chain2) = n /\ \A i \in 1..n : chain2[i] = chain[i]
  BY <1>1, PrefixFacts
<1> HIDE DEF chain2
<1>4. q = Pasts(chain2)
  BY DEF n, chain2
<1>5. q = [i \in 1..n |-> q[i]] /\ \A i \in 1..n : q[i] = chain2[i].db
  BY <1>3, <1>4, PastsFacts
<1>6. n \in 0..Len(p) /\ \A i \in 1..n : q[i] = p[i]
  BY <1>1, <1>2, <1>3, <1>5
<1>7. SubSeq(p, 1, n) = q
  BY <1>2, <1>5, <1>6, PrefixIs
<1>8. n = Len(p) - 1 /\ Len(p) = Len(chain)
  BY <1>1, <1>2
<1>9. p[Len(p)] = chain[Len(chain)].db
  BY <1>1, <1>2
<1>10. p # << >>
  BY <1>1, <1>2
<1> QED
  BY <1>7, <1>8, <1>9, <1>10

\* A step of the model is a push, a pop or no step of the stack.
LEMMA RowStep ==
  ASSUME Exact, RowInv, [Next]_vars
  PROVE  RowInv' /\ (Chain!Push \/ Chain!Pop \/ committed' = committed)
<1>1. CASE Write \/ Alter
  BY <1>1, WriteKeeps, AlterKeeps
<1>2. CASE BeginBlock
  BY <1>2, BeginBlockKeeps DEF BeginBlock
<1>3. CASE ReleaseSavepoint \/ RollbackSavepoint
  BY <1>3, SavepointKeeps DEF ReleaseSavepoint, RollbackSavepoint
<1>4. CASE EndBlock
  BY <1>4, EndBlockKeeps DEF EndBlock
<1>5. CASE Commit
  <2>1. RowInv' /\ committed'.chain = NewChain
    BY <1>5, CommitKeeps DEF Commit, RowInv, PlayInv
  <2> DEFINE p == Pasts(committed.chain)
             q == Pasts(NewChain)
             m == Len(committed.chain)
             blk == [start |-> Len(committed.log), db |-> committed.db]
  <2>2. IsSeq(committed.chain)
    BY DEF RowInv, CommittedInv, History
  <2>3. /\ IsSeq(NewChain) /\ Len(NewChain) = m + 1 /\ NewChain[m + 1].db = committed.db
        /\ \A i \in 1..m : NewChain[i] = committed.chain[i]
    <3>1. /\ IsSeq(NewChain) /\ Len(NewChain) = m + 1 /\ NewChain[m + 1] = blk
          /\ \A i \in 1..m : NewChain[i] = committed.chain[i]
      BY <2>2, AppendFacts DEF NewChain
    <3> QED
      BY <3>1
  <2>4. Len(q) > Len(p) /\ SubSeq(q, 1, Len(p)) = p /\ q[Len(p) + 1] = committed.db
    BY <2>2, <2>3, PastsPush
  <2>5. Chain!Push
    BY <2>1, <2>4 DEF Chain!Push, Pasts
  <2> QED
    BY <2>1, <2>5
<1>6. CASE Rollback
  BY <1>6, RollbackKeeps DEF Rollback
<1>7. CASE BeginRollback
  BY <1>7, BeginRollbackKeeps DEF BeginRollback
<1>8. CASE UndoRecord
  BY <1>8, UndoRecordKeeps DEF UndoRecord
<1>9. CASE CommitRollback
  <2> DEFINE p == Pasts(committed.chain)
             q == Pasts(committed'.chain)
             chain == committed.chain
  <2>1. /\ RowInv' /\ chain # << >> /\ IsSeq(chain)
        /\ committed'.db = chain[Len(chain)].db
        /\ committed'.chain = SubSeq(chain, 1, Len(chain) - 1)
    BY <1>9, CommitRollbackRestores
  <2>2. q = Pasts(SubSeq(chain, 1, Len(chain) - 1))
    BY <2>1
  <2> HIDE DEF p, q
  <2>3. /\ p # << >> /\ q = SubSeq(p, 1, Len(p) - 1)
        /\ p[Len(p)] = committed'.db
    BY <2>1, <2>2, PastsPop DEF p
  <2>4. Chain!Pop
    BY <2>3 DEF Chain!Pop, p, q, Pasts
  <2> QED
    BY <2>1, <2>4
<1>10. CASE UNCHANGED vars
  <2>1. NewChain' = NewChain /\ LastBlock' = LastBlock
    BY <1>10 DEF vars, NewChain, LastBlock
  <2> QED
    BY <1>10, <2>1 DEF vars, RowInv, CommittedInv, PlayInv, UndoInv
<1> QED
  BY <1>1, <1>2, <1>3, <1>4, <1>5, <1>6, <1>7, <1>8, <1>9, <1>10 DEF Next

LEMMA ExactIsConstant ==
  Exact => Exact'
BY DEF Exact

\* The rollback of a block (RollbackBlock, rollbackTransaction) is exact: what it
\* commits is the database that was committed before the block, rows, tables and
\* columns, and the records that are left in rollback_tx are those that lead
\* further back.  That is so for every set of tables, columns, ids, ecosystems
\* and values, and any length of the blocks and of the chain, when every write
\* addresses one row, a wallet gets its public key once, keys are put only into
\* ecosystems that there are, blocks are committed one by one, and tables have
\* different names.  The database with its log is a stack of databases.
THEOREM RollbacksAreExact == Exact /\ Spec => RollbackIsExact
<1>1. Init => RowInv /\ [i \in 1..Len(committed.chain) |-> committed.chain[i].db] = << >>
  <2> SUFFICES ASSUME Init
               PROVE  RowInv /\ [i \in 1..Len(committed.chain) |-> committed.chain[i].db] = << >>
    OBVIOUS
  <2>1. committed.chain = << >>
    BY DEF Init
  <2>2. 1..Len(committed.chain) = {}
    BY <2>1
  <2>3. [i \in 1..Len(committed.chain) |-> committed.chain[i].db] = << >>
    BY <2>2
  <2> QED
    BY <2>3, InitRows
<1>2. Exact /\ RowInv /\ [Next]_vars
        => /\ RowInv'
           /\ [Chain!Push \/ Chain!Pop]_<<committed.db, [i \in 1..Len(committed.chain) |-> committed.chain[i].db]>>
  <2> SUFFICES ASSUME Exact, RowInv, [Next]_vars
               PROVE  /\ RowInv'
                      /\ [Chain!Push \/ Chain!Pop]_<<committed.db, [i \in 1..Len(committed.chain) |-> committed.chain[i].db]>>
    OBVIOUS
  <2>1. RowInv' /\ (Chain!Push \/ Chain!Pop \/ committed' = committed)
    BY RowStep
  <2> QED
    BY <2>1
<1>3. Exact => []Exact
  BY ExactIsConstant, PTL
<1> QED
  BY <1>1, <1>2, <1>3, PTL DEF Spec, RollbackIsExact, Chain!Spec
=============================================================================
