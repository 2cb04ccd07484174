------------------------------- MODULE Rights -------------------------------
(***************************************************************************)
(* The rights that protect the tables of an ecosystem: the permissions of  *)
(* the table and of its columns (AccessTable, AccessColumns), the          *)
(* conditions of the row (RowConditions) and the parameters changing_*,    *)
(* and the contracts of the first ecosystem and of a VDE that edit the     *)
(* rows.                                                                   *)
(*                                                                         *)
(* A behaviour is about one row of one table.  A column that only the      *)
(* editor of the table writes is "value", "menu", "count" or "mode"; a     *)
(* column that nobody writes is "name".  "member" is the member of a binary *)
(* and the wallet of a contract.                                           *)
(***************************************************************************)
EXTENDS Integers

CONSTANTS
  Keys, Founder, Developers,
  Values,              \* values of the columns
  RowConds,            \* conditions that rows are given
  MinCount, MaxCount,  \* min_page_validate_count and max_page_validate_count
  SomeTables,          \* the tables of the run
  MaxRights            \* bound on the changes of rights

VARIABLES
  vde, table,
  row,             \* the row, or NoRow
  perm,            \* permissions of the table
  col,             \* permissions of the columns
  changing,        \* the parameter changing_page, changing_menu, ... of the table
  changingTables,  \* the parameter changing_tables
  who,             \* history: the key, the contract and the function of the last write
  rights           \* changes of rights so far

rightsVars == <<vde, table, row, perm, col, changing, changingTables, who, rights>>

NoRow == [name |-> 0]
DataFields == {"value", "menu", "count", "mode"}

-----------------------------------------------------------------------------
\* Permissions of a table: insert, update, new_column, and of its columns.
Guard(insert, update, new_column, name, value, conditions) ==
  [insert |-> insert, update |-> update, new_column |-> new_column,
   name |-> name, value |-> value, conditions |-> conditions]

\* The permissions that the migrations give the tables.  "editor" is
\* ContractAccess of the contract that edits the table, "outside" that of a
\* contract of an application that is installed later.
Edited == Guard("developer", "developer", "admin", "false", "editor", "editor")
Foreign == Guard("outside", "outside", "admin", "false", "outside", "outside")

Tables ==
  [t \in {"contracts", "keys", "history", "languages", "menu", "pages", "blocks"} |->
    CASE t = "keys" -> [Foreign EXCEPT !.insert = "true"]
      [] t = "history" -> [Foreign EXCEPT !.update = "admin", !.value = "false"]
      [] t = "languages" -> [Edited EXCEPT !.name = "editor"]
      [] OTHER -> Edited]
Tables2 ==
  [t \in {"members", "roles", "sections", "applications", "binaries", "parameters", "app_params", "buffer_data"} |->
    CASE t \in {"members", "roles"} -> Foreign
      [] t = "sections" -> Guard("developer", "developer", "admin", "outside", "outside", "outside")
      [] t = "binaries" -> Guard("editor", "editor", "admin", "false", "editor", "editor")
      [] t = "buffer_data" -> Guard("true", "true", "admin", "false", "true", "true")
      [] OTHER -> Edited]
FirstTables ==
  [t \in {"delayed_contracts", "ecosystems", "metrics", "system_parameters"} |->
    CASE t = "delayed_contracts" -> Guard("admin", "admin", "admin", "outside", "outside", "outside")
      [] t = "ecosystems" -> Foreign
      [] t = "metrics" -> Guard("editor", "editor", "admin", "editor", "editor", "editor")
      [] t = "system_parameters" -> Guard("false", "editor", "admin", "false", "editor", "editor")]

Founders == Guard("main", "main", "main", "main", "main", "main")
VDETables ==
  [t \in {"contracts", "keys", "languages", "menu", "pages", "blocks", "members", "roles"} |->
    CASE t = "contracts" -> [Founders EXCEPT !.name = "false"]
      [] t = "keys" -> [Founders EXCEPT !.insert = "true", !.update = "true"]
      [] t \in {"members", "roles"} -> [Foreign EXCEPT !.update = "main", !.new_column = "main"]
      [] OTHER -> Founders]
VDETables2 ==
  [t \in {"applications", "binaries", "app_params", "cron", "buffer_data"} |->
    CASE t = "binaries" -> Guard("editor", "editor", "main", "false", "editor", "editor")
      [] t = "buffer_data" -> Guard("true", "main", "main", "false", "true", "true")
      [] OTHER -> Founders]

Pick(f, g, t) == IF t \in DOMAIN f THEN f[t] ELSE g[t]
Guards(t) ==
  IF vde THEN Pick(VDETables, VDETables2, t)
  ELSE IF t \in DOMAIN FirstTables THEN FirstTables[t] ELSE Pick(Tables, Tables2, t)

\* The contracts that edit: the columns they take, and those whose presence
\* makes the call more than a change of the conditions.
EditAppParam == [table |-> "app_params", fields |-> {"value", "conditions"}, more |-> {"value"}]
EditApplication == [table |-> "applications", fields |-> {"conditions"}, more |-> {"conditions"}]
EditBlock == [table |-> "blocks", fields |-> {"value", "conditions"}, more |-> {"value"}]
EditContract == [table |-> "contracts", fields |-> {"value", "conditions"}, more |-> {"value"}]
EditLang == [table |-> "languages", fields |-> {"value"}, more |-> {"value"}]
EditMenu == [table |-> "menu", fields |-> {"value", "menu", "conditions"}, more |-> {"value", "menu"}]
\* A slip: the menu of a page is forgotten in onlyConditions.
EditPageNoMenu == [table |-> "pages", fields |-> {"value", "menu", "count", "mode", "conditions"},
                   more |-> {"value", "count"}]
EditPage == [table |-> "pages", fields |-> {"value", "menu", "count", "mode", "conditions"},
             more |-> {"value", "menu", "count"}]
EditorRecords == {EditAppParam, EditApplication, EditBlock, EditContract, EditLang, EditMenu, EditPage}
\* The VDE has the same contracts again.
VDEEditors == {e \in EditorRecords : e.table \in {"app_params", "applications", "blocks", "contracts"}}
VDEEditors2 == {e \in EditorRecords : e.table \in {"languages", "menu", "pages"}}
EditorOf(t) == CHOOSE e \in (IF vde THEN VDEEditors \cup VDEEditors2 ELSE EditorRecords) : e.table = t

\* Tables of the contracts New*.
Creators == {"app_params", "applications", "blocks", "contracts"}
Creators2 == {"languages", "menu", "pages"}
VDECreators == Creators
VDECreators2 == Creators2
Created == IF vde THEN VDECreators \cup VDECreators2 ELSE Creators \cup Creators2

\* tableParamConditions
tableParamConditions == {"pages", "menu", "contracts", "blocks", "languages"}
\* accessContracts: functions that only a transaction of the contract itself, or of Import, may call.
accessContracts == {"contracts", "languages"}

-----------------------------------------------------------------------------
\* MainCondition, DeveloperCondition, AdminCondition: the holders of a right.
Holders(cond) ==
  CASE cond = "main" -> {Founder}
    [] cond = "developer" -> {Founder} \cup Developers
    [] cond = "admin" -> {Founder}

\* EvalIf for a key, when top is the contract on top of the stack.  The
\* conditions of a contract fail with a warning, an expression is just false.
Eval(cond, key, top) ==
  IF cond \in {"main", "developer", "admin"} THEN IF key \in Holders(cond) THEN "ok" ELSE "warning"
  ELSE IF cond = "true" \/ (cond = "editor" /\ top = "editor") \/ cond = key THEN "ok"
  ELSE "denied"

FounderTables == {"parameters", "app_params"}

\* AccessTablePerm
AccessTable(action, key, top) ==
  IF table \in FounderTables THEN key = Founder ELSE Eval(perm[action], key, top) = "ok"

\* A slip: the permissions of the columns are looked up and not evaluated.
AccessAnyColumns(fields, key, top) == table \in FounderTables => key = Founder

AccessColumns(fields, key, top) ==
  IF table \in FounderTables THEN key = Founder
  ELSE \A f \in fields : Eval(col[IF f \in DataFields THEN "value" ELSE f], key, top) = "ok"

\* AccessRights of the parameter of the table.
AccessRights(key, top) == Eval(changing, key, top) = "ok"

AllowChangeCondition(key, top) == table \in tableParamConditions => AccessRights(key, top)

RowConditions(key, top, conditionOnly) ==
  LET result == Eval(row.conditions, key, top)
  IN result = "ok" \/ (result = "denied" /\ conditionOnly /\ AllowChangeCondition(key, top))

-----------------------------------------------------------------------------
Row(v, c, n, key) ==
  [name |-> v, value |-> v, menu |-> v, count |-> n, mode |-> 0, conditions |-> c, member |-> key]

\* The rows that an installation or a new ecosystem brings; 0 is no member.
FirstRows ==
  CASE table = "system_parameters" -> {Row(v, "editor", 0, 0) : v \in Values}
    [] table \in {"contracts", "applications"} -> {NoRow} \cup {Row(v, "main", 0, 0) : v \in Values}
    [] table \in {"pages", "menu"} -> {NoRow} \cup {Row(v, "developer", 0, 0) : v \in Values}
    [] OTHER -> {NoRow}

Init ==
  /\ vde \in BOOLEAN
  /\ table \in SomeTables \cap (IF vde THEN DOMAIN VDETables \cup DOMAIN VDETables2
                               ELSE DOMAIN Tables \cup DOMAIN Tables2 \cup DOMAIN FirstTables)
  /\ row \in FirstRows
  /\ perm = [a \in {"insert", "update", "new_column"} |-> Guards(table)[a]]
  /\ col = [a \in {"name", "value", "conditions"} |-> Guards(table)[a]]
  /\ changing = "main" /\ changingTables = "main"
  /\ who = [key |-> Founder, top |-> "none", by |-> "none"] /\ rights = 0

\* preparePageValidateCount
Clamp(n) == IF n < MinCount THEN MinCount ELSE IF n > MaxCount THEN MaxCount ELSE n

\* How the transaction comes to the editor: itself, through Import, or called
\* by a contract of the key.
Routes == {"direct", "import", "own"}

\* Edit*: the fields given, a value for them, a count and conditions.  A page
\* has its count set whether it is given or not.
Edit(key, route, given, v, n, c) ==
  LET editor == EditorOf(table)
      only == "conditions" \in given /\ given \cap editor.more = {}
      written == given \cup {f \in {"count"} : table = "pages"}
  IN
  /\ row # NoRow /\ table \in Created /\ given \subseteq editor.fields
  /\ table \in accessContracts => route # "own"
  /\ route = "import" => table # "applications" /\ ~(table = "contracts" /\ row.conditions = "false")
  /\ IF table = "languages" THEN AccessRights(key, "editor") ELSE RowConditions(key, "editor", only)
  /\ AccessTable("update", key, "editor")
  /\ AccessColumns(written \cup {f \in {"name"} : table = "languages"}, key, "editor")
  /\ row' = [f \in DOMAIN row |->
               IF f \notin written THEN row[f]
               ELSE IF f = "conditions" THEN c
               ELSE IF f = "count" THEN Clamp(IF f \in given THEN n ELSE 0)
               ELSE IF f = "mode" THEN (IF v = 1 THEN 1 ELSE 0)
               ELSE v]
  /\ who' = [key |-> key, top |-> "editor", by |-> "DBUpdate"]
  /\ UNCHANGED <<vde, table, perm, col, changing, changingTables, rights>>

\* New*: a contract has no wallet.
New(key, route, v, n, c) ==
  /\ row = NoRow /\ table \in Created
  /\ table \in accessContracts => route # "own"
  /\ route = "import" => table # "applications"
  /\ table = "languages" => AccessRights(key, "creator")
  /\ AccessTable("insert", key, "creator")
  /\ row' = Row(v, c, Clamp(n), IF table = "contracts" THEN 0 ELSE key)
  /\ who' = [key |-> key, top |-> "creator", by |-> "DBInsert"]
  /\ UNCHANGED <<vde, table, perm, col, changing, changingTables, rights>>

\* UploadBinary, and UploadFile that calls it: the binary of this member.
UploadBinary(key, v) ==
  /\ table = "binaries"
  /\ \/ /\ row # NoRow /\ row.member = key
        /\ AccessTable("update", key, "editor") /\ AccessColumns({"value"}, key, "editor")
        /\ row' = [row EXCEPT !.value = v]
     \/ /\ row = NoRow
        /\ AccessTable("insert", key, "editor")
        /\ row' = Row(v, "none", 0, key)
  /\ who' = [key |-> key, top |-> "editor", by |-> "DBUpdate"]
  /\ UNCHANGED <<vde, table, perm, col, changing, changingTables, rights>>

\* UpdateMetrics: its conditions are MainCondition.
UpdateMetrics(key, v) ==
  /\ table = "metrics" /\ key \in Holders("main")
  /\ AccessTable(IF row = NoRow THEN "insert" ELSE "update", key, "editor")
  /\ IF row = NoRow THEN row' = Row(v, "none", 0, key)
     ELSE AccessColumns({"value"}, key, "editor") /\ row' = [row EXCEPT !.value = v]
  /\ who' = [key |-> key, top |-> "editor", by |-> "DBUpdate"]
  /\ UNCHANGED <<vde, table, perm, col, changing, changingTables, rights>>

\* DBInsert and DBUpdate in a contract of the key.
OwnInsert(key, v, c) ==
  /\ row = NoRow /\ AccessTable("insert", key, "own")
  /\ row' = Row(v, c, MaxCount, key)
  /\ who' = [key |-> key, top |-> "own", by |-> "DBInsert"]
  /\ UNCHANGED <<vde, table, perm, col, changing, changingTables, rights>>

OwnUpdate(key, f, v, c) ==
  /\ row # NoRow
  /\ AccessTable("update", key, "own") /\ AccessColumns({f}, key, "own")
  /\ row' = [row EXCEPT ![f] = IF f = "conditions" THEN c ELSE v]
  /\ who' = [key |-> key, top |-> "own", by |-> "DBUpdate"]
  /\ UNCHANGED <<vde, table, perm, col, changing, changingTables, rights>>

-----------------------------------------------------------------------------
(***************************************************************************)
(* The functions that write rows without AccessTable and AccessColumns.    *)
(***************************************************************************)
\* BndWallet and UnbndWallet of the contracts BindWallet and UnbindWallet,
\* which want the row's conditions and the wallet of the key.
BndWallet(key) ==
  /\ table = "contracts" /\ row # NoRow
  /\ Eval(row.conditions, key, "other") = "ok" /\ row.member = key
  /\ row' = [row EXCEPT !.member = key]
  /\ who' = [key |-> key, top |-> "other", by |-> "BndWallet"]
  /\ UNCHANGED <<vde, table, perm, col, changing, changingTables, rights>>

UnbndWallet(key) ==
  /\ table = "contracts" /\ row # NoRow
  /\ Eval(row.conditions, key, "other") = "ok" /\ row.member = key
  /\ row' = [row EXCEPT !.member = 0]
  /\ who' = [key |-> key, top |-> "other", by |-> "UnbndWallet"]
  /\ UNCHANGED <<vde, table, perm, col, changing, changingTables, rights>>

\* NewUser: NewMoney makes the row and SetPubKey, in the same transaction,
\* gives it its key.
NewUser(key, v) ==
  /\ table = "keys" /\ row = NoRow
  /\ row' = Row(v, "none", 0, key)
  /\ who' = [key |-> key, top |-> "other", by |-> "NewUser"]
  /\ UNCHANGED <<vde, table, perm, col, changing, changingTables, rights>>

\* payContract: the amount of a wallet, and a row of the history.
payContract(key, v) ==
  /\ ~vde
  /\ \/ table = "keys" /\ row # NoRow /\ row' = [row EXCEPT !.value = v]
     \/ table = "history" /\ row = NoRow /\ row' = Row(v, "none", 0, key)
  /\ who' = [key |-> key, top |-> "other", by |-> "payContract"]
  /\ UNCHANGED <<vde, table, perm, col, changing, changingTables, rights>>

\* UpdateSysParam, called by the contract of that name or by one of the key.
UpdateSysParam(key, top, given, v, c) ==
  /\ table = "system_parameters" /\ row # NoRow
  /\ Eval(row.conditions, key, top) = "ok"
  /\ row' = [f \in DOMAIN row |-> IF f \notin given THEN row[f] ELSE IF f = "conditions" THEN c ELSE v]
  /\ who' = [key |-> key, top |-> top, by |-> "UpdateSysParam"]
  /\ UNCHANGED <<vde, table, perm, col, changing, changingTables, rights>>

-----------------------------------------------------------------------------
\* EditTable: TableConditions looks for the table under a name without its
\* ecosystem, so that except for the founder's tables the parameter decides.
EditTable(key, action, c) ==
  /\ rights < MaxRights
  /\ (table \in FounderTables /\ key = Founder) \/ Eval(changingTables, key, "other") = "ok"
  /\ perm' = [perm EXCEPT ![action] = c] /\ rights' = rights + 1
  /\ UNCHANGED <<vde, table, row, col, changing, changingTables, who>>

\* EditColumn: ColumnCondition and PermColumn.
EditColumn(key, f, c) ==
  /\ rights < MaxRights /\ AccessTable("update", key, "other")
  /\ col' = [col EXCEPT ![f] = c] /\ rights' = rights + 1
  /\ UNCHANGED <<vde, table, row, perm, changing, changingTables, who>>

\* The parameters are the founder's.
SetParameter(key, c) ==
  /\ rights < MaxRights /\ key = Founder
  /\ \/ changing' = c /\ UNCHANGED changingTables
     \/ changingTables' = c /\ UNCHANGED changing
  /\ rights' = rights + 1
  /\ UNCHANGED <<vde, table, row, perm, col, who>>

Next == \E key \in Keys :
  \/ \E route \in Routes, v \in Values, c \in RowConds :
       \/ \E given \in {{"conditions"}, {"menu", "conditions"}, {"mode", "conditions"}} :
            Edit(key, route, given, v, 0, c)
       \/ New(key, route, v, 0, c)
  \/ \E route \in Routes, v \in Values :
       Edit(key, route, {"value"}, v, 0, "none") \/ Edit(key, route, {"count"}, v, MaxCount + 1, "none")
  \/ \E v \in Values, c \in RowConds :
       OwnInsert(key, v, c) \/ \E f \in {"name", "value", "conditions"} : OwnUpdate(key, f, v, c)
  \/ \E v \in Values : UploadBinary(key, v) \/ UpdateMetrics(key, v) \/ NewUser(key, v) \/ payContract(key, v)
  \/ BndWallet(key) \/ UnbndWallet(key)
  \/ \E top \in {"editor", "own"}, given \in (SUBSET {"value", "conditions"}) \ {{}}, v \in Values, c \in RowConds :
       UpdateSysParam(key, top, given, v, c)
  \/ \E c \in {"main", "developer", "false"} :
       \/ EditTable(key, "update", c) \/ SetParameter(key, c)
       \/ \E f \in {"name", "value", "conditions"} : EditColumn(key, f, c)

-----------------------------------------------------------------------------
\* Whoever changes a row by a transaction has the right to update the table.
\* As long as the columns are left to the editor, he also meets the conditions
\* of the row itself; with the right of the parameter changing_* alone, what a
\* page or a contract says stays as it is.  What a binary holds is changed by
\* its member alone, a metric by the founder.  Three functions ask for no right
\* of the table: UnbndWallet takes from a contract the wallet of the key, which
\* meets the contract's conditions, payContract changes an amount, and
\* UpdateSysParam a system parameter whose own conditions the key meets
\* (AccessTable, AccessColumns, RowConditions, Edit*, UploadBinary).
RowsAreGuarded ==
  [][row # NoRow =>
       LET key == who'.key
           may(cond) == Eval(cond, key, who'.top) = "ok"
           kept(f) == row'[f] = row[f]
           keptBut(fields) == \A f \in DOMAIN row \ fields : kept(f)
       IN
       CASE who'.by \in {"BndWallet", "UnbndWallet"} ->
              table = "contracts" /\ keptBut({"member"}) /\ key = row.member /\ may(row.conditions)
         [] who'.by = "payContract" -> table = "keys" /\ keptBut({"value"})
         [] who'.by = "UpdateSysParam" ->
              table = "system_parameters" /\ keptBut({"value", "conditions"}) /\ may(row.conditions)
         [] OTHER ->
              /\ IF table \in FounderTables THEN key = Founder ELSE may(perm.update)
              /\ table \in Created \ (FounderTables \cup {"languages"}) /\ col.value = "editor" /\ col.conditions = "editor" =>
                   /\ ~kept("value") \/ ~kept("menu") => may(row.conditions)
                   /\ ~kept("conditions") => may(row.conditions) \/ (table \in tableParamConditions => may(changing))
              /\ table = "languages" /\ col.value = "editor" => may(changing) \/ kept("value")
              /\ table = "binaries" /\ col.value = "editor" /\ ~kept("value") => key = row.member
              /\ table = "metrics" /\ col.value = "editor" /\ ~kept("value") => key = Founder]_row
=============================================================================
