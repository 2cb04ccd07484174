--------------------------- MODULE ScriptCompiler ---------------------------
(***************************************************************************)
(* The compiler of contracts (packages/script/lex.go and compile.go): from *)
(* the words of a source to the tree of blocks with their bytecode.        *)
(*                                                                         *)
(* A word is what the finite machine of characters cuts out of the text:   *)
(* a record of its class id and its text or value v.  A lexeme is a record *)
(* of its type t and its value v; the type of a bracket, a comma and a     *)
(* keyword is the word itself.  Values of the language are tuples of a     *)
(* type and a value.                                                       *)
(*                                                                         *)
(* A block is a record; blocks are numbered in the order of creation and   *)
(* block 1 is the root.  A command is a record of cmd and its value v.     *)
(***************************************************************************)
EXTENDS Integers, Sequences, SequencesExt, TLC

Num(n) == <<"int64", n>>
Str(s) == <<"string", s>>
Bool(b) == <<"bool", b>>
Dec(n) == <<"money", n>>
Nil == <<"nil">>

Keywords ==
  {"contract", "func", "return", "if", "else", "while", "var", "data", "settings",
   "break", "continue", "warning", "info", "error", "..."}

Types == {"bool", "bytes", "int", "address", "array", "map", "money", "float", "string", "file"}

Lexem(t, v) == [t |-> t, v |-> v]

-----------------------------------------------------------------------------
(***************************************************************************)
(* lexParser.  s.i is the next word, s.out the list of lexemes, and        *)
(* s.ifbuf has an element for each if that may still get an elif: how many *)
(* braces close the chain, the depth of braces, and whether the last body  *)
(* of the chain has ended.                                                 *)
(***************************************************************************)

\* The first word after a body, unless a new line, decides whether the chain
\* goes on.
CloseChain(s, w) ==
  LET n == Len(s.ifbuf)
  IN  IF n = 0 \/ w.id = "newline" THEN s
      ELSE IF ~s.ifbuf[n].stop THEN s
      ELSE IF w.id = "ident" /\ w.v \in {"else", "elif"}
           THEN [s EXCEPT !.ifbuf[n].stop = FALSE]
           ELSE [s EXCEPT !.out = @ \o [i \in 1..s.ifbuf[n].count |-> Lexem("}", "}")],
                          !.ifbuf = Front(@)]

CountBrace(ifbuf, ch) ==
  IF ifbuf = <<>> \/ ch \notin {"{", "}"} THEN ifbuf
  ELSE LET n == Len(ifbuf)
           pair == ifbuf[n].pair + (IF ch = "{" THEN 1 ELSE -1)
       IN  [ifbuf EXCEPT ![n].pair = pair, ![n].stop = @ \/ (ch = "}" /\ pair = 0)]

LexIdent(s, name) ==
  LET add(lexems) == [s EXCEPT !.out = @ \o lexems]
      word == Lexem(name, name)
  IN  CASE name = "if" ->
             [add(<<word>>) EXCEPT !.ifbuf = Append(@, [count |-> 0, pair |-> 0, stop |-> FALSE])]
        [] name = "elif" /\ s.ifbuf # <<>> ->
             [add(<<Lexem("else", "else"), Lexem("{", "{"), Lexem("if", "if")>>)
                EXCEPT !.ifbuf[Len(s.ifbuf)].count = @ + 1]
        [] name \in {"action", "conditions"} ->
             add((IF s.out # <<>> /\ Last(s.out).t # "func"
                  THEN <<Lexem("func", "func")>> ELSE <<>>) \o <<Lexem("ident", name)>>)
        [] name = "true"   -> add(<<Lexem("number", Bool(TRUE))>>)
        [] name = "false"  -> add(<<Lexem("number", Bool(FALSE))>>)
        [] name = "nil"    -> add(<<Lexem("number", Nil)>>)
        [] name \in Keywords \ {"if"} -> add(<<word>>)
        [] name \in Types  -> add(<<Lexem("type", name)>>)
        [] OTHER           -> add(<<Lexem("ident", name)>>)

LexWord(s0, w) ==
  LET s == CloseChain(s0, w)
  IN  CASE w.id = "ident"   -> LexIdent(s, w.v)
        [] w.id = "sys"     -> [s EXCEPT !.out = Append(@, Lexem(w.v, w.v)),
                                          !.ifbuf = CountBrace(@, w.v)]
        [] w.id = "comment" -> s
        [] OTHER            -> [s EXCEPT !.out = Append(@, Lexem(w.id, w.v))]

\* 2^k words, or as many as there are.
RECURSIVE LexWords(_, _, _)
LexWords(s, words, k) ==
  IF s.i > Len(words) THEN s
  ELSE IF k = 0 THEN [LexWord(s, words[s.i]) EXCEPT !.i = @ + 1]
  ELSE LexWords(LexWords(s, words, k - 1), words, k - 1)

lexParser(words) == LexWords([i |-> 1, out |-> <<>>, ifbuf |-> <<>>], words, 12).out

-----------------------------------------------------------------------------
(***************************************************************************)
(* The states of the compiler.                                             *)
(***************************************************************************)

\* A transition: the new state, its flags and the handler, if any.
Go(next, flags, f) == [next |-> next, flags |-> flags, f |-> f]
To(next) == Go(next, {}, "")
Err == Go("Error", {}, "")

InRoot(t) ==
  CASE t = "newline"  -> To("Root")
    [] t = "contract" -> Go("Contract", {"push"}, "")
    [] t = "func"     -> Go("Func", {"push"}, "")
    [] OTHER          -> Err

InBody(t) ==
  CASE t = "newline"  -> To("Body")
    [] t = "func"     -> Go("Func", {"push"}, "")
    [] t = "return"   -> Go("Eval", {}, "return")
    [] t = "continue" -> Go("Body", {}, "continue")
    [] t = "break"    -> Go("Body", {}, "break")
    [] t = "if"       -> Go("Eval", {"push", "toblock", "musteval"}, "if")
    [] t = "while"    -> Go("Eval", {"push", "toblock", "label", "musteval"}, "while")
    [] t = "else"     -> Go("Block", {"push"}, "else")
    [] t = "var"      -> To("Var")
    [] t = "data"     -> Go("TX", {}, "tx")
    [] t = "settings" -> Go("Settings", {}, "settings")
    [] t \in {"error", "warning", "info"} -> Go("Eval", {}, "cmderror")
    [] t \in {"ident", "extend"} -> Go("AssignEval", {"fork"}, "")
    [] t = "}"        -> Go("", {"pop"}, "")
    [] OTHER          -> Err

InFuncHead(st, t) ==
  CASE st = "Block" /\ t = "{"       -> To("Body")
    [] st = "Contract" /\ t = "ident" -> Go("Block", {}, "nameblock")
    [] st = "Func" /\ t = "ident"    -> Go("FParams", {}, "nameblock")
    [] st = "FParams" /\ t = "("     -> To("FParam")
    [] st = "FParams" /\ t \notin {"(", "newline"} -> Go("FResult", {"stay"}, "")
    [] st = "FParam" /\ t = "ident"  -> Go("FParamTYPE", {}, "fparam")
    [] st = "FParam" /\ t = ","      -> To("FParam")
    [] st = "FParam" /\ t = ")"      -> To("FResult")
    [] st = "FParamTYPE" /\ t = "ident" -> Go("FParamTYPE", {}, "fparam")
    [] st = "FParamTYPE" /\ t = "type"  -> Go("FParam", {}, "ftype")
    [] st = "FParamTYPE" /\ t = "..."   -> Go("FTail", {}, "ftail")
    [] st = "FParamTYPE" /\ t = ","     -> To("FParamTYPE")
    [] st = "FTail" /\ t = ")"       -> To("FResult")
    [] st = "FResult" /\ t = "type"  -> Go("FResult", {}, "fresult")
    [] st = "FResult" /\ t = ","     -> To("FResult")
    [] st = "FResult" /\ t \notin {"type", ",", "newline"} -> Go("Block", {"stay"}, "")
    [] t = "newline" /\ st # "FParamTYPE" -> To(st)
    [] OTHER -> Err

InVar(st, t) ==
  CASE st = "Var" /\ t = "newline"   -> To("Body")
    [] st = "Var" /\ t = "ident"     -> Go("VarType", {}, "fparam")
    [] st = "Var" /\ t = "}"         -> Go("Body", {"stay"}, "")
    [] st = "Var" /\ t = ","         -> To("Var")
    [] st = "VarType" /\ t = "ident" -> Go("VarType", {}, "fparam")
    [] st = "VarType" /\ t = "type"  -> Go("Var", {}, "ftype")
    [] st = "VarType" /\ t = ","     -> To("VarType")
    [] OTHER -> Err

InAssign(st, t) ==
  CASE st = "AssignEval" /\ t \in {"(", "["}   -> Go("Eval", {"tofork", "tobody"}, "")
    [] st = "AssignEval" /\ t \notin {"(", "["} -> Go("Assign", {"tofork", "stay"}, "")
    [] st = "Assign" /\ t = ","                -> To("Assign")
    [] st = "Assign" /\ t \in {"ident", "extend"} -> Go("Assign", {}, "assignvar")
    [] st = "Assign" /\ t = "="                -> Go("Eval", {"tobody"}, "assign")
    [] OTHER -> Err

InSections(st, t) ==
  CASE st = "TX" /\ t = "{"              -> To("Fields")
    [] st = "Settings" /\ t = "{"        -> To("Consts")
    [] st = "Consts" /\ t = ","          -> To("Consts")
    [] st = "Consts" /\ t = "ident"      -> Go("ConstsAssign", {}, "constname")
    [] st = "Consts" /\ t = "}"          -> Go("Root", {"tobody"}, "")
    [] st = "ConstsAssign" /\ t = "="    -> To("ConstsValue")
    [] st = "ConstsValue" /\ t \in {"string", "number"} -> Go("Consts", {}, "constvalue")
    [] st = "Fields" /\ t = "newline"    -> Go("Fields", {}, "fieldline")
    [] st = "Fields" /\ t = ","          -> Go("Fields", {}, "fieldcomma")
    [] st = "Fields" /\ t = "ident"      -> Go("Fields", {}, "field")
    [] st = "Fields" /\ t = "type"       -> Go("Fields", {}, "fieldtype")
    [] st = "Fields" /\ t = "string"     -> Go("Fields", {}, "fieldtag")
    [] st = "Fields" /\ t = "}"          -> Go("Root", {"tobody"}, "fields")
    [] t = "newline" /\ st \in {"TX", "Settings", "Consts"} -> To(st)
    [] OTHER -> Err

Transition(st, t) ==
  CASE st = "Root" -> InRoot(t)
    [] st = "Body" -> InBody(t)
    [] st \in {"Var", "VarType"} -> InVar(st, t)
    [] st \in {"AssignEval", "Assign"} -> InAssign(st, t)
    [] st \in {"TX", "Settings", "Consts", "ConstsAssign", "ConstsValue", "Fields"} -> InSections(st, t)
    [] OTHER -> InFuncHead(st, t)

-----------------------------------------------------------------------------
(***************************************************************************)
(* The handlers.  c is the state of CompileBlock: the index of the lexeme, *)
(* the state and the stack of states, the blocks and the stack of blocks,  *)
(* the index to return to and the error.                                   *)
(***************************************************************************)
NewBlock(parent) ==
  [type |-> "", parent |-> parent, objects |-> <<>>, vars |-> <<>>, code |-> <<>>,
   name |-> "", params |-> <<>>, results |-> <<>>, variadic |-> FALSE, canWrite |-> FALSE,
   tx |-> <<>>, settings |-> <<>>]

Untyped == "untyped"
Cmd(cmd, v) == [cmd |-> cmd, v |-> v]

Put(f, key, value) == [k \in DOMAIN f \cup {key} |-> IF k = key THEN value ELSE f[k]]

Top(c) == Last(c.bs)
Below(c) == c.bs[Len(c.bs) - 1]
Fail(c, err) == [c EXCEPT !.err = err]
AddCode(c, b, code) == [c EXCEPT !.blk[b].code = @ \o code]

\* Every untyped element of a list of types gets the type.
Typed(list, type) == [i \in DOMAIN list |-> IF list[i] = Untyped THEN type ELSE list[i]]

\* The variables that a name means: the innermost block that has it.
findVar(name, blk, bs) ==
  LET depths == {d \in 1..Len(bs) : name \in DOMAIN blk[bs[d]].objects}
  IN  IF depths = {} THEN [type |-> "none"]
      ELSE LET d == CHOOSE m \in depths : \A n \in depths : n <= m
           IN  [owner |-> bs[d]] @@ blk[bs[d]].objects[name]

\* A name of the ecosystem: contracts are stored with its prefix.  The prefix
\* is a value of its own, "@" followed by the name.
StateName(name) == "@" \o name

findObj(name, blk, bs, vm) ==
  LET found == {o \in {findVar(name, blk, bs)} : o.type # "none"}
      qualified == findVar(StateName(name), blk, bs)
  IN  CASE found # {} -> CHOOSE o \in found : TRUE
        [] found = {} /\ qualified.type # "none" -> qualified
        [] found = {} /\ qualified.type = "none" /\ name \in DOMAIN vm -> vm[name]
        [] OTHER -> [type |-> "none"]

fNameBlock(c, state, name) ==
  LET contract == state = "Block"
      key == IF contract THEN StateName(name) ELSE name
      kind == IF contract THEN "contract" ELSE "func"
  IN  [c EXCEPT !.blk[Top(c)].type = kind,
                !.blk[Top(c)].name = key,
                !.blk[Below(c)].objects = Put(@, key, [type |-> kind, value |-> Top(c)])]

fFparam(c, state, name) ==
  LET b == c.blk[Top(c)]
      isParam == b.type = "func" /\ state \in {"FParam", "FParamTYPE"}
  IN  [c EXCEPT !.blk[Top(c)].params = IF isParam THEN Append(@, Untyped) ELSE @,
                !.blk[Top(c)].objects = Put(@, name, [type |-> "var", value |-> Len(b.vars)]),
                !.blk[Top(c)].vars = Append(@, Untyped)]

fFtype(c, state, type) ==
  LET isParam == c.blk[Top(c)].type = "func" /\ state = "FParam"
  IN  [c EXCEPT !.blk[Top(c)].params = IF isParam THEN Typed(@, type) ELSE @,
                !.blk[Top(c)].vars = Typed(@, type)]

fFtail(c) ==
  LET untyped == {i \in DOMAIN c.blk[Top(c)].params : c.blk[Top(c)].params[i] = Untyped}
  IN  IF \E i, j \in untyped : i # j THEN Fail(c, "... parameter must be one")
      ELSE [c EXCEPT !.blk[Top(c)].params = Typed(@, "array"),
                     !.blk[Top(c)].variadic = TRUE,
                     !.blk[Top(c)].vars = Typed(@, "array")]

\* isSysVar: $variables that a contract may not set and that calls leave alone.
\* No program has one whose name begins with loop_.
sysVars ==
  {"block", "block_key_id", "block_time", "data", "ecosystem_id", "key_id", "node_position", "parent",
   "original_contract", "sc", "stack", "this_contract", "time", "type", "txcost", "txhash", "guest_key"}

fAssignVar(c, lexem) ==
  LET obj  == findVar(lexem.v, c.blk, c.bs)
      item == IF lexem.t = "extend" THEN [owner |-> 0, ext |-> lexem.v]
              ELSE [owner |-> obj.owner, value |-> obj.value]
      code == c.blk[Top(c)].code
      n    == Len(code)
  IN  IF lexem.t = "extend" /\ lexem.v \in sysVars THEN Fail(c, "system variable")
      ELSE IF lexem.t = "ident" /\ obj.type # "var" THEN Fail(c, "unknown variable")
      ELSE IF n > 0 /\ code[n].cmd = "assignvar"
           THEN [c EXCEPT !.blk[Top(c)].code[n].v = Append(@, item)]
           ELSE AddCode(c, Top(c), <<Cmd("assignvar", <<item>>)>>)

\* The sections data and settings of a contract.
Section(c) == IF c.blk[Top(c)].type = "contract" THEN c ELSE Fail(c, "data can only be in contract")

fConstName(c, name) == [c EXCEPT !.blk[Top(c)].settings = Put(@, name, Nil)]

\* The value goes to a setting that has none: the last name, as long as no
\* setting is given the value nil.
fConstValue(c, value) ==
  LET sets == c.blk[Top(c)].settings
      name == CHOOSE k \in DOMAIN sets : sets[k] = Nil
  IN  [c EXCEPT !.blk[Top(c)].settings = Put(@, name, value)]

\* Marks a field whose type is still to come: set by the comma after it.
Pending == "_"

fField(c, name) ==
  LET tx == c.blk[Top(c)].tx
  IN  IF tx # <<>> /\ Last(tx).type = Untyped /\ Last(tx).tag # Pending
      THEN Fail(c, "expecting type")
      ELSE [c EXCEPT !.blk[Top(c)].tx = Append(@, [name |-> name, type |-> Untyped, tag |-> ""])]

\* The ends of a line and of the section: the last field has its type.
fFieldsTyped(c) ==
  LET tx == c.blk[Top(c)].tx
  IN  IF tx # <<>> /\ Last(tx).type = Untyped THEN Fail(c, "expecting type") ELSE c

fFieldComma(c) ==
  LET tx == c.blk[Top(c)].tx
  IN  IF tx = <<>> \/ Last(tx).type # Untyped THEN Fail(c, "expecting name")
      ELSE [c EXCEPT !.blk[Top(c)].tx[Len(tx)].tag = Pending]

fFieldType(c, type) ==
  LET tx == c.blk[Top(c)].tx
  IN  IF tx = <<>> \/ Last(tx).type # Untyped THEN Fail(c, "expecting name")
      ELSE [c EXCEPT !.blk[Top(c)].tx =
              [i \in DOMAIN tx |-> IF tx[i].type = Untyped
                                   THEN [tx[i] EXCEPT !.type = type, !.tag = ""] ELSE tx[i]]]

fFieldTag(c, tag) ==
  LET tx == c.blk[Top(c)].tx
  IN  IF tx = <<>> \/ Last(tx).type = Untyped \/ Last(tx).tag \notin {"", Pending}
      THEN Fail(c, "unexpected tag")
      ELSE [c EXCEPT !.blk[Top(c)].tx[Len(tx)].tag = tag]

fElse(c) ==
  LET code == c.blk[Below(c)].code
  IN  IF Last(code).cmd # "if" THEN Fail(c, "there is not if before")
      ELSE AddCode(c, Below(c), <<Cmd("else", Top(c))>>)

fWhile(c) == AddCode(c, Below(c), <<Cmd("while", Top(c)), Cmd("continue", 0)>>)

Handle(c, f, state, lexem) ==
  CASE f = ""           -> c
    [] f = "nameblock"  -> fNameBlock(c, state, lexem.v)
    [] f = "fresult"    -> [c EXCEPT !.blk[Top(c)].results = Append(@, lexem.v)]
    [] f \in {"return", "continue", "break", "assign"} -> AddCode(c, Top(c), <<Cmd(f, 0)>>)
    [] f = "cmderror"   -> AddCode(c, Top(c), <<Cmd("error", lexem.t)>>)
    [] f = "if"         -> AddCode(c, Below(c), <<Cmd("if", Top(c))>>)
    [] f = "else"       -> fElse(c)
    [] f = "while"      -> fWhile(c)
    [] f = "fparam"     -> fFparam(c, state, lexem.v)
    [] f = "ftype"      -> fFtype(c, state, lexem.v)
    [] f = "ftail"      -> fFtail(c)
    [] f = "assignvar"  -> fAssignVar(c, lexem)
    [] f \in {"tx", "settings"} -> Section(c)
    [] f = "constname"  -> fConstName(c, lexem.v)
    [] f = "constvalue" -> fConstValue(c, lexem.v)
    [] f = "field"      -> fField(c, lexem.v)
    [] f = "fieldtype"  -> fFieldType(c, lexem.v)
    [] f = "fieldtag"   -> fFieldTag(c, lexem.v[2])
    [] f \in {"fields", "fieldline"} -> fFieldsTyped(c)
    [] f = "fieldcomma" -> fFieldComma(c)

-----------------------------------------------------------------------------
(***************************************************************************)
(* Literals of maps and arrays.  An item is a record of its kind and its   *)
(* value; the parsers return the item and the index of its last lexeme, or *)
(* an error.                                                               *)
(***************************************************************************)
Item(kind, value, i) == [kind |-> kind, value |-> value, i |-> i, err |-> ""]
NoItem(err) == [kind |-> "", err |-> err]

RECURSIVE getInitValue(_, _, _, _), getInitMap(_, _, _, _, _, _), getInitArray(_, _, _, _, _, _)

getInitValue(lex, i, env, vm) ==
  LET l == lex[i]
      obj == findObj(l.v, env.blk, env.bs, vm)
  IN  CASE l.t = "[" -> getInitArray(lex, i + 1, env, vm, "value", <<>>)
        [] l.t = "{" -> getInitMap(lex, i + 1, env, vm, "key", <<>>)
        [] l.t = "extend" -> Item("extend", l.v, i)
        [] l.t = "ident"  -> IF obj.type = "none" THEN NoItem("unknown identifier")
                             ELSE Item("var", obj, i)
        [] l.t \in {"number", "string"} -> Item("const", l.v, i)
        [] OTHER -> NoItem("unexpected value")

\* pairs is the list of keys and items in the order of the source.
getInitMap(lex, i, env, vm, state, pairs) ==
  IF i > Len(lex) THEN NoItem("unclosed map") ELSE
  LET l == lex[i]
      next(st, p) == getInitMap(lex, i + 1, env, vm, st, p)
      item == getInitValue(lex, i, env, vm)
  IN  CASE l.t = "newline" -> next(state, pairs)
        [] l.t = "}" -> Item("map", pairs, i)
        [] l.t \notin {"newline", "}"} /\ state = "comma" ->
             IF l.t = "," THEN next("key", pairs) ELSE NoItem("expecting comma")
        [] l.t \notin {"newline", "}"} /\ state = "colon" ->
             IF l.t = ":" THEN next("value", pairs) ELSE NoItem("expecting colon")
        [] l.t \notin {"newline", "}"} /\ state = "key" ->
             CASE l.t = "string" -> next("colon", Append(pairs, [key |-> l.v[2]]))
               [] l.t = "func" /\ i < Len(lex) /\ lex[i + 1].t = "ident" -> next("key", pairs)
               [] l.t \in {"ident"} \cup Keywords -> next("colon", Append(pairs, [key |-> l.v]))
               [] OTHER -> NoItem("expecting key")
        [] l.t \notin {"newline", "}"} /\ state = "value" ->
             IF item.err # "" THEN item
             ELSE getInitMap(lex, item.i + 1, env, vm, "comma",
                             [pairs EXCEPT ![Len(pairs)] = [key |-> @.key, item |-> item]])

getInitArray(lex, i, env, vm, state, items) ==
  IF i > Len(lex) THEN NoItem("unclosed array") ELSE
  LET l == lex[i]
      item == getInitValue(lex, i, env, vm)
  IN  CASE l.t = "newline" -> getInitArray(lex, i + 1, env, vm, state, items)
        [] l.t = "]" -> Item("array", items, i)
        [] l.t \notin {"newline", "]"} /\ state = "comma" ->
             IF l.t = "," THEN getInitArray(lex, i + 1, env, vm, "value", items)
             ELSE NoItem("expecting comma")
        [] l.t \notin {"newline", "]"} /\ state = "value" ->
             IF item.err # "" THEN item
             ELSE getInitArray(lex, item.i + 1, env, vm, "comma", Append(items, item))

-----------------------------------------------------------------------------
(***************************************************************************)
(* compileEval: an expression, by the algorithm of two stacks.  e holds    *)
(* the index, the operators that wait (buffer), the code, the parameters   *)
(* of the open calls (parcount) and whether a bracket may start a literal. *)
(***************************************************************************)
Unary == 50
opers ==
  [x \in {"||", "&&", "==", "!=", "<", ">=", ">", "<=", "+", "-", "*", "/", "!"} |->
     CASE x = "||" -> [cmd |-> "or", prio |-> 10]
       [] x = "&&" -> [cmd |-> "and", prio |-> 15]
       [] x = "==" -> [cmd |-> "equal", prio |-> 20]
       [] x = "!=" -> [cmd |-> "noteq", prio |-> 20]
       [] x = "<"  -> [cmd |-> "less", prio |-> 22]
       [] x = ">=" -> [cmd |-> "notless", prio |-> 22]
       [] x = ">"  -> [cmd |-> "great", prio |-> 22]
       [] x = "<=" -> [cmd |-> "notgreat", prio |-> 22]
       [] x = "+"  -> [cmd |-> "add", prio |-> 25]
       [] x = "-"  -> [cmd |-> "sub", prio |-> 25]
       [] x = "*"  -> [cmd |-> "mul", prio |-> 30]
       [] x = "/"  -> [cmd |-> "div", prio |-> 30]
       [] x = "!"  -> [cmd |-> "not", prio |-> Unary]]

Parenthesis == [cmd |-> "sys", prio |-> 255, v |-> 0]
Oper(o) == [cmd |-> o.cmd, prio |-> o.prio, v |-> 0]
EvalErr(e, err) == [e EXCEPT !.err = err]

\* The operators down to the last open bracket move to the code, the last one
\* first; the bracket itself stays.
Flush(e) ==
  LET n == Len(e.buffer)
      open == {k \in 1..n : e.buffer[k].cmd = "sys"}
      k == IF open = {} THEN 0 ELSE CHOOSE m \in open : \A x \in open : x <= m
  IN  [e EXCEPT !.code = @ \o Reverse(SubSeq(e.buffer, k + 1, n)),
                !.buffer = SubSeq(@, 1, k)]

\* A slip: operators of the same priority wait, and so group to the right.
RECURSIVE AwaitRight(_, _)
AwaitRight(e, o) ==
  LET n == Len(e.buffer)
  IN  IF n = 0 \/ e.buffer[n].prio <= o.prio \/ o.prio = Unary \/ e.buffer[n].cmd = "sys"
      THEN [e EXCEPT !.buffer = Append(@, Oper(o))]
      ELSE AwaitRight([e EXCEPT !.code = Append(@, e.buffer[n]), !.buffer = Front(@)], o)

\* An operator sends to the code the operators before it that bind as
\* tightly.  A run of unary ones goes as a whole, in the order of the source.
RECURSIVE Await(_, _)
Await(e, o) ==
  LET n == Len(e.buffer)
      runs == {k \in 1..n : \A j \in k..n : e.buffer[j].prio = Unary}
      u == CHOOSE k \in runs : \A j \in runs : k <= j
  IN  IF n = 0 \/ e.buffer[n].prio < o.prio \/ o.prio = Unary \/ e.buffer[n].cmd = "sys"
      THEN [e EXCEPT !.buffer = Append(@, Oper(o))]
      ELSE IF e.buffer[n].prio = Unary
           THEN Await([e EXCEPT !.code = @ \o SubSeq(e.buffer, u, n),
                                !.buffer = SubSeq(@, 1, u - 1)], o)
           ELSE Await([e EXCEPT !.code = Append(@, e.buffer[n]), !.buffer = Front(@)], o)

EvalOper(lex, e, o) ==
  LET operand == {"number", "ident", "extend", "string", "}", "]", ")"}
      sign == o = "-" /\ (e.i = 1 \/ lex[e.i - 1].t \notin operand)
  IN  Await(e, IF sign THEN [cmd |-> "sign", prio |-> Unary] ELSE opers[o])

\* The end of the arguments of a call.
EvalCall(e) ==
  LET call == Last(e.buffer)
      obj == call.v
      count == Last(e.parcount)
      f == [e EXCEPT !.buffer = Front(@), !.parcount = Front(@),
                     !.writes = @ \/ obj.canWrite,
                     !.code = @ \o (IF call.cmd = "callvari" THEN <<Cmd("push", Num(count))>> ELSE <<>>)
                                \o <<Cmd(call.cmd, obj)>>]
  IN  IF obj.type = "extfunc" /\ count # obj.params /\ (~obj.variadic \/ count < obj.params)
      THEN EvalErr(e, "wrong number of parameters") ELSE f

EvalRPar(e0) ==
  LET e == Flush(e0)
      f == [e EXCEPT !.buffer = Front(@), !.noMap = TRUE]
  IN  IF e.buffer = <<>> THEN EvalErr(e, "there is not pair")
      ELSE IF f.buffer # <<>> /\ Last(f.buffer).cmd \in {"call", "callvari"} THEN EvalCall(f) ELSE f

\* A name followed by a bracket: a function, or a contract, which is a call of
\* ExecContract with the name of the contract before the arguments.
EvalCallee(lex, e, env, vm, name, obj) ==
  LET contract == obj.type = "contract"
      full == StateName(name)
      callee == IF contract THEN [vm["ExecContract"] EXCEPT !.canWrite = env.blk[obj.value].canWrite]
                ELSE IF obj.type = "func"
                     THEN [type |-> "func", value |-> obj.value, variadic |-> env.blk[obj.value].variadic,
                           canWrite |-> env.blk[obj.value].canWrite]
                     ELSE obj
      none == lex[e.i + 2].t = ")"
      itself == \E d \in 1..Len(env.bs) : /\ env.blk[env.bs[d]].type = "contract"
                                          /\ env.blk[env.bs[d]].name = full
      named == IF contract THEN <<Cmd("push", Str(full))>> \o
                                (IF none THEN <<Cmd("push", Str("")), Cmd("push", Str(""))>> ELSE <<>>)
               ELSE <<>>
      count == (IF none THEN IF contract THEN 2 ELSE 0 ELSE 1) + (IF contract THEN 1 ELSE 0)
  IN  IF obj.type \notin {"extfunc", "func", "contract"} THEN EvalErr(e, "unknown function")
      ELSE IF contract /\ itself THEN EvalErr(e, "recursion")
      ELSE [e EXCEPT !.buffer = Append(@, Cmd(IF callee.variadic THEN "callvari" ELSE "call", callee)),
                     !.code = @ \o named,
                     !.parcount = Append(@, count), !.noMap = TRUE]

EvalIdent(lex, e, env, vm, name) ==
  LET obj == findObj(name, env.blk, env.bs, vm)
      call == e.i + 2 <= Len(lex) /\ lex[e.i + 1].t = "("
  IN  CASE obj.type = "none" -> EvalErr(e, "unknown identifier")
        [] obj.type # "none" /\ call -> EvalCallee(lex, e, env, vm, name, obj)
        [] obj.type # "none" /\ ~call ->
             IF obj.type # "var" THEN EvalErr(e, "unknown variable")
             ELSE [e EXCEPT !.code = Append(@, Cmd("var", obj)), !.noMap = TRUE]

EvalNewLine(lex, e) ==
  IF \/ e.i > 1 /\ lex[e.i - 1].t \in {",", "oper"}
     \/ \E k \in DOMAIN e.buffer : e.buffer[k].cmd = "sys"
  THEN e ELSE [e EXCEPT !.done = TRUE]

EvalLiteral(e, literal) ==
  IF literal.err # "" THEN EvalErr(e, literal.err)
  ELSE [e EXCEPT !.code = Append(@, Cmd("init", literal)), !.i = literal.i]

\* A lexeme of the expression.  env has the blocks and the stack of blocks.
EvalLexem(lex, e0, env, vm) ==
  LET l == lex[e0.i]
      e == [e0 EXCEPT !.noMap = FALSE]
  IN  CASE ~e0.noMap /\ l.t \in {"{", "["} -> EvalLiteral(e, getInitValue(lex, e0.i, env, vm))
        [] (e0.noMap \/ l.t # "{") /\ l.t \in {"{", "}"} -> [e EXCEPT !.i = @ - 1, !.done = TRUE]
        [] l.t = "newline" -> EvalNewLine(lex, e)
        [] l.t = "("       -> [e EXCEPT !.buffer = Append(@, Parenthesis)]
        [] l.t = ","       -> [Flush(e) EXCEPT !.parcount =
                                 IF @ = <<>> THEN @ ELSE [@ EXCEPT ![Len(@)] = @ + 1]]
        [] l.t = ")"       -> EvalRPar(e)
        [] l.t = "oper"    -> EvalOper(lex, e, l.v)
        [] l.t \in {"number", "string"} ->
             [e EXCEPT !.code = Append(@, Cmd("push", l.v)), !.noMap = TRUE]
        [] l.t = "extend"  -> [e EXCEPT !.code = Append(@, Cmd("extend", l.v)), !.noMap = TRUE]
        [] l.t = "ident"   -> EvalIdent(lex, e, env, vm, l.v)
        [] l.t = "..."     -> [e EXCEPT !.code = Append(@, Cmd("unwrap", 0))]
        [] OTHER           -> e

Ahead(e) == IF e.done THEN e ELSE [e EXCEPT !.i = @ + 1]

RECURSIVE EvalFrom(_, _, _, _)
EvalFrom(lex, e, env, vm) ==
  IF e.done \/ e.err # "" \/ e.i > Len(lex) THEN e
  ELSE EvalFrom(lex, Ahead(EvalLexem(lex, e, env, vm)), env, vm)

\* setWritable: all the functions and contracts around the call.
setWritable(blk, bs) ==
  [b \in DOMAIN blk |-> IF b \in Range(bs) /\ blk[b].type \in {"func", "contract"}
                        THEN [blk[b] EXCEPT !.canWrite = TRUE] ELSE blk[b]]

\* The code of an expression that has been read, e, goes to the block.
AddEval(c, e) ==
  LET blk == IF e.writes THEN setWritable(c.blk, c.bs) ELSE c.blk
  IN  CASE e.err # "" -> Fail(c, e.err)
        [] e.err = "" /\ (\E k \in DOMAIN e.buffer : e.buffer[k].cmd = "sys") ->
             Fail(c, "there is not pair")
        [] OTHER -> AddCode([c EXCEPT !.i = e.i, !.blk = blk], Top(c), e.code \o Reverse(e.buffer))

compileEval(lex, c, vm) ==
  LET start == [i |-> c.i, buffer |-> <<>>, code |-> <<>>, parcount |-> <<>>, noMap |-> FALSE,
                err |-> "", done |-> FALSE, writes |-> FALSE]
  IN  AddEval(c, EvalFrom(lex, start, c, vm))

-----------------------------------------------------------------------------
(***************************************************************************)
(* CompileBlock.                                                           *)
(***************************************************************************)
Labelled(c, go) == IF "label" \in go.flags THEN AddCode(c, Top(c), <<Cmd("label", 0)>>) ELSE c

\* After the flag musteval the block d has more code than c.
MustEval(c, d, go) ==
  IF d.err = "" /\ "musteval" \in go.flags /\ Len(d.blk[Top(c)].code) = Len(c.blk[Top(c)].code)
  THEN Fail(d, "there is not eval expression") ELSE d

EvalLabelled(lex, c, go, vm) == MustEval(c, compileEval(lex, c, vm), go)
EvalState(lex, c, go, vm) ==
  IF go.next = "Eval" THEN EvalLabelled(lex, Labelled(c, go), go, vm) ELSE c

PushBlock(c) ==
  [c EXCEPT !.stack = Append(@, c.st),
            !.blk = Append(@, NewBlock(Top(c))),
            !.bs = Append(@, Len(c.blk) + 1)]

\* The end of a block.  The command that fWhile left after the loop moves to
\* the end of its body.
PopBlock(c) ==
  LET code == c.blk[Below(c)].code
      loop == code # <<>> /\ Last(code).cmd = "continue"
      blk == IF loop THEN [c.blk EXCEPT ![Below(c)].code = Front(@),
                                        ![Top(c)].code = Append(@, Cmd("continue", 0))]
             ELSE c.blk
  IN  IF c.stack = <<>> THEN Fail(c, "must be '{'")
      ELSE [c EXCEPT !.stack = Front(@), !.bs = Front(@), !.blk = blk]

\* The state after a lexeme.
NextState(c, go) ==
  CASE "toblock" \in go.flags -> "Block"
    [] "tobody" \in go.flags  -> "Body"
    [] "pop" \in go.flags     -> Last(c.stack)
    [] go.flags \cap {"toblock", "tobody", "pop"} = {} -> IF go.next = "Eval" THEN c.st ELSE go.next

\* Where the lexeme is read: a fork is remembered, and returned to.
Forked(c, go) ==
  IF "fork" \in go.flags THEN [c EXCEPT !.fork = c.i]
  ELSE IF "tofork" \in go.flags THEN [c EXCEPT !.i = c.fork] ELSE c

Pushed(c, go) == IF c.err = "" /\ "push" \in go.flags THEN PushBlock(c) ELSE c
Popped(c, go) == IF c.err = "" /\ "pop" \in go.flags THEN PopBlock(c) ELSE c
Handled(c, go, st, lexem) ==
  IF c.err # "" THEN c ELSE [Handle(c, go.f, st, lexem) EXCEPT !.st = st, !.i = @ + 1]

\* The transition go: the expression, the blocks, and the handler.
Follow(lex, c, go, vm) ==
  CASE go.next = "Error"   -> Fail(c, "unexpected lexeme")
    [] "stay" \in go.flags -> [c EXCEPT !.st = go.next]
    [] OTHER -> Handled(Popped(Pushed(EvalState(lex, c, go, vm), go), go), go, NextState(c, go), lex[c.i])

CompileLexem(lex, c, vm) ==
  LET go == Transition(c.st, lex[c.i].t)
  IN  Follow(lex, Forked(c, go), go, vm)

\* 2^k lexemes, or as many as there are.
RECURSIVE CompileLexems(_, _, _, _)
CompileLexems(lex, c, vm, k) ==
  IF c.err # "" \/ c.i > Len(lex) THEN c
  ELSE IF k = 0 THEN CompileLexem(lex, c, vm)
  ELSE CompileLexems(lex, CompileLexems(lex, c, vm, k - 1), vm, k - 1)

\* A slip: conditions may write.
CondWriteUnchecked(blk) == FALSE

\* A contract of the source whose conditions can write.
CondWrite(blk) ==
  \E k \in DOMAIN blk[1].objects :
     LET o == blk[1].objects[k]
     IN  /\ o.type = "contract"
         /\ "conditions" \in DOMAIN blk[o.value].objects
         /\ blk[blk[o.value].objects["conditions"].value].canWrite

\* The end of the source: all blocks are closed, and no condition writes.
Compiled(c) ==
  CASE c.err # ""                    -> [err |-> c.err, blk |-> c.blk]
    [] c.err = "" /\ c.stack # <<>>  -> [err |-> "must be '}'", blk |-> c.blk]
    [] OTHER -> [err |-> IF CondWrite(c.blk) THEN "conditions write" ELSE "", blk |-> c.blk]

\* vm is the table of the functions known before: a function of their names.
CompileBlock(lex, vm) ==
  Compiled(CompileLexems(lex, [i |-> 1, st |-> "Root", stack |-> <<>>, bs |-> <<1>>,
                               blk |-> <<NewBlock(0)>>, fork |-> 0, err |-> ""], vm, 12))
=============================================================================
