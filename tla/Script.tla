------------------------------- MODULE Script -------------------------------
(***************************************************************************)
(* A contract from its source to its effects, compared with the meaning of *)
(* the language.                                                           *)
(*                                                                         *)
(* A program is the syntax tree of two contracts, A and B, and a function  *)
(* f of one parameter x.  It is written down as the words of a source,     *)
(* compiled (ScriptCompiler) and the methods of A are run one after the    *)
(* other, as CallContract of packages/smart does (ScriptVM).  Meaning is a *)
(* definition of the language by recursion on the tree, without bytecode,  *)
(* stack or offsets.                                                       *)
(*                                                                         *)
(* Trees of expressions: lit, var, ext (a $variable), un, bin, call (of f, *)
(* Read or Write), exec (of contract B), list and pairs (literals).  Trees *)
(* of statements: var, set, setext, do, if, while, break, continue,        *)
(* return, error.                                                          *)
(***************************************************************************)
EXTENDS ScriptVM

CONSTANTS
  Programs,       \* the programs
  Budgets,        \* the costs that a run may have
  BareUnary,      \* TRUE: an operator of one operand follows another directly
  MaxLoop         \* iterations after which a loop counts as endless

VARIABLES prog, compiled, rt, phase
vars == <<prog, compiled, rt, phase>>

-----------------------------------------------------------------------------
(***************************************************************************)
(* The words of a source.                                                  *)
(***************************************************************************)
Id(name) == <<[id |-> "ident", v |-> name]>>
Sys(ch) == <<[id |-> "sys", v |-> ch]>>
Op(o) == <<[id |-> "oper", v |-> o]>>
NewLine == <<[id |-> "newline", v |-> 0]>>

Between(open, words, close) == Sys(open) \o words \o Sys(close)

\* A list of lists of words, with a comma between them.
RECURSIVE Commas(_)
Commas(list) ==
  IF list = <<>> THEN <<>>
  ELSE IF Len(list) = 1 THEN list[1] ELSE list[1] \o Sys(",") \o NewLine \o Commas(Tail(list))

Prio(e) == CASE e.e = "bin" -> opers[e.o].prio [] e.e = "un" -> Unary [] OTHER -> 100

RECURSIVE ExprWords(_)
ExprWords(e) ==
  LET in(a, atLeast) == IF Prio(a) >= atLeast THEN ExprWords(a) ELSE Between("(", ExprWords(a), ")")
      p == Prio(e)
  IN  CASE e.e = "lit"  -> CASE e.v[1] = "string" -> <<[id |-> "string", v |-> e.v]>>
                             [] e.v[1] = "bool"   -> Id(IF e.v[2] THEN "true" ELSE "false")
                             [] e.v = Nil         -> Id("nil")
                             [] OTHER             -> <<[id |-> "number", v |-> e.v]>>
        [] e.e = "var"  -> Id(e.x)
        [] e.e = "ext"  -> <<[id |-> "extend", v |-> e.x]>>
        [] e.e = "un"   -> Op(e.o) \o in(e.a, IF BareUnary THEN Unary ELSE Unary + 1)
        [] e.e = "bin"  -> in(e.a, p) \o Op(e.o) \o in(e.b, p + 1)
        [] e.e = "call" -> Id(e.f) \o Between("(", ExprWords(e.a), ")")
        [] e.e = "exec" -> Id("B") \o Between("(", IF e.par = "" THEN <<>>
                             ELSE <<[id |-> "string", v |-> Str(e.par)]>> \o Sys(",") \o ExprWords(e.a), ")")
        [] e.e = "list" -> Between("[", Commas([i \in DOMAIN e.items |-> ExprWords(e.items[i])]), "]")
        [] e.e = "pairs" -> Between("{", NewLine \o Commas([i \in DOMAIN e.items |->
                              Id(e.items[i].key) \o Sys(":") \o ExprWords(e.items[i].item)]), "}")

RECURSIVE BodyWords(_)
BodyWords(body) ==
  LET block(b) == Between("{", NewLine \o BodyWords(b), "}")
      st == body[1]
      arm(i) == Id(IF i = 1 THEN "if" ELSE "elif") \o ExprWords(st.arms[i].c) \o block(st.arms[i].body)
      arms == [i \in DOMAIN st.arms |-> arm(i)]
      words ==
        CASE st.s = "var"    -> Id("var") \o Id(st.x) \o Id("int")
          [] st.s = "set"    -> Id(st.x) \o Sys("=") \o ExprWords(st.a)
          [] st.s = "setext" -> <<[id |-> "extend", v |-> st.x]>> \o Sys("=") \o ExprWords(st.a)
          [] st.s = "do"     -> ExprWords(st.a)
          [] st.s = "if"     -> FlattenSeq(arms) \o
                                (IF st.other = <<>> THEN <<>> ELSE Id("else") \o block(st.other))
          [] st.s = "while"  -> Id("while") \o ExprWords(st.c) \o block(st.body)
          [] st.s \in {"break", "continue"} -> Id(st.s)
          [] st.s \in {"return", "error"} -> Id(st.s) \o ExprWords(st.a)
  IN  IF body = <<>> THEN <<>> ELSE words \o NewLine \o BodyWords(Tail(body))

\* A line of the section data: names that share a type, and a tag.
FieldWords(line) ==
  FlattenSeq([i \in DOMAIN line.names |-> (IF i = 1 THEN <<>> ELSE Sys(",")) \o Id(line.names[i])])
  \o Id(line.type) \o (IF line.tag = "" THEN <<>> ELSE <<[id |-> "string", v |-> Str(line.tag)]>>)
  \o NewLine

ContractWords(name, c) ==
  LET block(b) == Between("{", NewLine \o BodyWords(b), "}") \o NewLine
      data == FlattenSeq([i \in DOMAIN c.data |-> FieldWords(c.data[i])])
  IN  Id("contract") \o Id(name) \o
      Between("{", NewLine \o Id("data") \o Between("{", NewLine \o data, "}") \o NewLine
                   \o (IF c.conditions = <<>> THEN <<>> ELSE Id("conditions") \o block(c.conditions))
                   \o Id("action") \o block(c.action), "}") \o NewLine

Source(p) ==
  Id("func") \o Id("f") \o Between("(", Id("x") \o Id("int"), ")") \o Id("int")
  \o Between("{", NewLine \o BodyWords(p.f), "}") \o NewLine
  \o ContractWords("B", p.B) \o ContractWords("A", p.A)

-----------------------------------------------------------------------------
(***************************************************************************)
(* The meaning of a program.  A state has the variables of the open blocks *)
(* (the innermost last), the $variables, the number of writes, and how the *)
(* statement ended.                                                        *)
(***************************************************************************)
Scope(s, x) ==
  LET in == {d \in DOMAIN s.scopes : x \in DOMAIN s.scopes[d]}
  IN  CHOOSE d \in in : \A n \in in : n <= d

Failed(s) == [v |-> Fault, s |-> s]

RECURSIVE Value(_, _, _), Values(_, _, _), Execute(_, _, _), Body(_, _, _), Choice(_, _, _, _, _), While(_, _, _, _)

\* The values of a list of expressions, from the first to the last.
Values(items, s, p) ==
  IF items = <<>> THEN [v |-> <<>>, s |-> s]
  ELSE LET first == Value(Head(items), s, p)
           rest == Values(Tail(items), first.s, p)
       IN  [v |-> <<first.v>> \o rest.v, s |-> rest.s]

\* The call of a method: its own variables, and the $variables of the caller.
Method(body, scope, s, p) ==
  LET r == Body(body, [s EXCEPT !.scopes = <<scope>>], p)
  IN  [r EXCEPT !.scopes = s.scopes]

CallB(par, v, s, p) ==
  LET own == [k \in DOMAIN s.ext \cap sysVars |-> s.ext[k]]
      line(n) == CHOOSE i \in DOMAIN p.B.data : n \in Range(p.B.data[i].names)
      fields == UNION {Range(p.B.data[i].names) : i \in DOMAIN p.B.data} \ {par}
      optional(n) == p.B.data[line(n)].tag = "optional" /\ Last(p.B.data[line(n)].names) = n
      ext == [k \in DOMAIN own \cup fields \cup {par, "parent", "this_contract"} |->
                CASE k = par -> v
                  [] k \in fields -> Zero(p.B.data[line(k)].type)
                  [] k = "parent" -> Str("@A")
                  [] k = "this_contract" -> Str("@B")
                  [] OTHER -> own[k]]
      inB == [s EXCEPT !.ext = ext, !.inB = TRUE]
      cond == Method(p.B.conditions, <<>>, inB, p)
      act == Method(p.B.action, <<>>, [cond EXCEPT !.flow = "normal"], p)
      end == IF cond.flow \in {"error", "endless"} THEN cond ELSE act
  IN  IF \/ s.inB
         \/ \E n \in fields : ~optional(n)
         \/ end.flow = "error" THEN Failed(end)
      ELSE [v |-> IF "result" \in DOMAIN end.ext THEN end.ext["result"] ELSE Nil,
            s |-> [end EXCEPT !.ext = s.ext, !.inB = s.inB,
                              !.flow = IF @ = "endless" THEN @ ELSE "normal"]]

Value(e, s, p) ==
  LET a == Value(e.a, s, p)
      b == Value(e.b, a.s, p)
      f == Method(p.f, [x |-> a.v], a.s, p)
  IN  CASE s.flow # "normal" -> Failed(s)
        [] s.flow = "normal" /\ e.e = "lit" -> [v |-> e.v, s |-> s]
        [] s.flow = "normal" /\ e.e = "var" -> [v |-> s.scopes[Scope(s, e.x)][e.x], s |-> s]
        [] s.flow = "normal" /\ e.e = "ext" ->
             IF e.x \in DOMAIN s.ext THEN [v |-> s.ext[e.x], s |-> s] ELSE Failed(s)
        [] s.flow = "normal" /\ e.e = "un" ->
             IF a.v = Fault THEN a
             ELSE [v |-> UnaryOp(IF e.o = "-" THEN "sign" ELSE "not", a.v), s |-> a.s]
        [] s.flow = "normal" /\ e.e = "bin" ->
             IF Fault \in {a.v, b.v} THEN Failed(b.s)
             ELSE [v |-> Binary(opers[e.o].cmd, a.v, b.v), s |-> b.s]
        [] s.flow = "normal" /\ e.e = "call" ->
             IF a.v = Fault \/ e.f = "Read" THEN a
             ELSE IF e.f = "Write" THEN [a EXCEPT !.s.writes = @ + 1]
             ELSE IF ~IsInt(a.v) \/ f.flow \notin {"return", "endless"} THEN Failed(f)
             ELSE [v |-> f.v, s |-> [f EXCEPT !.flow = IF @ = "endless" THEN @ ELSE "normal"]]
        [] s.flow = "normal" /\ e.e = "exec" ->
             IF e.par = "" THEN CallB("", Str(""), s, p)
             ELSE IF a.v = Fault THEN a ELSE CallB(e.par, a.v, a.s, p)
        [] s.flow = "normal" /\ e.e = "list" ->
             LET r == Values(e.items, s, p) IN [v |-> <<"array", r.v>>, s |-> r.s]
        [] s.flow = "normal" /\ e.e = "pairs" ->
             LET r == Values([i \in DOMAIN e.items |-> e.items[i].item], s, p)
             IN  [v |-> <<"map", [i \in DOMAIN e.items |-> <<e.items[i].key, r.v[i]>>]>>, s |-> r.s]

\* The end of a statement that needs the value of an expression.
After(r, ok) == IF r.v = Fault THEN [r.s EXCEPT !.flow = IF @ = "endless" THEN @ ELSE "error"]
                ELSE IF r.s.flow = "endless" THEN r.s ELSE ok

Nested(body, s, p) ==
  LET r == Body(body, [s EXCEPT !.scopes = Append(@, <<>>)], p)
  IN  [r EXCEPT !.scopes = Front(@)]

\* A branch: yes and no are what follows a true and a false condition.
Branch(r, yes, no) == After(r, IF valueToBool(r.v) THEN yes ELSE no)

Decide(arms, i, other, r, p) ==
  Branch(r, Nested(arms[i].body, r.s, p), Choice(arms, i + 1, other, r.s, p))

Choice(arms, i, other, s, p) ==
  IF i > Len(arms) THEN Nested(other, s, p)
  ELSE Decide(arms, i, other, Value(arms[i].c, s, p), p)

\* The loop after one run of its body.
Again(st, n, once, p) ==
  CASE once.flow \in {"normal", "continue"} -> While(st, n + 1, [once EXCEPT !.flow = "normal"], p)
    [] once.flow = "break" -> [once EXCEPT !.flow = "normal"]
    [] OTHER -> once

Repeat(st, n, r, p) == Branch(r, Again(st, n, Nested(st.body, r.s, p), p), r.s)

While(st, n, s, p) ==
  IF n > MaxLoop THEN [s EXCEPT !.flow = "endless"] ELSE Repeat(st, n, Value(st.c, s, p), p)

\* A statement whose expression has the value and the effects of r.
Finish(st, r) ==
  After(r, CASE st.s = "set"    -> [r.s EXCEPT !.scopes[Scope(r.s, st.x)][st.x] = r.v]
             [] st.s = "setext" -> [r.s EXCEPT !.ext = Put(@, st.x, r.v)]
             [] st.s = "do"     -> r.s
             [] st.s = "return" -> [r.s EXCEPT !.flow = "return", !.v = r.v]
             [] st.s = "error"  -> [r.s EXCEPT !.flow = "error"])

Execute(st, s, p) ==
  CASE st.s = "var"   -> [s EXCEPT !.scopes[Len(s.scopes)] = Put(@, st.x, Num(0))]
    [] st.s = "if"    -> Choice(st.arms, 1, st.other, s, p)
    [] st.s = "while" -> While(st, 1, s, p)
    [] st.s \in {"break", "continue"} -> [s EXCEPT !.flow = st.s]
    [] OTHER          -> Finish(st, Value(st.a, s, p))

Body(body, s, p) ==
  IF body = <<>> \/ s.flow # "normal" THEN s ELSE Body(Tail(body), Execute(Head(body), s, p), p)

Ext0 == [this_contract |-> Str("@A"), parent |-> Str(""), key_id |-> Num(7)]
State0 == [scopes |-> <<>>, ext |-> Ext0, writes |-> 0, flow |-> "normal", v |-> Nil, inB |-> FALSE]

\* What both methods of A do to the $variables and the database.
ThenAction(cond, p) ==
  IF cond.flow \in {"error", "endless"} THEN cond
  ELSE Method(p.A.action, <<>>, [cond EXCEPT !.flow = "normal"], p)
Meaning(p) == ThenAction(Method(p.A.conditions, <<>>, State0, p), p)

\* Whether a tree, or what it calls, may write.
RECURSIVE ExprWrites(_, _), BodyWrites(_, _)
ExprWrites(e, p) ==
  CASE e.e = "un"   -> ExprWrites(e.a, p)
    [] e.e = "bin"  -> ExprWrites(e.a, p) \/ ExprWrites(e.b, p)
    [] e.e = "call" -> ExprWrites(e.a, p) \/ e.f = "Write" \/ (e.f = "f" /\ BodyWrites(p.f, p))
    [] e.e = "exec" -> \/ (e.par # "" /\ ExprWrites(e.a, p))
                       \/ BodyWrites(p.B.conditions, p) \/ BodyWrites(p.B.action, p)
    [] OTHER -> FALSE
BodyWrites(body, p) ==
  \E i \in DOMAIN body :
    LET st == body[i]
    IN  CASE st.s = "if" -> \/ \E k \in DOMAIN st.arms :
                                  ExprWrites(st.arms[k].c, p) \/ BodyWrites(st.arms[k].body, p)
                            \/ BodyWrites(st.other, p)
          [] st.s = "while" -> ExprWrites(st.c, p) \/ BodyWrites(st.body, p)
          [] st.s \in {"var", "break", "continue"} -> FALSE
          [] OTHER -> ExprWrites(st.a, p)

\* Whether a tree sets a variable of the system.
RECURSIVE SetsSystem(_)
SetsSystem(body) ==
  \E i \in DOMAIN body :
    LET st == body[i]
    IN  CASE st.s = "setext" -> st.x \in sysVars
          [] st.s = "if"     -> SetsSystem(st.other) \/ \E k \in DOMAIN st.arms : SetsSystem(st.arms[k].body)
          [] st.s = "while"  -> SetsSystem(st.body)
          [] OTHER -> FALSE
Bodies(p) == {p.f, p.B.conditions, p.B.action, p.A.conditions, p.A.action}

-----------------------------------------------------------------------------
(***************************************************************************)
(* The contract is compiled and its methods are run.                       *)
(***************************************************************************)

\* The functions of the node: ExecContract takes the name of the contract, the
\* names of its parameters and their values.
Functions ==
  [n \in {"ExecContract", "Read", "Write"} |->
     [type |-> "extfunc", value |-> n, params |-> IF n = "ExecContract" THEN 3 ELSE 1,
      variadic |-> n = "ExecContract", canWrite |-> n = "Write"]]

Init ==
  /\ prog \in Programs
  /\ \E cost \in Budgets : rt = RunInit(cost, Ext0)
  /\ compiled = [err |-> "", blk |-> <<>>]
  /\ phase = "source"

Compile ==
  /\ phase = "source"
  /\ compiled' = CompileBlock(lexParser(Source(prog)), Functions)
  /\ phase' = IF compiled'.err = "" THEN "conditions" ELSE "rejected"
  /\ UNCHANGED <<prog, rt>>

ContractA == compiled.blk[1].objects["@A"].value

\* RunContract: conditions, then action.
RunConditions ==
  /\ phase = "conditions"
  /\ rt' = RunMethod(rt, compiled.blk, ContractA, "conditions", "")
  /\ phase' = IF rt'.err = "" THEN "action" ELSE "failed"
  /\ UNCHANGED <<prog, compiled>>

RunAction ==
  /\ phase = "action"
  /\ rt' = RunMethod(rt, compiled.blk, ContractA, "action", "")
  /\ phase' = IF rt'.err = "" THEN "done" ELSE "failed"
  /\ UNCHANGED <<prog, compiled>>

Next == Compile \/ RunConditions \/ RunAction
Spec == Init /\ [][Next]_vars

-----------------------------------------------------------------------------
CostOver == rt.err = "paid CPU resource is over"

EndsAs(m) ==
  /\ m.flow # "endless"
  /\ (phase = "failed") = (m.flow = "error")
  /\ phase = "done" => /\ rt.ext = m.ext
                       /\ rt.writes = m.writes

\* The run of a contract ends as the language says: with the same error or
\* none, the same $variables and the same writes.  Its budget decides only
\* whether it gets there: a run that is cut reports it, and a loop without an
\* end is always cut (compileEval, CompileBlock, RunCode).
RunsAsMeant == phase \in {"done", "failed"} /\ ~CostOver => EndsAs(Meaning(prog))

\* CompileBlock refuses a contract exactly when its conditions may write,
\* through whatever functions and contracts they call, or when it sets a
\* variable of the system (setWritable, fAssignVar).
RefusesWriters ==
  phase # "source" =>
    (phase = "rejected") = (BodyWrites(prog.A.conditions, prog) \/ \E body \in Bodies(prog) : SetsSystem(body))

\* The fields of a transaction are those of the section data, in its order,
\* with the type of their line, and the tag on the last one of the line.
FieldsAsDeclared ==
  LET fields(line) == [i \in DOMAIN line.names |->
                         [name |-> line.names[i], type |-> line.type,
                          tag |-> IF i = Len(line.names) THEN line.tag ELSE ""]]
  IN  phase \in {"conditions", "action", "done"} =>
        compiled.blk[ContractA].tx = FlattenSeq([k \in DOMAIN prog.A.data |-> fields(prog.A.data[k])])

\* What the compiler takes down of a contract is what the source says: whether
\* its conditions write, and the fields of its transactions (CompileBlock).
CompilesAsWritten == RefusesWriters /\ FieldsAsDeclared
=============================================================================
