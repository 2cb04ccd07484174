------------------------------ MODULE ScriptVM ------------------------------
(***************************************************************************)
(* The virtual machine of contracts (packages/script/vm.go, vminit.go): it *)
(* runs the blocks of ScriptCompiler.                                      *)
(*                                                                         *)
(* The state of a run is a record: the stack, the variables of all blocks  *)
(* (never shrunk), the open blocks with the offset of their variables, the *)
(* cost left, the $variables (ext), the contracts under way (the loop_     *)
(* names), the writes to the database, the status and the error.  A panic  *)
(* of the interpreter is recovered by Run and is an error like any other.  *)
(***************************************************************************)
EXTENDS ScriptCompiler

CONSTANTS CostCall, CostContract, CostExtend, MaxCallDepth

ASSUME CostAssumption ==
  {CostCall, CostContract, CostExtend, MaxCallDepth} \subseteq Nat

\* The strings that denote integers.  The empty one counts as zero.
Numerals == [s \in {"", "0", "1", "2"} |->
               CASE s \in {"", "0"} -> 0 [] s = "1" -> 1 [] s = "2" -> 2]

IsInt(v) == v[1] = "int64"
IsStr(v) == v[1] = "string"
IsDec(v) == v[1] = "money"
Numeral(v) == IsInt(v) \/ (IsStr(v) /\ v[2] \in DOMAIN Numerals)
ValueToInt(v) == IF IsInt(v) THEN v[2] ELSE Numerals[v[2]]
ValueToDecimal(v) == IF IsStr(v) THEN Numerals[v[2]] ELSE v[2]
DecimalValue(v) == IsDec(v) \/ IsInt(v) \/ (IsStr(v) /\ v[2] \in DOMAIN Numerals \ {""})

valueToBool(v) ==
  CASE v[1] \in {"int64", "money"} -> v[2] # 0
    [] v[1] = "bool"   -> v[2]
    [] v[1] = "string" -> v[2] # ""
    [] v[1] \in {"array", "map"} -> v[2] # <<>>
    [] v[1] = "nil"    -> FALSE

Fault == <<"fault">>

\* Division of integers, rounding to zero; of money, rounding down.
Quotient(a, b) ==
  LET q == (IF a < 0 THEN -a ELSE a) \div (IF b < 0 THEN -b ELSE b)
  IN  IF (a < 0) = (b < 0) THEN q ELSE -q

Compute(cmd, a, b) ==
  CASE cmd = "add" -> a + b
    [] cmd = "sub" -> a - b
    [] cmd = "mul" -> a * b

\* Arithmetic: l is the left operand.
Arithmetic(cmd, l, r) ==
  CASE cmd = "add" /\ IsStr(l) /\ IsStr(r) -> Str(l[2] \o r[2])
    [] IsStr(l) /\ IsStr(r) /\ cmd # "add" -> Fault
    [] IsInt(l) \/ (IsStr(l) /\ IsInt(r)) ->
         IF ~(Numeral(l) /\ Numeral(r)) THEN Fault
         ELSE IF cmd # "div" THEN Num(Compute(cmd, ValueToInt(l), ValueToInt(r)))
         ELSE IF ValueToInt(r) = 0 THEN Fault ELSE Num(Quotient(ValueToInt(l), ValueToInt(r)))
    [] IsDec(l) /\ IsDec(r) ->
         IF cmd # "div" THEN Dec(Compute(cmd, l[2], r[2]))
         ELSE IF r[2] = 0 THEN Fault ELSE Dec(IF r[2] < 0 THEN (-l[2]) \div (-r[2]) ELSE l[2] \div r[2])
    [] OTHER -> Fault

\* The pairs of operands that a comparison accepts, as two numbers; strings
\* are compared by the order of their characters, and only equality is modelled.
Comparison(l, r) ==
  CASE IsStr(l) /\ IsInt(r) -> IF Numeral(l) THEN <<ValueToInt(l), r[2]>> ELSE <<>>
    [] IsStr(l) /\ IsDec(r) -> IF DecimalValue(l) THEN <<ValueToDecimal(l), r[2]>> ELSE <<>>
    [] IsInt(l) /\ IsInt(r) -> <<l[2], r[2]>>
    [] IsDec(l) -> IF DecimalValue(r) THEN <<l[2], ValueToDecimal(r)>> ELSE <<>>
    [] OTHER -> <<>>

Compare(cmd, l, r) ==
  LET p == Comparison(l, r)
  IN  IF p = <<>> THEN Fault
      ELSE CASE cmd = "equal"    -> Bool(p[1] = p[2])
             [] cmd = "noteq"    -> Bool(p[1] # p[2])
             [] cmd = "less"     -> Bool(p[1] < p[2])
             [] cmd = "notless"  -> Bool(p[1] >= p[2])
             [] cmd = "great"    -> Bool(p[1] > p[2])
             [] cmd = "notgreat" -> Bool(p[1] <= p[2])

Equal(cmd, l, r) ==
  CASE Nil \in {l, r} -> Bool((l = r) = (cmd = "equal"))
    [] IsStr(l) /\ IsStr(r) -> Bool((l[2] = r[2]) = (cmd = "equal"))
    [] OTHER -> Compare(cmd, l, r)

\* A command of two operands.  Both of && and || are always evaluated.
Binary(cmd, l, r) ==
  CASE cmd \in {"add", "sub", "mul", "div"} -> Arithmetic(cmd, l, r)
    [] cmd = "and" -> Bool(valueToBool(l) /\ valueToBool(r))
    [] cmd = "or"  -> Bool(valueToBool(l) \/ valueToBool(r))
    [] cmd \in {"equal", "noteq"} -> Equal(cmd, l, r)
    [] cmd \in {"less", "notless", "great", "notgreat"} -> Compare(cmd, l, r)

UnaryOp(cmd, v) ==
  CASE cmd = "not"  -> Bool(~valueToBool(v))
    [] cmd = "sign" -> IF IsInt(v) THEN Num(-v[2]) ELSE Fault

IsBinary(cmd) == cmd \in {opers[o].cmd : o \in DOMAIN opers \ {"!"}}

\* The value of a new variable.
Zero(type) ==
  CASE type = "int" -> Num(0) [] type = "string" -> Str("") [] type = "bool" -> Bool(FALSE)
    [] type = "money" -> Dec(0) [] type = "array" -> <<"array", <<>>>> [] type = "map" -> <<"map", <<>>>>

-----------------------------------------------------------------------------
(***************************************************************************)
(* The state of a run.                                                     *)
(***************************************************************************)

RunInit(cost, ext) ==
  [stack |-> <<>>, vars |-> <<>>, blocks |-> <<>>, cost |-> cost, ext |-> ext, loops |-> {},
   writes |-> 0, depth |-> 0, unwrap |-> FALSE, status |-> "normal", err |-> ""]

Stop(rt, err) == [rt EXCEPT !.err = err]
OutOfCost(rt) == Stop(rt, "paid CPU resource is over")
PushV(rt, v) == [rt EXCEPT !.stack = Append(@, v)]
Drop(rt, n) == [rt EXCEPT !.stack = SubSeq(@, 1, Len(@) - n)]
TopV(rt) == Last(rt.stack)

\* The last open block that owns a variable, and the place of the variable.
Place(rt, owner, value) ==
  LET open == {d \in DOMAIN rt.blocks : rt.blocks[d].block = owner}
      d == CHOOSE m \in open : \A n \in open : n <= m
  IN  IF open = {} THEN 0 ELSE rt.blocks[d].offset + value + 1

\* A literal: the constants, variables and $variables in it have values.
RECURSIVE getResultValue(_, _)
getResultValue(rt, item) ==
  CASE item.kind = "const"  -> item.value
    [] item.kind = "extend" -> IF item.value \in DOMAIN rt.ext THEN rt.ext[item.value] ELSE Nil
    [] item.kind = "var"    -> rt.vars[Place(rt, item.value.owner, item.value.value)]
    [] item.kind = "array"  ->
         <<"array", [i \in DOMAIN item.value |-> getResultValue(rt, item.value[i])]>>
    [] item.kind = "map"    ->
         <<"map", [i \in DOMAIN item.value |->
                     <<item.value[i].key, getResultValue(rt, item.value[i].item)>>]>>

\* cmdAssign.  The values stay on the stack until the end of the block.
RECURSIVE AssignFrom(_, _, _, _)
AssignFrom(rt, blk, assign, k) ==
  IF k > Len(assign) \/ rt.err # "" THEN rt
  ELSE LET item == assign[k]
           v == rt.stack[Len(rt.stack) - Len(assign) + k]
           place == Place(rt, item.owner, item.value)
           decimal == item.owner # 0 /\ blk[item.owner].vars[item.value + 1] = "money"
           next == CASE item.owner = 0 /\ item.ext \in sysVars -> Stop(rt, "system variable")
                     [] item.owner = 0 /\ item.ext \notin sysVars -> [rt EXCEPT !.ext = Put(@, item.ext, v)]
                     [] item.owner # 0 /\ decimal ->
                          IF DecimalValue(v) THEN [rt EXCEPT !.vars[place] = Dec(ValueToDecimal(v))]
                          ELSE Stop(rt, "wrong decimal")
                     [] OTHER -> [rt EXCEPT !.vars[place] = v]
       IN  AssignFrom(next, blk, assign, k + 1)

-----------------------------------------------------------------------------
(***************************************************************************)
(* Calls and blocks.                                                       *)
(***************************************************************************)
RECURSIVE RunCode(_, _, _), Commands(_, _, _), callFunc(_, _, _, _), ExecContract(_, _, _, _, _)

\* A variadic parameter: the last values of the stack become one array.  With
\* unwrap, an array given as the last argument is laid out first.
Spread(rt) ==
  LET n == Len(rt.stack)
      arr == rt.stack[n - 1]
  IN  IF rt.unwrap /\ n > 1 /\ arr[1] = "array"
      THEN [rt EXCEPT !.stack = SubSeq(@, 1, n - 2) \o arr[2] \o
                                <<Num(rt.stack[n][2] - 1 + Len(arr[2]))>>]
      ELSE rt

Gather(rt, in) ==
  LET n == Len(rt.stack) - 1
      parcount == rt.stack[n + 1][2] + 1 - in
  IN  IF parcount < 0 THEN Stop(rt, "wrong count of parameters")
      ELSE [rt EXCEPT !.stack = Append(SubSeq(@, 1, n - parcount),
                                       <<"array", SubSeq(@, n - parcount + 1, n)>>)]

TypeOf(param) == IF param = "int" THEN "int64" ELSE param

CallUser(rt0, blk, cmd, b) ==
  LET in == Len(blk[b].params)
      rt == IF cmd = "callvari" THEN Gather(rt0, in) ELSE rt0
      n == Len(rt.stack)
  IN  CASE rt.err # "" -> rt
        [] rt.err = "" /\ n < in -> Stop(rt, "wrong count of parameters")
        [] rt.err = "" /\ n >= in ->
             IF \E i \in 1..in : /\ blk[b].params[i] \in {"string", "int"}
                                 /\ rt.stack[n - in + i][1] # TypeOf(blk[b].params[i])
             THEN Stop(rt, "parameter has wrong type")
             ELSE [RunCode(rt, blk, b) EXCEPT !.status = "normal"]

\* A function of the node.  Write stands for those that update the database;
\* its argument is its result, as that of Read.
CallExt(rt, blk, obj) ==
  LET n == Len(rt.stack)
      count == rt.stack[n][2]
      args == SubSeq(rt.stack, n - count, n - 1)
      called == ExecContract(rt, blk, args[1][2], args[2][2], SubSeq(args, 3, count))
  IN  IF obj.value = "ExecContract"
      THEN IF args[2][1] # "string" THEN Stop(rt, "unknown function")
           ELSE IF called.err # "" THEN called
                ELSE [called EXCEPT !.stack = Append(SubSeq(rt.stack, 1, n - 1 - count), Last(@))]
      ELSE [rt EXCEPT !.writes = @ + (IF obj.canWrite THEN 1 ELSE 0)]

callFunc(rt0, blk, cmd, obj) ==
  LET rt1 == [rt0 EXCEPT !.depth = @ + 1]
      rt == [(IF cmd = "callvari" THEN Spread(rt1) ELSE rt1) EXCEPT !.unwrap = FALSE]
      done == IF obj.type = "func" THEN CallUser(rt, blk, cmd, obj.value) ELSE CallExt(rt, blk, obj)
  IN  IF rt0.depth >= MaxCallDepth THEN Stop(rt0, "max call depth")
      ELSE [done EXCEPT !.depth = @ - 1]

\* One command of a block.  f is the frame: block, index, where its part of
\* the stack starts, labels of loops and the targets of an assignment.
RunBlock(rt, blk, f, b) == [rt |-> RunCode(rt, blk, b), f |-> f]

Exec(rt, blk, f, c) ==
  LET same(r) == [rt |-> r, f |-> f]
      n == Len(rt.stack)
      place == Place(rt, c.v.owner, c.v.value)
      run == RunCode(Drop(rt, 1), blk, c.v)
      back == [f EXCEPT !.labels = Front(@)]
  IN  CASE c.cmd = "push"   -> same(PushV(rt, c.v))
        [] c.cmd = "if"     -> IF valueToBool(TopV(rt)) THEN same(RunCode(rt, blk, c.v)) ELSE same(rt)
        [] c.cmd = "else"   -> IF valueToBool(TopV(rt)) THEN same(rt) ELSE same(RunCode(rt, blk, c.v))
        [] c.cmd = "while"  ->
             IF ~valueToBool(TopV(rt)) THEN same(Drop(rt, 1))
             ELSE CASE run.status = "continue" ->
                         [rt |-> [run EXCEPT !.status = "normal"],
                          f |-> [back EXCEPT !.ci = Last(f.labels) - 1]]
                    [] run.status = "break" -> [rt |-> [run EXCEPT !.status = "normal"], f |-> back]
                    [] OTHER -> [rt |-> run, f |-> back]
        [] c.cmd = "label"  -> [rt |-> rt, f |-> [f EXCEPT !.labels = Append(@, f.ci)]]
        [] c.cmd \in {"continue", "break", "return"} -> same([rt EXCEPT !.status = c.cmd])
        [] c.cmd = "assignvar" -> [rt |-> rt, f |-> [f EXCEPT !.assign = c.v]]
        [] c.cmd = "assign" -> same(AssignFrom(rt, blk, f.assign, 1))
        [] c.cmd = "error"  -> same(Stop(rt, c.v))
        [] c.cmd \in {"call", "callvari"} ->
             same(callFunc([rt EXCEPT !.cost = @ - CostCall], blk, c.cmd, c.v))
        [] c.cmd = "var"    -> IF place = 0 THEN same(Stop(rt, "wrong var"))
                               ELSE same(PushV(rt, rt.vars[place]))
        [] c.cmd = "extend" -> IF c.v \notin DOMAIN rt.ext THEN same(Stop(rt, "unknown extend identifier"))
                               ELSE same(PushV([rt EXCEPT !.cost = @ - CostExtend], rt.ext[c.v]))
        [] c.cmd = "unwrap" -> same([rt EXCEPT !.unwrap = @ \/ TopV(rt)[1] = "array"])
        [] c.cmd = "init"   -> same(PushV(rt, getResultValue(rt, c.v)))
        [] c.cmd \in {"not", "sign"} ->
             LET v == UnaryOp(c.cmd, TopV(rt))
             IN  IF v = Fault THEN same(Stop(rt, "fault")) ELSE same(PushV(Drop(rt, 1), v))
        [] IsBinary(c.cmd) ->
             LET v == Binary(c.cmd, rt.stack[n - 1], rt.stack[n])
             IN  IF v = Fault THEN same(Stop(rt, "fault")) ELSE same(PushV(Drop(rt, 2), v))

Operands(cmd) == CASE IsBinary(cmd) -> 2 [] cmd \in {"not", "sign"} -> 1 [] OTHER -> 0

\* One command of a block, at the cost of one; x is the state and the frame.
Command(x, blk) ==
  LET rt == [x.rt EXCEPT !.cost = @ - 1]
      c == blk[x.f.b].code[x.f.ci]
      step == Exec(rt, blk, x.f, c)
  IN  IF rt.cost <= 0 THEN [x EXCEPT !.rt = OutOfCost(rt)]
      ELSE IF Len(rt.stack) < Operands(c.cmd) THEN [x EXCEPT !.rt = Stop(rt, "stack is empty")]
      ELSE [step EXCEPT !.f.ci = @ + 1]

\* 2^k commands, or as many as run before the end, a status or an error.
Commands(x, blk, k) ==
  IF x.f.ci > Len(blk[x.f.b].code) \/ x.rt.err # "" \/ x.rt.status # "normal" THEN x
  ELSE IF k = 0 THEN Command(x, blk)
  ELSE Commands(Commands(x, blk, k - 1), blk, k - 1)

\* The first variables of a function are its parameters.
NewVars(rt, block) ==
  [i \in DOMAIN block.vars |->
     IF block.type = "func" /\ i <= Len(block.params)
     THEN rt.stack[Len(rt.stack) - Len(block.params) + i] ELSE Zero(block.vars[i])]

\* A function that returns leaves its results in place of its parameters; any
\* other end of a block leaves the stack as it was.
Leave(rt, block, start) ==
  LET n == Len(rt.stack)
      r == Len(block.results)
  IN  CASE rt.err # "" -> rt
        [] rt.err = "" /\ rt.status = "return" /\ block.type = "func" ->
             IF n < r THEN Stop(rt, "panic")
             ELSE [rt EXCEPT !.stack = SubSeq(@, 1, start) \o SubSeq(@, n - r + 1, n), !.status = "normal"]
        [] rt.err = "" /\ rt.status = "return" /\ block.type # "func" -> rt
        [] OTHER -> [rt EXCEPT !.stack = SubSeq(@, 1, start)]

RunCode(rt0, blk, b) ==
  LET block == blk[b]
      start == Len(rt0.stack) - (IF block.type = "func" THEN Len(block.params) ELSE 0)
      rt == [rt0 EXCEPT !.blocks = Append(@, [block |-> b, offset |-> Len(rt0.vars)]),
                        !.vars = @ \o NewVars(rt0, block), !.cost = @ - Len(block.vars)]
      done == Commands([rt |-> rt, f |-> [b |-> b, ci |-> 1, labels |-> <<>>, assign |-> <<>>]], blk, 12).rt
      closed == [done EXCEPT !.blocks = SubSeq(@, 1, Len(rt0.blocks))]
  IN  Leave(closed, block, start)

\* Run: the results of a function, or the error.
Results(rt, r) ==
  LET n == Len(rt.stack)
  IN  IF rt.err # "" THEN [rt |-> rt, ret |-> <<>>]
      ELSE IF n < r THEN [rt |-> Stop(rt, "runtime panic error"), ret |-> <<>>]
      ELSE [rt |-> rt, ret |-> SubSeq(rt.stack, n - r + 1, n)]

Run(rt, blk, b) == Results(RunCode(rt, blk, b), Len(blk[b].results))

-----------------------------------------------------------------------------
(***************************************************************************)
(* A contract called by a contract.  The names of its parameters, joined   *)
(* by commas in the code, are one name here, empty when there is none.     *)
(***************************************************************************)

\* The parameters that the call does not give: only optional ones, with the
\* value of their type.
Missing(tx, name) == {i \in DOMAIN tx : tx[i].name # name}
Defaults(ext, tx, name) ==
  LET missing == {tx[i].name : i \in Missing(tx, name)}
      type(x) == tx[CHOOSE i \in DOMAIN tx : tx[i].name = x].type
  IN  [k \in DOMAIN ext \cup missing |-> IF k \in missing THEN Zero(type(k)) ELSE ext[k]]

\* The contract whose function is the innermost open one.
Caller(rt, blk) ==
  LET inContract(d) == LET b == blk[rt.blocks[d].block]
                       IN  b.type = "func" /\ b.parent # 0 /\ blk[b.parent].type = "contract"
      open == {d \in DOMAIN rt.blocks : inContract(d)}
      d == CHOOSE m \in open : \A n \in open : n <= m
  IN  IF open = {} THEN "" ELSE blk[blk[rt.blocks[d].block].parent].name

SysPart(ext) == [k \in DOMAIN ext \cap sysVars |-> ext[k]]

\* conditions or action, if the contract has it, in a run of its own with the
\* cost that is left.
Ran(rt, done) ==
  [rt EXCEPT !.cost = done.cost, !.ext = done.ext, !.writes = done.writes, !.err = done.err]

RunMethod(rt, blk, contract, method, parent) ==
  LET fresh == [RunInit(rt.cost, Put(rt.ext, "parent", Str(parent)))
                  EXCEPT !.loops = rt.loops, !.writes = rt.writes]
  IN  IF rt.err # "" \/ method \notin DOMAIN blk[contract].objects THEN rt
      ELSE Ran(rt, Run(fresh, blk, blk[contract].objects[method].value).rt)

\* The $variables of the caller are put away and come back afterwards.
Restored(called, rt0) ==
  LET ext == [k \in (DOMAIN called.ext \cap sysVars) \cup (DOMAIN rt0.ext \ sysVars) |->
                IF k \in sysVars
                THEN IF k \in {"parent", "this_contract"} /\ k \in DOMAIN rt0.ext THEN rt0.ext[k]
                     ELSE called.ext[k]
                ELSE rt0.ext[k]]
      result == IF "result" \in DOMAIN called.ext THEN called.ext["result"] ELSE Nil
  IN  PushV([called EXCEPT !.ext = ext, !.loops = rt0.loops], result)

ExecContract(rt0, blk, name, par, params) ==
  LET contract == blk[1].objects[name].value
      tx == blk[contract].tx
      ext == Put(Defaults(SysPart(rt0.ext), tx, par), par, params[1])
      parent == Caller(rt0, blk)
      rt == [rt0 EXCEPT !.ext = Put(ext, "this_contract", Str(name)), !.loops = @ \cup {name},
                        !.cost = @ - CostContract]
      called == RunMethod(RunMethod(rt, blk, contract, "conditions", parent),
                          blk, contract, "action", parent)
  IN  CASE name \notin DOMAIN blk[1].objects -> Stop(rt0, "unknown contract")
        [] name \in DOMAIN blk[1].objects /\ Len(params) # 1 -> Stop(rt0, "wrong contract parameters")
        [] name \in DOMAIN blk[1].objects /\ Len(params) = 1 ->
             IF name \in rt0.loops THEN Stop(rt0, "there is loop in contract")
             ELSE IF \E i \in Missing(tx, par) : tx[i].tag # "optional" THEN Stop(rt0, "is not defined")
             ELSE IF called.err # "" THEN called ELSE Restored(called, rt0)
=============================================================================
