------------------------------ MODULE MCScript ------------------------------
(* Programs small enough to list and large enough to nest. *)
EXTENDS Script

Lit(v) == [e |-> "lit", v |-> v]
One == Lit(Num(1))
Bin(o, a, b) == [e |-> "bin", o |-> o, a |-> a, b |-> b]
Un(o, a) == [e |-> "un", o |-> o, a |-> a]
VarX == [e |-> "var", x |-> "x"]
VarY == [e |-> "var", x |-> "y"]
Ext(x) == [e |-> "ext", x |-> x]
Call(f, a) == [e |-> "call", f |-> f, a |-> a]
CallB1(par, a) == [e |-> "exec", par |-> par, a |-> a]

Set(x, a) == [s |-> "set", x |-> x, a |-> a]
SetExt(x, a) == [s |-> "setext", x |-> x, a |-> a]
Do(a) == [s |-> "do", a |-> a]
Ret(a) == [s |-> "return", a |-> a]
Jump(j) == [s |-> j]
If(c, body, other) == [s |-> "if", arms |-> <<[c |-> c, body |-> body]>>, other |-> other]
Elif(c, body, d, body2, other) ==
  [s |-> "if", arms |-> <<[c |-> c, body |-> body], [c |-> d, body |-> body2]>>, other |-> other]
Loop1(c, body) == [s |-> "while", c |-> c, body |-> body]
VarInt(x) == [s |-> "var", x |-> x]

Empty == [data |-> <<>>, conditions |-> <<>>, action |-> <<>>]
Program(f, B, A) == [f |-> f, B |-> B, A |-> A]
Identity == <<Ret(VarX)>>
Result(e) == [Empty EXCEPT !.action = <<SetExt("result", e)>>]

\* Expressions of up to three operators.
Atoms == {One, Lit(Num(2)), Lit(Str("2")), Ext("key_id")}
Flat == Atoms \cup {Bin(o, a, One) : o \in {"-", "*", "<", "&&"}, a \in Atoms}
              \cup {Un(o, Lit(Num(2))) : o \in {"-", "!"}}
Deep == {Bin(o, a, b) : o \in {"||", "==", "-", "*", "/"}, a, b \in Flat}
Signs == {Bin("&&", Un("!", Un("-", One)), One), Un("!", Un("-", One)), Un("-", Un("-", One)),
          Call("f", Bin("-", One, Un("-", One))), Bin("*", Call("f", One), Bin("+", One, One)),
          Bin("+", Lit(Str("2")), Lit(Str("1"))), Bin("==", Lit(Nil), Lit(Nil)), Call("f", Lit(Str("2")))}
Literals == {[e |-> "list", items |-> i] : i \in {<<>>, <<One, Ext("key_id")>>}}
Nested1 == {[e |-> "pairs", items |-> <<[key |-> "k", item |-> i], [key |-> "l", item |-> j]>>] :
              i \in Literals, j \in {One, Lit(Str("2"))}}
ExprPrograms == {Program(Identity, Empty, Result(e)) : e \in Deep \cup Signs \cup Literals \cup Nested1}

\* Statements of f.
Inc(x) == Set(x, Bin("+", [e |-> "var", x |-> x], One))
Less(v, n) == Bin("<", v, Lit(Num(n)))
Conds == {Less(VarX, 2), Less(VarY, 1)}
Leaves == {<<Inc("y")>>, <<Ret(Lit(Num(9)))>>}
Jumps == {<<Inc("x"), Jump("break")>>, <<Inc("y"), Jump("continue")>>, <<Jump("break")>>, <<Inc("x")>>} \cup Leaves
Branches(bodies) ==
  {If(c, b, d) : c \in Conds, b, d \in bodies}
  \cup {Elif(Less(VarX, 1), b, Less(VarX, 2), d, o) : b, d \in bodies, o \in {<<>>, <<Inc("y")>>}}
  \cup {[s |-> "if", arms |-> [i \in 1..3 |-> [c |-> Less(VarX, i), body |-> <<Set("y", Lit(Num(i)))>>]],
          other |-> o] : o \in bodies}
  \cup {If(Less(VarX, 2), <<If(Less(VarY, 1), b, <<>>)>>, d) : b, d \in bodies}
Shadow == [s |-> "if", arms |-> <<[c |-> Less(VarX, 5),
             body |-> <<Inc("y"), VarInt("y"), Inc("y"), Set("x", VarY)>>]>>, other |-> <<>>]
Loops == {Loop1(Less(VarX, 3), <<b, Inc("x")>>) : b \in Branches(Jumps)}
         \cup {Loop1(Less(VarX, 3), <<Inc("x"), Loop1(Less(VarY, 2), <<b, Inc("y")>>)>>) :
                 b \in {If(c, j, <<>>) : c \in Conds, j \in Jumps}}
Frame(body) == <<VarInt("y")>> \o body \o <<Ret(Bin("+", Bin("*", VarX, Lit(Num(10))), VarY))>>
Statements == {<<b, Inc("y")>> : b \in Branches(Leaves) \cup Loops} \cup {<<Shadow>>}
StatementPrograms == {Program(Frame(b), Empty, Result(Call("f", Lit(Num(n))))) : b \in Statements, n \in {0, 1}}

\* Contracts that call each other.
Line(names, type, tag) == [names |-> names, type |-> type, tag |-> tag]
Datas == {<<>>, <<Line(<<"p">>, "int", "")>>, <<Line(<<"p", "q">>, "int", "optional")>>,
          <<Line(<<"p">>, "int", "optional"), Line(<<"q">>, "string", "optional")>>}
ActionsB == {<<SetExt("result", Bin("+", Ext("p"), One)), SetExt("w", One)>>,
             <<SetExt("result", Ext("w"))>>,
             <<SetExt("result", Ext("parent"))>>,
             <<Do(Call("Write", One)), SetExt("result", Ext("q"))>>,
             <<[s |-> "error", a |-> One]>>}
CondsB == {<<>>, <<Do(Call("Read", One))>>}
CondsA == {<<>>, <<Do(Call("Read", One))>>, <<Do(Call("f", One))>>, <<Do(CallB1("", One))>>,
           <<SetExt("z", CallB1("p", One))>>, <<If(Less(One, 0), <<Do(Call("Write", One))>>, <<>>)>>}
CallsB == {CallB1("p", Lit(Num(2))), CallB1("", One)}
ContractPrograms ==
  {Program(f, [data |-> d, conditions |-> cb, action |-> b],
           [data |-> d, conditions |-> ca,
            action |-> <<SetExt("w", Lit(Num(5))), SetExt("v", c), SetExt("result", Ext("w"))>>]) :
     f \in {Identity, <<Do(Call("Write", VarX)), Ret(VarX)>>}, d \in Datas, cb \in CondsB, b \in ActionsB,
     ca \in CondsA, c \in CallsB}

\* Programs that set variables of the system, and one that does not.
SetsOf(x) ==
  LET set == <<SetExt(x, One)>>
  IN  {Program(Identity, [Empty EXCEPT !.action = b], [Empty EXCEPT !.conditions = c, !.action = a]) :
         b, c \in {<<>>, set}, a \in {set, <<If(Less(One, 0), set, <<>>)>>, <<Loop1(Less(One, 0), set)>>}}
SystemPrograms == UNION {SetsOf(x) : x \in {"key_id", "parent", "guest_key", "w"}}

AllPrograms == ExprPrograms \cup StatementPrograms \cup ContractPrograms \cup SystemPrograms
=============================================================================
