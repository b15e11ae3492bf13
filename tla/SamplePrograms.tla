------------------------------- MODULE SamplePrograms -------------------------------
(***************************************************************************)
(* Programs: every small body of a few shapes, a few programs of several   *)
(* handlers, functions, states and advices, and samples of the tests.      *)
(***************************************************************************)
EXTENDS SyntaxTree

(* The programs. One handler: exhaustively, small statements under every   *)
(* construct that jumps.                                                   *)
int == newTypes(FALSE, "_Integer")
N(n) == newInteger(n)
V(x) == newGetVar(x)
Minus(n) == newUnyop("NEG", N(n))
Op(f, l, r) == newBinop(f, l, r)
Set(x, e) == newSetVar(NoTypes, x, e)
Let(x, e) == newSetVar(int, x, e)
B(ss) == newBlock(ss)
P(e) == newPrint(<<e>>)
Call(f) == newCall(<<>>, f)
Stop == newCall(<<N(0)>>, "stop")
On(id, ss) == newEvent(id, <<>>, B(ss))
(* if takes no comparison: its condition is compiled without a type.       *)
When(t, s, e) == <<Let("b", t), newIf(V("b"), s, e)>>
Inc(x) == Set(x, Op("ADD", V(x), N(1)))

Leaves == {newBreak, newContinue, P(V("x")), Set("g", Op("SUB", V("x"), V("g")))}
Tests == {Op("LT", V("x"), N(1)), Op("EQ", V("g"), N(0))}
Branches == {When(t, B(<<a>>), e) : t \in Tests, a \in Leaves, e \in {mkNil, B(<<Inc("g")>>)}}
Counting(s) == <<newFor(Let("x", N(0)), Op("LE", V("x"), N(1)), Inc("x"), B(s \o <<P(V("g"))>>))>>
CountedBy(s) == <<Let("x", N(0)),
                  newWhile(Op("LT", V("x"), N(2)), B(<<Inc("x")>> \o s)),
                  P(V("x"))>>
Nested(s) == <<newFor(Let("x", N(0)), Op("LT", V("x"), N(2)), Inc("x"),
               B(<<newFor(Let("y", N(0)), mkNil, Inc("y"),
                     B(s \o <<newWhile(Op("GT", V("y"), V("x")), newBreak)>> \o <<newIf(V("y"), newBreak, mkNil)>>)),
                   Inc("g")>>))>>
One(body) == <<newSetVarG(int, "g", N(1)), newState("s", <<On("loop", body)>>)>>
LoopPrograms ==
  {One(Counting(s)) : s \in Branches} \cup {One(CountedBy(s)) : s \in Branches}
    \cup {One(Nested(s)) : s \in Branches}

(* Expressions, and variables of all three kinds in blocks of their own.   *)
Operands == {V("g"), V("x"), N(3)}
Expressions ==
  {Op(f, l, Op("SUB", r, V("c"))) : f \in binop, l \in Operands, r \in Operands}
    \cup {Op("LSH", Op(f, V("x"), V("c")), N(1)) : f \in binop}
ExpressionProgram(e) ==
  <<newSetVarG(int, "g", N(2)),
    newState("s", <<newSetVarL(int, "c", V("g")),
      On("loop", <<Set("c", Op("ADD", V("g"), N(1))), newIf(V("c"), B(<<Let("z", V("c")), Inc("g")>>), mkNil),
                   Let("x", newUnyop("NEG", V("c"))), Set("c", e), P(V("c"))>>)>>)>>

(* Several handlers, functions, transitions, aspects.                      *)
one == newFunction(int, "one", <<>>,
         B(<<Let("n", Op("LT", V("g"), N(0))), newIf(V("n"), B(<<Let("r", N(2)), newReturn(V("r"))>>),
                   B(<<Inc("g"), newReturn(Op("ADD", Call("two"), Minus(1)))>>))>>))
(* A function must end in an if both of whose branches return: one that    *)
(* ends in its return is refused, and what falls off the end of an if goes *)
(* on in the code behind it.                                               *)
Either(t, l, r) == newIf(t, B(<<newReturn(l)>>), B(<<newReturn(r)>>))
two == newFunction(int, "two", <<>>, Either(N(1), N(2), N(0)))
Shared2 ==
  {<<newSetVarG(int, "g", N(0)), two, one,
     newState("s", <<newSetVarL(int, "c", N(0)),
       On("loop", <<Set("c", N(1)), a>>), On("loop", <<Set("c", N(2)), b>>)>>)>> :
     a \in {Set("g", Op("ADD", V("g"), V("c"))), Set("g", Op("ADD", V("g"), Call("one")))},
     b \in {Set("g", Op("SUB", V("g"), N(1))),
            newWhile(N(1), B(<<Set("g", Op("MUL", V("g"), V("c")))>>)),
            newWhile(N(1), B(When(Op("EQ", V("g"), N(3)), newBreak, mkNil)))}}
Logs == {newTransAspect("*", "*", B(<<P(N(1))>>)), newTransAspect("*", "t", B(<<Let("k", N(2)), P(V("k"))>>)),
         newTransAspect("s", "*", B(<<P(N(3))>>)), newTransAspect("s", "t", B(<<Inc("g")>>)),
         newTransAspect("*", "t", B(<<newRun("s")>>))}
Travelling ==
  {<<newSetVarG(int, "g", N(0)), log,
     newState("s", <<On("entry", <<Inc("g")>>),
                     On("loop", <<Inc("g")>> \o When(Op("GT", V("g"), N(1)), B(<<newRun("t")>>), mkNil))>>),
     newState("t", <<On("entry", When(Op("EQ", V("g"), N(2)), newRun("s"), mkNil)),
                     On("loop", <<P(V("g")), Set("g", Minus(1)), newRun("s")>>),
                     On("loop", <<newCall(<<V("g")>>, "output"), Stop>>)>>)>> : log \in Logs}
Output(e) == newCall(<<e>>, "output")
Ending ==
  {One(<<Inc("g"), Output(V("g")), newWhile(Op("LT", V("g"), N(3)), B(<<Inc("g"), s>>)), P(V("g"))>>) :
     s \in {Stop, newRun("s"), Output(V("g"))}}
Entered ==
  {<<newSetVarG(int, "g", N(1)), two, newAdvice("log", B(<<Output(V("g"))>>)),
     newPointcut("log", <<newJointp("AROUND", "s"), newJointp("BEFORE", "t")>>),
     newState("s", <<On("entry", <<Let("x", Call("two")), Output(V("x")), newRun("t")>>)>>),
     newState("t", <<On("entry", <<Set("g", Op("ADD", V("g"), Call("two"))), e>>),
                     On("loop", <<newRun("s")>>)>>)>> : e \in {Output(V("g")), Stop}}
(* A function that returns out of its loops, with variables of its own.    *)
Seeking ==
  {<<newSetVarG(int, "g", N(0)),
     newFunction(int, "seek", <<>>,
       B(<<newFor(Let("i", N(0)), Op("LE", V("i"), V("g")), Inc("i"),
             B(<<newWhile(Op("LT", V("i"), N(2)), B(<<s, Inc("i")>>)),
                 Let("r", Op("MUL", V("i"), V("g"))), newIf(V("r"), newReturn(V("r")), mkNil)>>)),
           Either(V("g"), Minus(2), N(1))>>)),
     newState("s", <<On("loop", <<Let("x", Op("SUB", Call("seek"), Op("MUL", N(3), Call("seek")))),
                                  P(V("x")), Set("g", Op("ADD", V("g"), N(1)))>>)>>)>> :
     s \in {P(V("i")), newBreak, newReturn(V("i")), newReturn(Op("ADD", V("g"), N(1)))}}
Stateless == {<<newSetVarG(int, "g", N(1))>>}
Programs_ == LoopPrograms \cup {ExpressionProgram(e) : e \in Expressions}
              \cup Shared2 \cup Travelling \cup Ending \cup Seeking \cup Entered \cup Stateless

(* test/while-test.txt, for-test.txt, if-number-test.txt, if-ineq-test.txt *)
Sample(id, body) == <<newState(id, <<On("entry", body \o <<newCall(<<N(1)>>, "stop")>>)>>)>>
Samples ==
  {Sample("s1", <<Let("a", N(0)), newWhile(Op("LT", V("a"), N(10)), B(<<P(V("a")), Inc("a")>>))>>),
   Sample("s1", <<newFor(Let("i", N(0)), Op("LT", V("i"), N(10)), Inc("i"), B(<<P(V("i"))>>))>>),
   Sample("s1", <<newIf(N(1), B(<<P(N(1))>>), mkNil), newIf(N(0), B(<<P(N(0))>>), mkNil)>>),
   Sample("s1", <<newIf(Op("LT", N(1), N(10)), B(<<P(N(10))>>), mkNil),
                  newIf(Op("LT", N(10), N(1)), B(<<P(N(11))>>), mkNil)>>)}
==============================================================================
