------------------------------ MODULE MCReading ------------------------------
(***************************************************************************)
(* Programs to write and to read back: some of each kind of the machine's  *)
(* programs, and all there is in the language.                             *)
(***************************************************************************)
EXTENDS Reading, SamplePrograms

Identifiers == {"s", "t", "x", "y", "z", "g", "c", "b", "k", "n", "r", "i", "a", "d", "one", "two", "seek",
                "log", "output", "stop", "loop", "entry", "timerSec", "erval", "tick", "Hello"}
Words_ == Keywords \cup Identifiers
Split_ == ("interval" :> <<"int", "erval">>) @@ ("forx" :> <<"for", "x">>) @@ ("1.5" :> <<"1", ".", "5">>)
            @@ (".5" :> <<".", "5">>) @@ ("2e-1" :> <<"2", "e", "-", "1">>)
            @@ ("Hello ;" :> <<"Hello", " ", ";">>) @@ ("x1" :> <<"x", "1">>) @@ ("s1" :> <<"s", "1">>) @@ ("" :> << >>)
EventFuncs_ == {"loop", "timerSec"}

(* Every operator with one of each level, either way round.                *)
OfEachLevel == <<"OR", "AND", "BOR", "BAND", "NE", "LE", "LSH", "SUB", "DIV">>
PairsOf(f) ==
  [i \in DOMAIN OfEachLevel |-> Op(f, Op(OfEachLevel[i], V("x"), V("y")), V("z"))]
    \o [i \in DOMAIN OfEachLevel |-> Op(f, V("x"), Op(OfEachLevel[i], V("y"), N(12)))]
Operands_ ==
  << newUnyop("BINC", V("x")), newUnyop("BDEC", V("x")), newUnyop("AINC", V("x")), newUnyop("ADEC", V("x")),
     newUnyop("NEG", Op("SUB", V("x"), Minus(1))), newFloat("1.5"), newFloat(".5"), newFloat("2e-1"),
     newString("Hello ;"), newString(""), V("interval"), V("forx"), V("x1"),
     newCall(<<Op("SUB", V("x"), V("y")), newCall(<<V("z")>>, "two")>>, "one"),
     newGetElement("a", newGetElement("b", V("c"))), newGetElement("a", newCall(<<N(10)>>, "one")) >>
Calculating(es) == One([i \in DOMAIN es |-> Set("x", es[i])])

Types == {newTypes(count, type) :
            count \in BOOLEAN, type \in {"_Integer", "_Long", "_Double", "_Float", "_Char", "String", "Key"}}
Declaring(t) ==
  <<newSetVarG(t, "g", N(1)), newSetType("a", <<newParam(t, "x"), newParam(int, "y")>>),
    newFunction(t, "one", <<newParam(t, "x"), newParam(int, "y")>>, newReturn(V("x"))),
    newState("s", <<newSetVarL(t, "c", N(0)),
      newEvent("timerSec", <<newEventParam(t, "k", Op("LT", V("c"), N(3))), newEventParam(t, "n", mkNil)>>,
               B(<<newSetVar(t, "x", N(2)),
                   newSetArray(t, "a", N(2), B(<<N(0), Op("ADD", V("x"), N(1))>>)),
                   newSetArray(NoTypes, "a", V("x"), newCall(<<>>, "one"))>>))>>),
    newRun(V("s"))>>

(* Events by other names, in an order of each state's own.                 *)
Timed(id, body) == newEvent(id, <<newEventParam(int, "k", Op("GE", V("k"), N(1)))>>, B(body))
Setting(id) == newEventCall(<<N(1)>>, id)
Naming(ids) ==
  <<newSetVarEvent("tick", newEvent("timerSec", <<newEventParam(int, "k", N(0))>>, B(<<P(V("k"))>>))),
    newState("t", <<On("loop", <<Stop>>)>>),
    newState("s",
      <<newSetVarL(int, "c", N(0)), newSetVarEvent("d", newEvent("timerSec", <<>>, mkNil)),
        On("entry", <<Setting("tick"), Setting("d"), newRun("t")>>)>>
        \o [i \in DOMAIN ids |-> IF ids[i] = "call" THEN newCall(<<>>, "tick") ELSE Timed(ids[i], <<P(N(i))>>)])>>
Orders == {<<"loop", "tick", "d">>, <<"d", "timerSec", "loop">>, <<"timerSec", "d", "loop", "d", "loop">>,
           <<"tick", "loop", "call", "tick">>, <<"call", "d", "timerSec">>}

(* Three names for three places, in the order of their definitions, in that*)
(* of the handlers, or in two states; four are too many.                   *)
Alias(id, f) == newSetVarEvent(id, newEvent(f, <<>>, mkNil))
Local(id) == Alias(id, "timerSec")
Aliases(ids) == [i \in DOMAIN ids |-> Alias(ids[i], "timerSec")]
Handling(ids) == newState("s", [i \in DOMAIN ids |-> On(ids[i], <<P(N(i))>>)])
Filling ==
  { Aliases(<<"tick", "d", "x">>) \o <<Handling(<<"x", "x", "tick">>)>>,
    Aliases(<<"tick", "d", "tick">>) \o <<Handling(<<"loop", "d">>)>>,
    <<Handling(<<"loop", "timerSec">>)>> \o Aliases(<<"d">>) \o <<Handling(<<"d", "loop", "timerSec">>)>>,
    <<Handling(<<"loop">>), newState("t", <<Local("d"), Local("x"), Local("y"), On("d", <<Stop>>), On("timerSec", <<Stop>>)>>)>> }
TooMany ==
  { Aliases(<<"tick", "d", "x", "y">>),
    Aliases(<<"tick", "d">>) \o <<Handling(<<"loop", "timerSec">>)>>,
    Aliases(<<"tick", "d", "x">>) \o <<Handling(<<"tick">>), Handling(<<"x", "loop">>)>>,
    <<Handling(<<"loop", "timerSec">>)>> \o Aliases(<<"tick", "d">>),
    <<Handling(<<"loop", "timerSec">>), Alias("d", "loop"), newState("t", <<Local("x"), On("x", <<Stop>>)>>), Alias("x", "loop")>> }

(* A library's event defined anew is an event, no event function any more, *)
(* and may be called without init.                                         *)
Anew == Alias("loop", "timerSec")
Evaluating(e) == newState("s", <<On("timerSec", <<Let("k", e)>>)>>)
CallOf(f) == newCall(<<N(1)>>, f)
Renaming ==
  { <<Alias("tick", "loop"), Anew, Evaluating(CallOf("loop"))>>,
    <<Alias("loop", "loop"), newState("s", <<On("entry", <<Setting("loop"), Setting("timerSec")>>), newCall(<<>>, "loop")>>)>>,
    <<Alias("tick", "timerSec"), Evaluating(CallOf("tick")), newSetVarG(int, "g", CallOf("tick"))>> }
NoEventFunc ==
  { <<Anew, Alias("tick", "loop")>>, <<Alias("tick", "timerSec"), Alias("d", "tick")>>, <<Alias("d", "one")>>,
    <<Anew, newState("s", <<Alias("d", "loop"), On("d", <<Stop>>)>>)>>,
    <<newState("s", <<Local("d"), Alias("x", "d"), On("loop", <<Stop>>)>>)>>,
    <<newState("s", <<newSetVarEvent("d", newEvent("timerSec", <<newEventParam(int, "k", N(0))>>, B(<<Stop>>)))>>)>> }
WithoutInit ==
  { <<Evaluating(CallOf("loop")), Anew>>, <<newSetVarG(int, "g", Op("ADD", N(1), CallOf("timerSec")))>>,
    <<newState("s", <<On("entry", <<newCall(<<>>, "loop")>>)>>)>>,
    <<newState("s", <<newEvent("timerSec", <<newEventParam(int, "k", CallOf("loop"))>>, B(<<Stop>>))>>)>>,
    <<newFunction(int, "one", <<>>, B(<<newReturn(CallOf("one")), newIf(V("x"), P(CallOf("timerSec")), mkNil)>>))>> }
NoEvent ==
  { <<Handling(<<"tick">>)>>, <<Handling(<<"tick">>)>> \o Aliases(<<"tick">>),
    <<newState("s", <<On("d", <<Stop>>), Local("d")>>)>>,
    <<newState("s", <<Local("d"), On("d", <<Stop>>)>>), newState("t", <<On("d", <<Stop>>)>>)>>,
    <<newState("s", <<On("entry", <<Setting("d")>>), Local("d"), On("d", <<Stop>>)>>)>>,
    <<newState("s", <<Local("d"), newCall(<<>>, "d")>>)>>, <<newState("s", <<newCall(<<>>, "loop")>>)>> }
MCForbidden == TooMany \cup NoEventFunc \cup WithoutInit \cup NoEvent

(* Statements within statements.                                           *)
Else == {newIf(V("b"), s, e) : s \in {newBreak, B(<<Inc("x")>>), newReturn(Minus(1))},
                               e \in {mkNil, newContinue, newIf(V("c"), newRun("s"), newIf(V("x"), P(N(1)), newBreak))}}
Loops(s) == <<newFor(mkNil, mkNil, mkNil, B(<<s>>)), newWhile(V("x"), newFor(Inc("x"), V("x"), newCall(<<>>, "one"), s))>>

MCPrograms ==
  {Calculating(PairsOf(f)) : f \in binop} \cup {Calculating(Operands_)} \cup {Declaring(t) : t \in Types}
    \cup {Naming(ids) : ids \in Orders} \cup Filling \cup Renaming \cup {One(Loops(s)) : s \in Else}
    \cup Shared2 \cup Travelling \cup Ending \cup Seeking \cup Entered \cup Stateless \cup Samples

MCDamaged ==
  {<<newState("s", <<On("loop", <<newIf(Op("LT", V("x"), N(1)), Inc("x"), P(newUnyop("NEG", V("x"))))>>)>>)>>,
   <<newSetVarG(newTypes(TRUE, "_Integer"), "g", newString("Hello ;")),
     newFunction(int, "one", <<newParam(int, "x")>>,
                 B(<<newFor(mkNil, mkNil, Inc("x"), newBreak), newReturn(Op("EQ", V("x"), V("y")))>>)),
     newRun(V("s"))>>,
   <<newTransAspect("*", "s", B(<<newCall(<<N(1), V("x")>>, "output")>>)),
     newPointcut("log", <<newJointp("AROUND", "s")>>), newAdvice("log", B(<<newRun("s")>>))>>,
   <<newSetType("a", <<newParam(int, "x")>>),
     newState("s", <<newSetVarEvent("d", newEvent("timerSec", <<>>, mkNil)), On("entry", <<Setting("d")>>),
                     Timed("d", <<Inc("x")>>), On("loop", <<Stop>>)>>)>>}
==============================================================================
