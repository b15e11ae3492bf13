------------------------------- MODULE Parser -------------------------------
(***************************************************************************)
(* How the compiler reads a program (compiler.c, compiler/parser/parser.c  *)
(* and compiler/preprocess.c): definition by definition it matches the     *)
(* rule `start', does the actions the match collected, and preprocesses    *)
(* the tree they built.                                                    *)
(***************************************************************************)
EXTENDS Grammar, SyntaxTree, SequencesExt

CONSTANTS EventFuncs,      \* the names of the library's event functions
          EVENT_TABLE_SIZE \* 32 in the code

------------------------------------------------------------------------------
(* What the actions do.  A variable that is nil is the empty sequence.     *)
It(x) == x[1]
OrNil(x) == IF x = << >> THEN mkNil ELSE x[1]
List(x) == IF x = << >> THEN << >> ELSE x[1]
TypesOf(x) == IF x = << >> THEN NoTypes ELSE x[1]

RECURSIVE Spelled(_)
Spelled(chunks) ==
  IF chunks = << >> THEN "" ELSE Head(chunks) \o Spelled(Tail(chunks))
ValueOf == ("0" :> 0) @@ ("1" :> 1) @@ ("2" :> 2) @@ ("3" :> 3) @@ ("4" :> 4) @@
           ("5" :> 5) @@ ("6" :> 6) @@ ("7" :> 7) @@ ("8" :> 8) @@ ("9" :> 9)
RECURSIVE Decimal(_)
Decimal(ds) == IF ds = << >> THEN 0 ELSE 10 * Decimal(Front(ds)) + ValueOf[Last(ds)]

tokenAction(a, yytext) ==
  CASE a = "intern" -> Spelled(yytext)
    [] a = "newInteger" -> newInteger(Decimal(yytext))
    [] a = "newFloat" -> newFloat(Spelled(yytext))
    [] a = "newString" -> newString(Spelled(yytext))
    [] a = "newStrChar" -> newStrChar(Spelled(yytext))

mkAction(a) ==
  CASE a \in {"nil", "fatal"} -> << >>
    [] a = "zero" -> <<FALSE>>
    [] a = "one" -> <<TRUE>>
    [] a \in {"newBlock", "newState"} -> << << >> >>

\* Lists are consed, blocks and states appended to.
\* `block' ends with a Block of the statements appended to b.
listAction(a, v) ==
  CASE a = "more args" -> Append(List(v.a), It(v.i))
    [] a = "args" -> List(v.a)
    [] a = "newParam" -> Append(List(v.p), newParam(It(v.t), It(v.i)))
    [] a = "newEventParam" -> Append(List(v.p), newEventParam(It(v.t), It(v.i), OrNil(v.c)))
    [] a = "newPair" -> Append(List(v.p), It(v.j))
    [] a = "p" -> List(v.p)
    [] a = "Block_append" -> Append(It(v.b), OrNil(v.s))
    [] a = "b" -> newBlock(It(v.b))
    [] a = "State_append" -> Append(It(v.s), It(v.e))
    [] a = "s" -> It(v.s)

binopAction(a, v) == IF a = "lhs" THEN It(v.lhs) ELSE newBinop(a, It(v.lhs), It(v.rhs))

unyopAction(a, v) ==
  newUnyop(a, IF a = "NEG" THEN It(v.x) ELSE newGetVar(It(v.i)))

symAction(a, v) ==
  CASE a = "lhs" -> It(v.lhs)
    [] a = "newCall" -> newCall(It(v.a), It(v.i))
    [] a = "newEventCall" -> newEventCall(It(v.a), It(v.i))
    [] a = "newGetElement" -> newGetElement(It(v.i), It(v.s))
    [] a = "newGetVar" -> newGetVar(It(v.i))

\* x op= e puts the expression first.
assignAction(a, v) ==
  CASE a = "newSetVar" -> newSetVar(TypesOf(v.t), It(v.i), It(v.x))
    [] a \in {"ADD", "SUB", "MUL", "DIV"} ->
         newSetVar(TypesOf(v.t), It(v.i), newBinop(a, It(v.x), newGetVar(It(v.i))))
    [] a = "newSetArray" -> newSetArray(TypesOf(v.t), It(v.i), It(v.b), It(v.x))

stmtAction(a, v) ==
  CASE a = "newPrint" -> newPrint(It(v.a))
    [] a = "newIf" -> newIf(It(v.c), OrNil(v.s), OrNil(v.t))
    [] a = "newWhile" -> newWhile(It(v.c), OrNil(v.s))
    [] a = "newFor" -> newFor(OrNil(v.i), OrNil(v.e), OrNil(v.u), OrNil(v.s))
    [] a = "newContinue" -> newContinue
    [] a = "newBreak" -> newBreak
    [] a = "newReturn" -> newReturn(It(v.e))
    [] a = "newRun" -> newRun(It(v.i))
    [] a = "x" -> It(v.x)
    [] a = "e" -> It(v.e)

eventAction(a, v) ==
  CASE a = "newEvent" -> newEvent(It(v.i), It(v.p), It(v.b))
    [] a = "newSetVarEvent" -> newSetVarEvent(It(v.n), newEvent(It(v.i), List(v.p), OrNil(v.b)))
    [] a = "newSetVarL" -> newSetVarL(It(v.t), It(v.i), It(v.x))
    [] a = "newCall" -> newCall(It(v.a), It(v.i))
    [] a = "e" -> It(v.e)

defineAction(a, v) ==
  CASE a = "setState" -> newState(It(v.i), It(v.s))
    [] a = "newTransAspect" ->
         newTransAspect(IF v.i = << >> THEN "*" ELSE It(v.i),
                        IF v.j = << >> THEN "*" ELSE It(v.j), It(v.b))
    [] a = "newAdvice" -> newAdvice(It(v.i), It(v.b))
    [] a = "newPointcut" -> newPointcut(It(v.i), It(v.j))
    [] a = "newSetType" -> newSetType(It(v.i), It(v.p))
    [] a = "newFunction" -> newFunction(It(v.t), It(v.i), It(v.p), OrNil(v.s))
    [] a = "newSetVarG" -> newSetVarG(It(v.t), It(v.i), It(v.x))
    [] a = "newRun" -> newRun(newGetVar(It(v.i)))
    [] a = "newEND" -> newEND

\* What an action leaves in yy, given the text < > last took.
Action(rule, a, v, yytext) ==
  CASE rule = "mk" -> mkAction(a)
    [] rule = "token" -> <<tokenAction(a, yytext)>>
    [] rule = "TYPE" -> <<newTypes(It(v.c), a)>>
    [] rule = "list" -> <<listAction(a, v)>>
    [] rule = "binop" -> <<binopAction(a, v)>>
    [] rule = "unyop" -> <<unyopAction(a, v)>>
    [] rule = "sym" -> <<symAction(a, v)>>
    [] rule = "assign" -> <<assignAction(a, v)>>
    [] rule = "stmt" -> <<stmtAction(a, v)>>
    [] rule = "event" -> <<eventAction(a, v)>>
    [] rule = "jointp" -> <<newJointp(a, It(v.i))>>
    [] rule = "define" -> <<defineAction(a, v)>>

\* A syntax error, a call of an event function of the library without init,
\* and a state's statement f() where f is no event the program has defined.
Fatal(rule, a, v, defined) ==
  \/ rule = "mk" /\ a = "fatal"
  \/ rule = "sym" /\ a = "newCall" /\ It(v.i) \in EventFuncs \ defined
  \/ rule = "event" /\ a = "newCall" /\ It(v.i) \notin defined

------------------------------------------------------------------------------
(* Matching.  A state of the parser s has the text, the position, where    *)
(* < > began and ended last, $$ and the rule's variables; what the         *)
(* actions would do it does at once, since a failed alternative            *)
(* gives it up with the rest of its state, but for begin and end.          *)
Failed(s) == [s EXCEPT !.status = "fail"]
GivenUp(s, t) == [s EXCEPT !.begin = t.begin, !.end = t.end]
Step(s, n) == [s EXCEPT !.pos = @ + n]
yymatchString(s, c) ==
  IF s.pos + Len(c) - 1 <= Len(s.text) /\ SubSeq(s.text, s.pos, s.pos + Len(c) - 1) = c
  THEN Step(s, Len(c)) ELSE Failed(s)
yymatchClass(s, c) ==
  IF s.pos <= Len(s.text) /\ s.text[s.pos] \in c THEN Step(s, 1) ELSE Failed(s)
yymatchDot(s) == IF s.pos <= Len(s.text) THEN Step(s, 1) ELSE Failed(s)
yyText(s) == SubSeq(s.text, s.begin, s.end - 1)
NoVariables == [none |-> << >>]

Done(e, s) ==
  IF Fatal(e.rule, e.do, s.vars, s.defined) THEN [s EXCEPT !.fatal = TRUE, !.yy = <<mkNil>>]
  ELSE [s EXCEPT !.yy = Action(e.rule, e.do, s.vars, yyText(s))]

RECURSIVE Match(_, _)
Match(e, s) ==
  CASE e.peg = "string" -> yymatchString(s, e.chunks)
    [] e.peg = "class" -> yymatchClass(s, e.chunks)
    [] e.peg = "dot" -> yymatchDot(s)
    [] e.peg = "then" ->
         LET t == Match(e.first, s)
         IN  IF t.status = "ok" THEN Match(e.second, t) ELSE t
    [] e.peg = "or" ->
         LET t == Match(e.first, s)
         IN  IF t.status = "fail" THEN Match(e.second, GivenUp(s, t)) ELSE t
    [] e.peg = "none" -> s
    [] e.peg = "star" ->       \* for ever, if e matches without taking anything
         LET t == Match(e.of, s)
         IN  CASE t.status = "fail" -> GivenUp(s, t)
               [] t.status = "ok" /\ t.pos = s.pos -> [t EXCEPT !.status = "hangs"]
               [] t.status = "ok" /\ t.pos # s.pos -> Match(e, t)
               [] OTHER -> t
    [] e.peg = "not" ->
         LET t == Match(e.of, s)
         IN  CASE t.status = "ok" -> Failed(GivenUp(s, t))
               [] t.status = "fail" -> GivenUp(s, t)
               [] OTHER -> t
    [] e.peg = "text" ->
         LET t == Match(e.of, [s EXCEPT !.begin = s.pos])
         IN  IF t.status = "ok" THEN [t EXCEPT !.end = t.pos] ELSE t
    [] e.peg = "bind" ->
         LET t == Match(e.of, s)
         IN  IF t.status = "ok" THEN [t EXCEPT !.vars = (e.var :> t.yy) @@ @] ELSE t
    [] e.peg = "rule" ->
         [Match(Rules[e.name], [s EXCEPT !.vars = NoVariables]) EXCEPT !.vars = s.vars]
    [] e.peg = "action" -> Done(e, s)
    [] e.peg = "assign" ->
         LET t == Done(e, s) IN [t EXCEPT !.vars = (e.var :> t.yy) @@ @, !.yy = s.yy]

------------------------------------------------------------------------------
VARIABLES text,         \* what is left of the source
          symbols,      \* the events the program has defined so far
          EVENT_TABLE,  \* the events in the order of their first mention
          programTrees,
          status        \* "reading", and what became of it

parserVars == <<text, symbols, EVENT_TABLE, programTrees, status>>

yyparse ==
  Match(yy_start, [text |-> text, pos |-> 1, begin |-> 1, end |-> 1, yy |-> << >>,
                   vars |-> NoVariables, defined |-> symbols, fatal |-> FALSE, status |-> "ok"])

insertEventTable(table, id) ==
  IF \E i \in DOMAIN table : table[i] = id THEN table ELSE Append(table, id)
\* A slip: that the table is full is noticed one event too late.
OverflowsLate(table) == Len(table) > EVENT_TABLE_SIZE + 1
Overflows(table) == Len(table) > EVENT_TABLE_SIZE

Handles(e, ids) == e.kind = "Event" /\ e.id \in ids

\* What a state defines itself, and what is out of place in it.
LocalEvents(es) == {es[i].id : i \in {i \in DOMAIN es : es[i].kind = "SetVarEvent"}}
GlobalEvents == EventFuncs \cup symbols
\* A slip: an event the program has defined is taken for the library's
\* event function of that name.
IsEventFuncStill(id) == id \in EventFuncs
IsEventFunc(id) == id \in EventFuncs \ symbols
BadEvent(es, i) ==
  LET e == es[i]
      before == LocalEvents(SubSeq(es, 1, i - 1))
      inits == {e.body.statements[j].function : j \in
                  {j \in DOMAIN e.body.statements :
                     /\ e.body.statements[j].kind = "Call"
                     /\ e.body.statements[j].callType = 1}}
  IN  \/ e.kind = "SetVarEvent" /\ (~ IsEventFunc(e.rhs.id) \/ e.rhs.body # mkNil)
      \/ Handles(e, {"entry"}) /\ ~ inits \subseteq GlobalEvents \cup before
      \/ /\ e.kind = "Event"
         /\ e.id \notin GlobalEvents \cup before \cup {"entry", "exit"}

\* A slip: the handlers of all events in the order of the source.
SortedNot(table, es) == es
\* sortEventListByStateTable
Sorted(table, es) ==
  FlattenSeq([i \in DOMAIN table |->
    SelectSeq(es, LAMBDA e : IF e.kind = "Call" THEN e.function = table[i] ELSE e.id = table[i])])
TableAfter(table, es) ==
  FoldLeft(LAMBDA t, e : IF Handles(e, GlobalEvents) THEN insertEventTable(t, e.id) ELSE t, table, es)

\* The handlers are put behind as many places as there are definitions,
\* wherever these stand.
Arranged(table, es) ==
  LET defs == SelectSeq(es, LAMBDA e : e.kind \in {"SetVarL", "SetVarEvent"} \/ Handles(e, {"entry"}))
      globals == SelectSeq(es, LAMBDA e : e.kind = "Call" \/ Handles(e, GlobalEvents))
      locals == SelectSeq(es, LAMBDA e : Handles(e, LocalEvents(es) \ GlobalEvents))
      handlers == Sorted(table, globals) \o locals
      place(i) == i - Len(defs)
  IN  [i \in DOMAIN es |-> IF place(i) \in DOMAIN handlers THEN handlers[place(i)] ELSE es[i]]

Refuse == status' = "refused" /\ UNCHANGED <<symbols, EVENT_TABLE, programTrees>>
Push(tree) == programTrees' = Append(programTrees, tree)

preprocess(exp) ==
  CASE exp.kind = "SetVarEvent" ->
         LET table == insertEventTable(EVENT_TABLE, exp.id)
         IN  IF Overflows(table) \/ ~ IsEventFunc(exp.rhs.id) THEN Refuse
             ELSE /\ EVENT_TABLE' = table
                  /\ symbols' = symbols \cup {exp.id}
                  /\ UNCHANGED <<programTrees, status>>
    [] exp.kind = "State" ->
         LET table == TableAfter(EVENT_TABLE, exp.events)
         IN  IF \/ \E i \in DOMAIN exp.events : BadEvent(exp.events, i)
                \/ Overflows(table)
             THEN Refuse
             ELSE /\ EVENT_TABLE' = table
                  /\ Push([exp EXCEPT !.events = Arranged(table, @)])
                  /\ UNCHANGED <<symbols, status>>
    [] exp.kind = "END" ->
         Push(exp) /\ status' = "accepted" /\ UNCHANGED <<symbols, EVENT_TABLE>>
    [] OTHER -> Push(exp) /\ UNCHANGED <<symbols, EVENT_TABLE, status>>

\* while(yyparse()) if(sys_false == preprocess(result, programTrees)) break;
Read ==
  /\ status = "reading"
  /\ LET t == yyparse
     IN  /\ text' = IF t.status = "ok" THEN SubSeq(text, t.pos, Len(text)) ELSE text
         /\ CASE t.status = "hangs" ->
                   status' = "hangs" /\ UNCHANGED <<symbols, EVENT_TABLE, programTrees>>
              [] t.status = "ok" /\ t.fatal -> Refuse
              [] t.status = "ok" /\ ~ t.fatal -> preprocess(It(t.yy))

ParserInit(t) ==
  /\ text = t
  /\ symbols = {} /\ EVENT_TABLE = << >> /\ programTrees = << >>
  /\ status = "reading"
==============================================================================
