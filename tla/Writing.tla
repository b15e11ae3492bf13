------------------------------- MODULE Writing -------------------------------
(***************************************************************************)
(* A reference for the parser: how a tree is written, with C's operators   *)
(* and no brackets but those that C asks for.  Only & and | are kept       *)
(* apart by brackets: C and the grammar disagree about them.               *)
(***************************************************************************)
EXTENDS SyntaxTree, SequencesExt

CONSTANT Split      \* names, numbers and strings of several chunks

Chunks(id) == IF id \in DOMAIN Split THEN Split[id] ELSE <<id>>
W(word) == << <<word>> >>
Name(id) == <<Chunks(id)>>
RECURSIVE Figures(_)
Figures(n) == IF n < 10 THEN <<ToString(n)>> ELSE Append(Figures(n \div 10), ToString(n % 10))
Separated(pieces, mark) ==
  IF pieces = << >> THEN << >>
  ELSE FoldLeft(LAMBDA a, b : a \o W(mark) \o b, Head(pieces), Tail(pieces))

\* The first piece stands against what is before it.
Against(chunks, pieces) == <<chunks \o Head(pieces)>> \o Tail(pieces)

Signs == [OR |-> <<"|", "|">>, AND |-> <<"&", "&">>, BOR |-> <<"|">>, BAND |-> <<"&">>,
          EQ |-> <<"=", "=">>, NE |-> <<"!", "=">>, LT |-> <<"<">>, LE |-> <<"<", "=">>,
          GT |-> <<">">>, GE |-> <<">", "=">>, LSH |-> <<"<", "<">>, RSH |-> <<">", ">">>,
          ADD |-> <<"+">>, SUB |-> <<"-">>, MUL |-> <<"*">>, DIV |-> <<"/">>, MOD |-> <<"%">>]
Levels == << {"OR"}, {"AND"}, {"BOR", "BAND"}, {"EQ", "NE"}, {"LT", "LE", "GT", "GE"},
             {"LSH", "RSH"}, {"ADD", "SUB"}, {"MUL", "DIV", "MOD"} >>
LevelOf(op) == CHOOSE l \in DOMAIN Levels : op \in Levels[l]
Unary == 9
Primary == 10
Level(e) == CASE e.kind = "Binop" -> LevelOf(e.op)
              [] e.kind = "Unyop" -> Unary
              [] OTHER -> Primary
Bitwise_ == {"BOR", "BAND"}
Apart(e, op) == e.kind = "Binop" /\ {e.op, op} = Bitwise_

RECURSIVE Exp(_)
Exp(e) ==
  LET Arg(x, level, apart) ==
        IF Level(x) < level \/ apart THEN W("(") \o Exp(x) \o W(")") ELSE Exp(x)
      Args(xs) == W("(") \o Separated([i \in DOMAIN xs |-> Exp(xs[i])], ",") \o W(")")
  IN  CASE e.kind = "Binop" ->
             Arg(e.lhs, LevelOf(e.op), Apart(e.lhs, e.op)) \o <<Signs[e.op]>>
               \o Arg(e.rhs, LevelOf(e.op) + 1, FALSE)
        [] e.kind = "Unyop" ->
             (CASE e.op = "NEG" -> W("-") \o Arg(e.rhs, Primary, FALSE)
               [] e.op = "BINC" -> Against(<<"+", "+">>, Exp(e.rhs))
               [] e.op = "BDEC" -> Against(<<"-", "-">>, Exp(e.rhs))
               [] e.op = "AINC" -> Exp(e.rhs) \o << <<"+", "+">> >>
               [] e.op = "ADEC" -> Exp(e.rhs) \o << <<"-", "-">> >>)
        [] e.kind = "Integer" -> <<Figures(e.number)>>
        [] e.kind = "Float" -> Name(e.number)
        [] e.kind = "String" -> << <<"\"">> \o Chunks(e.value) \o <<"\"">> >>
        [] e.kind = "GetVar" -> Name(e.id)
        [] e.kind = "Call" ->
             (IF e.callType = 1 THEN W("init") ELSE << >>) \o Name(e.function) \o Args(e.arguments)
        [] e.kind = "GetElement" -> Against(Chunks(e.parent) \o <<".">>, Exp(e.child))

TypeWords == [_Integer |-> "int", _Long |-> "long", _Double |-> "dou", _Float |-> "flo",
              _Char |-> "cha", String |-> "str", Key |-> "key"]
TypeOf(types) == IF types = NoTypes THEN << >>
                 ELSE (IF types.isCount THEN W("const") ELSE << >>) \o W(TypeWords[types.type])
NL == W("\n")
Braced(lines) == W("{") \o NL \o FlattenSeq(lines) \o W("}") \o NL
Elements(xs) == W("{") \o Separated([i \in DOMAIN xs |-> Exp(xs[i])], ",") \o W("}")

\* A statement without the end of its line.
Simple(s) ==
  CASE s.kind = "SetVar" -> TypeOf(s.types) \o Name(s.id) \o W("=") \o Exp(s.rhs)
    [] s.kind = "SetArray" ->
         TypeOf(s.types) \o Name(s.id) \o W("[") \o Exp(s.index) \o W("]") \o W("=")
           \o (IF s.rhs.kind = "Block" THEN Elements(s.rhs.statements) ELSE Exp(s.rhs))
    [] s.kind = "nil" -> << >>
    [] OTHER -> Exp(s)

RECURSIVE Stmt(_)
Stmt(s) ==
  LET Lines(ss) == [i \in DOMAIN ss |-> Stmt(ss[i])]
  IN  CASE s.kind = "Block" -> Braced(Lines(s.statements))
        [] s.kind = "Print" -> Exp(newCall(s.arguments, "print")) \o NL
        [] s.kind = "If" ->
             W("if") \o W("(") \o Exp(s.condition) \o W(")") \o Stmt(s.statement1)
               \o (IF s.statement2 = mkNil THEN << >> ELSE W("else") \o Stmt(s.statement2))
        [] s.kind = "While" ->
             W("while") \o W("(") \o Exp(s.condition) \o W(")") \o Stmt(s.statement)
        [] s.kind = "For" ->
             W("for") \o W("(") \o Simple(s.initstate) \o W(";") \o Simple(s.condition) \o W(";")
               \o Simple(s.update) \o W(")") \o Stmt(s.statement)
        [] s.kind = "Continue" -> W("continue") \o NL
        [] s.kind = "Break" -> W("break") \o NL
        [] s.kind = "Return" -> W("return") \o Exp(s.value) \o NL
        [] s.kind = "Run" -> W("state") \o Name(s.state) \o NL
        [] OTHER -> Simple(s) \o NL

Params_(ps) ==
  W("(") \o Separated([i \in DOMAIN ps |->
              TypeOf(ps[i].types) \o Name(ps[i].symbol)
                \o (IF "cond" \in DOMAIN ps[i] /\ ps[i].cond # mkNil
                    THEN W(":") \o Exp(ps[i].cond) ELSE << >>)], ",") \o W(")")
Event(e) ==
  CASE e.kind = "Event" -> Name(e.id) \o Params_(e.parameters) \o Stmt(e.body)
    [] e.kind = "SetVarEvent" ->
         W("event") \o Name(e.id) \o W("=") \o Name(e.rhs.id) \o Params_(e.rhs.parameters)
           \o (IF e.rhs.body = mkNil THEN NL ELSE Stmt(e.rhs.body))
    [] e.kind \in {"SetVarL", "SetVarG"} ->
         TypeOf(e.types) \o Name(e.id) \o W("=") \o Exp(e.rhs) \o NL
    [] e.kind = "Call" -> Exp(e) \o NL
Points == [BEFORE |-> "before", AFTER |-> "after", AROUND |-> "around"]
Define(d) ==
  CASE d.kind = "State" ->
         W("state") \o Name(d.id) \o Braced([i \in DOMAIN d.events |-> Event(d.events[i])])
    [] d.kind = "TransAspect" ->
         W("trans") \o Name(d.from) \o W(",") \o Name(d.to) \o Stmt(d.body)
    [] d.kind = "Advice" -> W("advice") \o Name(d.id) \o Stmt(d.body)
    [] d.kind = "Pointcut" ->
         W("pointcut") \o Name(d.id)
           \o Braced([i \in DOMAIN d.pair |->
                        W(Points[d.pair[i].point]) \o Name(d.pair[i].id) \o W(",") \o NL])
    [] d.kind = "SetType" ->
         W("struct") \o Name(d.id)
           \o Braced([i \in DOMAIN d.child |->
                        TypeOf(d.child[i].types) \o Name(d.child[i].symbol) \o W(";") \o NL])
    [] d.kind = "Function" ->
         TypeOf(d.types) \o Name(d.id) \o Params_(d.parameters) \o Stmt(d.body)
    [] d.kind = "Run" -> W("run") \o Name(d.state.id) \o NL
    [] OTHER -> Event(d)

\* The pieces in a row: with blanks around each, or only where two words or
\* two signs would become one.
Figure == {"0", "1", "2", "3", "4", "5", "6", "7", "8", "9"}
Sign == {"\n", "\"", "'", ".", "=", "+", "-", "*", "/", "%", "&", "|", "!", "<", ">",
         "(", ")", "[", "]", ",", ";", ":", "{", "}"}
Touch(a, b) == IF a \in Sign THEN a = b /\ a \in {"+", "-"} ELSE b \notin Sign
InARow(pieces, loose) ==
  FlattenSeq([i \in DOMAIN pieces |->
    IF /\ i > 1 /\ pieces[i] # <<"\n">>
       /\ loose \/ Touch(Last(pieces[i - 1]), Head(pieces[i]))
    THEN <<" ">> \o pieces[i] ELSE pieces[i]])
Written(program, loose) ==
  InARow(FlattenSeq([i \in DOMAIN program |-> Define(program[i])]), loose)
==============================================================================
