----------------------------- MODULE SyntaxTree -----------------------------
(***************************************************************************)
(* The trees the parser's actions build (compiler/object.c, newXxx), as    *)
(* far as the compiler translates them. A parameter or argument list is in *)
(* the order of the source: the parser conses it up backwards and its      *)
(* readers recurse to its end first or turn it round (rePair).             *)
(***************************************************************************)
EXTENDS Integers, Sequences

newTypes(isCount, type) == [isCount |-> isCount, type |-> type]
NoTypes == newTypes(FALSE, "Undefined")         \* mkNil in `assign'

newInteger(n) == [kind |-> "Integer", number |-> n]
newFloat(n) == [kind |-> "Float", number |-> n]
newString(s) == [kind |-> "String", value |-> s]
newGetVar(id) == [kind |-> "GetVar", id |-> id]
binop == {"AND", "OR", "ADD", "SUB", "MUL", "DIV", "MOD", "LT", "LE", "GE", "GT", "EQ", "NE",
          "BAND", "BOR", "LSH", "RSH"}
newBinop(op, lhs, rhs) == [kind |-> "Binop", op |-> op, lhs |-> lhs, rhs |-> rhs]
newUnyop(op, rhs) == [kind |-> "Unyop", op |-> op, rhs |-> rhs]
newCall(args, id) == [kind |-> "Call", function |-> id, arguments |-> args, callType |-> 0]
newEventCall(args, id) == [newCall(args, id) EXCEPT !.callType = 1]
newStrChar(c) == [kind |-> "Char", value |-> c]
newGetElement(parent, child) == [kind |-> "GetElement", parent |-> parent, child |-> child]
newSetArray(types, id, index, rhs) ==
  [kind |-> "SetArray", types |-> types, id |-> id, index |-> index, rhs |-> rhs]

newSetVar(types, id, rhs) ==
  [kind |-> "SetVar", types |-> types, id |-> id, rhs |-> rhs]
newPrint(args) == [kind |-> "Print", arguments |-> args]
newIf(c, s1, s2) ==
  [kind |-> "If", condition |-> c, statement1 |-> s1, statement2 |-> s2]
newWhile(c, s) == [kind |-> "While", condition |-> c, statement |-> s]
newFor(i, c, u, s) == [kind |-> "For", initstate |-> i, condition |-> c,
                       update |-> u, statement |-> s]
newBlock(ss) == [kind |-> "Block", statements |-> ss]
newContinue == [kind |-> "Continue"]
newBreak == [kind |-> "Break"]
newReturn(e) == [kind |-> "Return", value |-> e]
newRun(id) == [kind |-> "Run", state |-> id]
mkNil == [kind |-> "nil"]

newSetVarG(types, id, rhs) ==
  [kind |-> "SetVarG", types |-> types, id |-> id, rhs |-> rhs]
newSetVarL(types, id, rhs) ==
  [kind |-> "SetVarL", types |-> types, id |-> id, rhs |-> rhs]
newParam(types, id) == [types |-> types, symbol |-> id]
newFunction(types, id, params, body) ==
  [kind |-> "Function", types |-> types, id |-> id, parameters |-> params,
   body |-> body]
newEventParam(types, id, cond) == [types |-> types, symbol |-> id, cond |-> cond]
newEvent(id, params, body) ==
  [kind |-> "Event", id |-> id, parameters |-> params, body |-> body]
newState(id, events) == [kind |-> "State", id |-> id, events |-> events]
newTransAspect(from, to, body) ==
  [kind |-> "TransAspect", from |-> from, to |-> to, body |-> body]
newAdvice(id, body) == [kind |-> "Advice", id |-> id, body |-> body]
newPointcut(id, jointps) == [kind |-> "Pointcut", id |-> id, pair |-> jointps]
newSetType(id, child) == [kind |-> "SetType", id |-> id, child |-> child]
newSetVarEvent(id, event) == [kind |-> "SetVarEvent", id |-> id, rhs |-> event]
newEND == [kind |-> "END"]
newJointp(point, id) == [point |-> point, id |-> id]

getType(tree) == IF "kind" \in DOMAIN tree THEN tree.kind ELSE "Types"
=============================================================================
