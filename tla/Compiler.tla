------------------------------ MODULE Compiler ------------------------------
(***************************************************************************)
(* compile() of compiler/optimaize.c: what instructions a tree becomes. It *)
(* is called with the table of the handler's or function's variables       *)
(* (vnt), the type the context asks for and, through program->Array.number,*)
(* the position the code will have; it answers with a type. Here these are *)
(* a context c and a result. fatal() ends the compiler: the                *)
(* pseudo-instruction "fatal" marks where, and a program that holds one is *)
(* rejected. The jumps of break and continue are pseudo-instructions until *)
(* their loop is complete, as their places stand on b_stack and c_stack.   *)
(***************************************************************************)
EXTENDS ByteCode, SyntaxTree, SequencesExt

CONSTANTS
  MAXTHREADSIZE,     \* a state's variables lie behind the table of its cores
  EventFuncs,        \* the library's event functions: the types of their parameters
  Primitives,        \* its functions: [type, args, number]
  Bits               \* the bit of an event in the event table (binary.c)

Numeric == {"_Integer", "_Long", "_Float", "_Char", "_Double"}
Orders == {"EQ", "NE", "LT", "LE", "GE", "GT"}
fatal == <<Instr("fatal")>>

(* The context of a tree: env holds what the trees before it defined.      *)
After(c, r) == [c EXCEPT !.vnt = r.vnt, !.at = c.at + Bytes(r.code)]
Wanting(type, c) == [c EXCEPT !.type = type]
Behind(code, c) == [c EXCEPT !.at = c.at + Bytes(code)]

Compiled(code, vnt, type) == [code |-> code, vnt |-> vnt, type |-> type]
Statement(code, vnt) == Compiled(code, vnt, "Undefined")
Rejected(c) == Statement(fatal, c.vnt)
Unless(wrong) == IF wrong THEN fatal ELSE <<>>

(* assoc: the first entry of that name. *)
Assoc(id, types, index) == [symbol |-> id, types |-> types, index |-> index]
Defined(id, vnt) == \E i \in DOMAIN vnt : vnt[i].symbol = id
assoc(id, vnt) ==
  vnt[CHOOSE i \in DOMAIN vnt : /\ vnt[i].symbol = id
                                /\ \A j \in 1 .. i - 1 : vnt[j].symbol # id]
Declared(vnt, id, types) == Append(vnt, Assoc(id, types, Len(vnt)))

(* kill_assoc(vnt, end): its loop runs only while i == end, so it forgets  *)
(* the one variable a block declared, and none when it declared two.       *)
kill_assoc(vnt, end) ==
  IF Len(vnt) = end + 1 THEN SubSeq(vnt, 1, end) ELSE vnt
Closed(r, c) == [r EXCEPT !.vnt = kill_assoc(r.vnt, Len(c.vnt))]

(* Binop_oprand: the instruction for an operation at a type, if there is.  *)
Binop_oprand(type, op) ==
  IF \/ type = "_Integer"
     \/ /\ type \in Numeric
        /\ \/ op \in Orders \cup {"ADD", "SUB", "MUL", "DIV"}
           \/ op = "MOD" /\ type = "_Long"
  THEN <<Calc(type, op)>> ELSE fatal

(* set_id_index and the way a variable is read: global, of the state, own. *)
set_id_index(id, c) ==
  CASE Defined(id, c.env.G) -> [scope |-> "G", ass |-> assoc(id, c.env.G)]
    [] ~ Defined(id, c.env.G) /\ Defined(id, c.env.L) ->
         [scope |-> "L", ass |-> assoc(id, c.env.L)]
    [] OTHER -> [scope |-> "", ass |-> assoc(id, c.vnt)]
Visible(id, c) ==
  \E vnt \in {c.env.G, c.env.L, c.vnt} : Defined(id, vnt)
Access(what, var, base) ==
  InstrI(CASE var.scope = "G" -> what \o "_G"
           [] var.scope = "L" -> what \o "_L"
           [] OTHER -> what,
         var.ass.index + (IF var.scope = "L" THEN base ELSE 0))

----------------------------------------------------------------------------
(* Expressions. *)
RECURSIVE comp(_, _)

compileInteger(exp, c) ==
  LET type == IF c.type = "Undefined" THEN "_Integer" ELSE c.type
  IN  IF type \in {"_Integer", "_Long", "_Char"}
      THEN Compiled(<<Load(type, exp.number)>>, c.vnt, type) ELSE Rejected(c)

compileFloat(exp, c) ==
  IF c.type \in {"_Float", "_Double"}
  THEN Compiled(<<Load(c.type, exp.number)>>, c.vnt, c.type) ELSE Rejected(c)

compileString(exp, c) ==
  IF c.type = "_String" THEN Compiled(<<Load("_String", 0)>>, c.vnt, c.type)
  ELSE Rejected(c)

compileBinop(exp, c) ==
  LET l == comp(exp.lhs, c)
      r == comp(exp.rhs, After(c, l))
  IN  Compiled(l.code \o r.code \o Binop_oprand(c.type, exp.op), c.vnt,
               IF l.type \in Numeric THEN l.type ELSE r.type)

(* ++ and -- return before they store: the variable keeps its value, and   *)
(* behind it (AINC, ADEC) it is pushed twice, a state's variable the       *)
(* second time without the size of the core table.                         *)
compileUnyop(exp, c) ==
  LET r == comp(exp.rhs, c)
      again == IF exp.op \in {"AINC", "ADEC"} /\ Visible(exp.rhs.id, c)
               THEN <<Access("GET", set_id_index(exp.rhs.id, c), 0)>> ELSE <<>>
      known == c.type \in (IF exp.op = "NEG" THEN Numeric ELSE {"_Integer", "_Long"})
      f == CASE exp.op = "NEG" -> "MUL" [] exp.op \in {"AINC", "BINC"} -> "ADD"
             [] exp.op \in {"ADEC", "BDEC"} -> "SUB"
  IN  IF ~ known THEN Rejected(c)
      ELSE Compiled(r.code \o again \o
                      <<Load(c.type, IF exp.op = "NEG" THEN -1 ELSE 1), Calc(c.type, f)>>,
                    c.vnt, c.type)

compileGetVar(exp, c) ==
  IF ~ Visible(exp.id, c) THEN Rejected(c)
  ELSE LET var == set_id_index(exp.id, c)
           type == var.ass.types.type
       IN  IF c.type \notin {type, "Undefined"} THEN Rejected(c)
           ELSE Compiled(<<Access("GET", var, MAXTHREADSIZE)>>, c.vnt, type)

(* compArgs compares an argument's type with that of the node that holds   *)
(* the parameter's, which is Types: whatever the argument, it is refused.  *)
compArgs(params, args) == Unless(params # <<>> \/ args # <<>>)

callFunction(exp, c) ==
  LET function == c.env.functions[exp.function]
      pushed == compArgs(function.parameters, exp.arguments)
  IN  Compiled(pushed \o Unless(c.type \notin {function.type, "Undefined"})
                 \o <<InstrII("CALL", Len(exp.arguments),
                              function.position - c.at - (1 + 2 * INT))>>,
               c.vnt, function.type)

(* A library function takes its arguments as the parser consed them: the   *)
(* last one first; one it has no parameter for is not looked at.           *)
callPrimitive(exp, c) ==
  LET prim == Primitives[exp.function]
      count == Len(prim.args)
      given[n \in 0 .. count] ==
        IF n = 0 THEN Statement(<<>>, c.vnt)
        ELSE LET before == given[n - 1]
                 arg == comp(exp.arguments[Len(exp.arguments) - n + 1],
                             Wanting(prim.args[n], Behind(before.code, c)))
             IN  Statement(before.code \o arg.code \o Unless(arg.type # prim.args[n]),
                           c.vnt)
  IN  IF Len(exp.arguments) < count \/ c.type \notin {prim.type, "Undefined"}
      THEN Rejected(c)
      ELSE Compiled(Append(given[count].code, InstrIII("CALL_P", 0, prim.number, count)),
                    c.vnt, prim.type)

compileCall(exp, c) ==
  CASE exp.function \in DOMAIN c.env.functions -> callFunction(exp, c)
    [] exp.function \in DOMAIN Primitives -> callPrimitive(exp, c)
    [] OTHER -> Rejected(c)

----------------------------------------------------------------------------
(* Statements. *)

(* A variable is stored where its name is found first; a name without a    *)
(* type must have been declared, one with a type must not.                 *)
compileSetVar(exp, c) ==
  LET types == exp.types
      declares == types.type # "Undefined"
      new == declares /\ ~ Visible(exp.id, c)
      vnt == IF new THEN Declared(c.vnt, exp.id, types) ELSE c.vnt
      own == [c EXCEPT !.vnt = vnt]
      var == set_id_index(exp.id, own)
      value == comp(exp.rhs, Wanting(var.ass.types.type, own))
  IN  IF \/ exp.id \in DOMAIN c.env.functions \cup c.env.states \cup DOMAIN Primitives
         \/ declares # new
         \/ ~ declares /\ (~ Visible(exp.id, c) \/ var.ass.types.isCount)
      THEN Rejected(c)
      ELSE Statement(Append(value.code,
                            Access("DEFINE", var, MAXTHREADSIZE) @@ [rhs |-> exp.rhs, sees |-> [vnt |-> own.vnt, L |-> own.env.L]]),
                     value.vnt)

compilePrint(exp, c) ==
  LET print[n \in 0 .. Len(exp.arguments)] ==
        IF n = 0 THEN <<>>
        ELSE LET arg == comp(exp.arguments[n],
                             Wanting("Undefined", Behind(print[n - 1], c)))
             IN  print[n - 1] \o arg.code
                   \o (IF arg.type \in Numeric THEN <<Show(arg.type)>> ELSE <<>>)
  IN  Statement(print[Len(exp.arguments)], c.vnt)

compileIf(exp, c) ==
  LET cond == comp(exp.condition, Wanting("Undefined", c))
      jumpf(n) == <<InstrI("JUMPF", n)>>
      then == Closed(comp(exp.statement1, Behind(cond.code \o jumpf(0), c)), c)
      jump(n) == <<InstrI("JUMP", n)>>
      cE == Behind(cond.code \o jumpf(0), After(c, then))
      else == Closed(comp(exp.statement2, [Behind(jump(0), cE) EXCEPT !.vnt = then.vnt]), then)
      head(n) == cond.code \o Unless(cond.type # "_Integer") \o jumpf(n)
  IN  IF exp.statement2 = mkNil
      THEN Statement(head(Bytes(then.code)) \o then.code, then.vnt)
      ELSE Statement(head(Bytes(then.code \o jump(0))) \o then.code
                       \o jump(Bytes(else.code)) \o else.code, else.vnt)

\* A slip: continue leaves the loop.
PatchedOut(code, from, break, continue) ==
  LET number == Number(code)
      JumpTo(target, n) == InstrI("JUMP", target - (from + number[n]))
  IN  [n \in DOMAIN code |->
         IF code[n].op \in {"break", "continue"} THEN JumpTo(break, n) ELSE code[n]]

\* A slip: a jump counts from its own first byte.
PatchedAhead(code, from, break, continue) ==
  LET number == Number(code)
      JumpTo(target, n) == InstrI("JUMP", target - (from + number[n - 1]))
  IN  [n \in DOMAIN code |->
         CASE code[n].op = "break" -> JumpTo(break, n)
           [] code[n].op = "continue" -> JumpTo(continue, n)
           [] OTHER -> code[n]]

(* A loop's body once its ends are known: a jump counts from behind it.    *)
Patched(code, from, break, continue) ==
  LET number == Number(code)
      JumpTo(target, n) == InstrI("JUMP", target - (from + number[n]))
  IN  [n \in DOMAIN code |->
         CASE code[n].op = "break" -> JumpTo(break, n)
           [] code[n].op = "continue" -> JumpTo(continue, n)
           [] OTHER -> code[n]]

compileWhile(exp, c) ==
  LET cond == Closed(comp(exp.condition, Wanting("_Integer", c)), c)
      test == cond.code \o Unless(cond.type # "_Integer")
      L2 == c.at + Bytes(test) + 1 + INT
      body == Closed(comp(exp.statement, [c EXCEPT !.at = L2, !.vnt = cond.vnt]), cond)
      L4 == L2 + Bytes(body.code) + 1 + INT
  IN  Statement(test \o <<InstrI("JUMPF", L4 - L2)>>
                  \o Patched(body.code, L2, L4, c.at)
                  \o <<InstrI("JUMP", c.at - L4)>>, body.vnt)

(* The update stands before the condition; the first round jumps over it,  *)
(* continue goes to it.                                                    *)
compileFor(exp, c) ==
  LET part(tree, type, cc) ==
        IF tree = mkNil THEN Statement(<<>>, cc.vnt) ELSE comp(tree, Wanting(type, cc))
      init == part(exp.initstate, "Undefined", c)
      c1 == After(c, init)
      L1 == c1.at + 1 + INT
      update == part(exp.update, "Undefined", [c1 EXCEPT !.at = L1])
      c2 == After([c1 EXCEPT !.at = L1], update)
      cond == IF exp.condition = mkNil
              THEN Statement(<<Load("_Integer", 1)>>, c2.vnt)
              ELSE part(exp.condition, "_Integer", c2)
      jumpf == c2.at + Bytes(cond.code) + 1 + INT
      body == comp(exp.statement, [c2 EXCEPT !.at = jumpf, !.vnt = cond.vnt])
      done == jumpf + Bytes(body.code) + 1 + INT
  IN  Statement(init.code \o <<InstrI("JUMP", c2.at - L1)>> \o update.code
                  \o cond.code \o <<InstrI("JUMPF", done - jumpf)>>
                  \o Patched(body.code, jumpf, done, L1)
                  \o <<InstrI("JUMP", L1 - done)>>,
                Closed(body, c).vnt)

compileBreak(exp, c) == Statement(<<InstrI("break", 0)>>, c.vnt)
compileContinue(exp, c) == Statement(<<InstrI("continue", 0)>>, c.vnt)

compileReturn(exp, c) ==
  LET value == comp(exp.value, c)
  IN  Compiled(value.code \o Unless(value.type # c.type) \o <<Instr("RET")>>,
               c.vnt, c.type)

(* A block has the type of the last of its statements that has any.        *)
compileBlock(exp, c) ==
  LET upto[n \in 0 .. Len(exp.statements)] ==
        IF n = 0 THEN Statement(<<>>, c.vnt)
        ELSE LET before == upto[n - 1]
                 s == comp(exp.statements[n], After(c, before))
             IN  Compiled(before.code \o s.code, s.vnt,
                          IF s.type = "Undefined" THEN before.type ELSE s.type)
  IN  upto[Len(exp.statements)]

(* Run: the aspects behind this state, then those between the two, are     *)
(* called before the state is left. The jump is linked at the end.         *)
CallAspect(aspect, at) ==
  <<InstrII("CALL", 0, aspect.position - at - (1 + 2 * INT))>>
CallAspects(aspects, at) ==
  LET calls[n \in 0 .. Len(aspects)] ==
        IF n = 0 THEN <<>>
        ELSE calls[n - 1] \o CallAspect(aspects[n], at + Bytes(calls[n - 1]))
  IN  calls[Len(aspects)]

compileRun(exp, c) ==
  LET from == c.env.stateName
      leaving(a) == a.from = from /\ a.to = "*"
      between(a) == a.from = from /\ a.to = exp.state
      calls == CallAspects(SelectSeq(c.env.aspects, leaving)
                             \o SelectSeq(c.env.aspects, between), c.at)
  IN  Statement(Append(calls, InstrII("TRANS", 0, 0) @@ [to |-> exp.state]), c.vnt)

At(p) == Bytes(p.code)
Emit(p, code) == [p EXCEPT !.code = @ \o code]
Context(p, vnt, type, ahead) ==
  [vnt |-> vnt, type |-> type, at |-> At(p) + ahead, env |-> p.env]

(* A body the program jumps over when it is loaded.                        *)
Skipped(p, body) == Emit(p, <<InstrI("JUMP", Bytes(body))>> \o body)
JUMPSIZE == 1 + INT

(* MSUB makes room for the variables the table still holds at the end; the *)
(* arguments, behind three words of the frame, become the first of them.   *)
defineFunction(exp, p) ==
  LET params == Reverse(exp.parameters)
      position == At(p) + JUMPSIZE
      vnt == [n \in DOMAIN params |-> Assoc(params[n].symbol, params[n].types, n - 1)]
      picks == [n \in DOMAIN params |-> InstrII("MPICK", n - 1 + 3, n - 1)]
      entered == [p EXCEPT !.env.functions = @ @@
                    (exp.id :> [type |-> exp.types.type, position |-> position,
                                parameters |-> exp.parameters, body |-> exp.body,
                                sees |-> p.env.G \o p.env.L])]
      body == comp(exp.body, Context(entered, vnt, exp.types.type,
                                     2 * JUMPSIZE + Bytes(picks)))
      clash == \/ \E m, n \in DOMAIN vnt : m # n /\ vnt[m].symbol = vnt[n].symbol
               \/ \E n \in DOMAIN vnt : Defined(vnt[n].symbol, p.env.G)
               \/ exp.id \in DOMAIN p.env.functions \cup p.env.states \cup DOMAIN Primitives
  IN  Skipped(entered,
              <<InstrI("MSUB", Len(body.vnt))>> \o picks \o body.code
                \o Unless(clash \/ body.type = exp.types.type))

(* SetVarG: a program of its own for the variable's first value.           *)
defineGlobal(exp, p) ==
  LET new == Declared(p.env.G, exp.id, exp.types)
      q == [p EXCEPT !.env.G = new]
      value == comp(exp.rhs, Context(q, <<>>, exp.types.type, 1))
  IN  Emit(q, <<Instr("GLOBAL")>> \o value.code
                \o Unless(value.type # exp.types.type \/ Defined(exp.id, p.env.G))
                \o <<InstrI("DEFINE_G", Len(p.env.G)), Instr("GLOBAL_END")>>)

(* SetVarL *)
defineLocal(exp, p) ==
  LET new == Declared(p.env.L, exp.id, exp.types)
      q == [p EXCEPT !.env.L = new]
      value == comp(exp.rhs, Context(q, <<>>, exp.types.type, 0))
      wrong == \/ Defined(exp.id, p.env.G) \/ Defined(exp.id, p.env.L)
               \/ value.type # exp.types.type
  IN  Emit(q, value.code \o Unless(wrong)
                \o <<InstrI("DEFINE_L", MAXTHREADSIZE + Len(p.env.L))>>)

(* A handler: a parameter's type is compared with its node's (Types).      *)
defineEvent(exp, p) ==
  LET body == comp(exp.body, Context(p, <<>>, "Undefined", JUMPSIZE))
      known == exp.id = "entry" \/ exp.id \in DOMAIN EventFuncs
      wrong == \/ ~ known
               \/ exp.id # "entry" /\ (EventFuncs[exp.id].args # 0 \/ exp.parameters # <<>>)
               \/ exp.id = "entry" /\ p.env.handlers # <<>>
      loc == At(p) + JUMPSIZE
  IN  [Skipped(p, body.code \o Unless(wrong) \o <<Instr("MPOP"), Instr("EOE")>>)
         EXCEPT !.env.handlers = Append(@, [id |-> exp.id, eventLoc |-> loc, body |-> exp.body])]

(* STEP 2 and 3: the set-up of the events' cores and threads.              *)
SetUp(handlers, stt_loc) ==
  LET ids == SelectSeq([n \in DOMAIN handlers |->
                          IF \E m \in 1 .. n - 1 : handlers[m].id = handlers[n].id
                          THEN "entry" ELSE handlers[n].id], LAMBDA id : id # "entry")
      loads(id) == [n \in 1 .. EventFuncs[id].pins |-> Load("_Integer", 0)]
      init(id) == loads(id) \o <<InstrIII("SETCORE", EventFuncs[id].pins, 0, Bits[id])>>
      mine(id) == SelectSeq(handlers, LAMBDA h : h.id = id)
      threads(id) == [n \in DOMAIN mine(id) |->
                        InstrII("SETTHREAD", mine(id)[n].eventLoc - stt_loc, 0)]
      core(id) == <<InstrII("COPYCORE", Bits[id], Bytes(init(id)))>> \o init(id)
                    \o <<InstrI("MKTHREAD", Len(mine(id)))>> \o threads(id)
  IN  [size |-> Len(ids), code |-> FlattenSeq([n \in DOMAIN ids |-> core(ids[n])])]

(* STEP 4: the aspects in front of the state, its entry(), the main loop.  *)
StartState(id, handlers, p) ==
  LET before(a) == a.from = "*" /\ a.to = "*"
      here(a) == a.from = "*" /\ a.to = id
      calls == CallAspects(SelectSeq(p.env.aspects, before)
                             \o SelectSeq(p.env.aspects, here), At(p))
      q == Emit(p, calls)
      entry == SelectSeq(handlers, LAMBDA h : h.id = "entry")
  IN  Emit(q, [n \in DOMAIN entry |->
                 InstrI("ENTRY", entry[n].eventLoc - At(q) - JUMPSIZE)]
              \o <<Instr("STARTIMP")>>)

defineState(exp, p) ==
  LET members[n \in 0 .. Len(exp.events)] ==
        IF n = 0
        THEN [p EXCEPT !.env.L = <<>>, !.env.stateName = exp.id,
                       !.env.states = @ \cup {exp.id}, !.env.handlers = <<>>]
        ELSE comp(exp.events[n], members[n - 1])
      q == members[Len(exp.events)]
      handlers == q.env.handlers
      setUp == SetUp(handlers, At(q) + JUMPSIZE)
      made == Emit(q, <<InstrI("MKCORE", setUp.size)>> \o setUp.code)
  IN  StartState(exp.id, handlers,
        [made EXCEPT !.env.index = @ @@ (exp.id :> At(q)),
                     !.env.sources = @ \cup {[h EXCEPT !.id = exp.id] @@ [vars |-> q.env.L] :
                                              h \in {handlers[n] : n \in DOMAIN handlers}}])

(* Code over transitions, jumped over when it is loaded; EOA returns from  *)
(* it. trans from -> to has it called there. An advice is compiled without *)
(* a table of variables; a pointcut names the states before or behind      *)
(* which it is called.                                                     *)
Advising(exp, p) ==
  LET body == comp(exp.body, Context(p, <<>>, "Undefined", 2 * JUMPSIZE))
  IN  [p |-> Skipped(p, <<InstrI("MSUB", Len(body.vnt))>> \o body.code \o <<Instr("EOA")>>),
       vnt |-> body.vnt,
       advice |-> [position |-> At(p) + JUMPSIZE, body |-> exp.body, sees |-> p.env.G]]
Between(from, to, advice) == [from |-> from, to |-> to] @@ advice

defineAspect(exp, p) ==
  LET made == Advising(exp, p)
  IN  [made.p EXCEPT !.env.aspects = Append(@, Between(exp.from, exp.to, made.advice))]

defineAdvice(exp, p) ==
  LET made == Advising(exp, p)
  IN  [Emit(made.p, Unless(made.vnt # <<>>)) EXCEPT !.env.advices = (exp.id :> made.advice) @@ @]

definePointcut(exp, p) ==
  LET advice == p.env.advices[exp.id]
      joined(j) ==
        (IF j.point \in {"BEFORE", "AROUND"} THEN <<Between("*", j.id, advice)>> ELSE <<>>)
          \o (IF j.point \in {"AFTER", "AROUND"} THEN <<Between(j.id, "*", advice)>> ELSE <<>>)
  IN  IF exp.id \notin DOMAIN p.env.advices THEN Emit(p, fatal)
      ELSE [p EXCEPT !.env.aspects =
              @ \o FlattenSeq([n \in DOMAIN exp.pair |-> joined(Reverse(exp.pair)[n])])]

comp(exp, c) ==
  CASE exp.kind = "Integer" -> compileInteger(exp, c)
    [] exp.kind = "Float" -> compileFloat(exp, c)
    [] exp.kind = "String" -> compileString(exp, c)
    [] exp.kind = "Binop" -> compileBinop(exp, c)
    [] exp.kind = "Unyop" -> compileUnyop(exp, c)
    [] exp.kind = "GetVar" -> compileGetVar(exp, c)
    [] exp.kind = "Call" -> compileCall(exp, c)
    [] exp.kind = "SetVar" -> compileSetVar(exp, c)
    [] exp.kind = "Print" -> compilePrint(exp, c)
    [] exp.kind = "If" -> compileIf(exp, c)
    [] exp.kind = "While" -> compileWhile(exp, c)
    [] exp.kind = "For" -> compileFor(exp, c)
    [] exp.kind = "Break" -> compileBreak(exp, c)
    [] exp.kind = "Continue" -> compileContinue(exp, c)
    [] exp.kind = "Return" -> compileReturn(exp, c)
    [] exp.kind = "Block" -> compileBlock(exp, c)
    [] exp.kind = "Run" -> compileRun(exp, c)
    [] exp.kind = "Function" -> defineFunction(exp, c)
    [] exp.kind = "SetVarG" -> defineGlobal(exp, c)
    [] exp.kind = "State" -> defineState(exp, c)
    [] exp.kind = "SetVarL" -> defineLocal(exp, c)
    [] exp.kind = "Event" -> defineEvent(exp, c)
    [] exp.kind = "TransAspect" -> defineAspect(exp, c)
    [] exp.kind = "Advice" -> defineAdvice(exp, c)
    [] exp.kind = "Pointcut" -> definePointcut(exp, c)

(* END: a transition's distance counts from behind its first operand.      *)
Linked(p) ==
  LET number == Number(p.code)
      target(n) == p.env.index[p.code[n].to] - (number[n - 1] + JUMPSIZE)
  IN  [p EXCEPT !.code = [n \in DOMAIN p.code |->
         IF p.code[n].op # "TRANS" THEN p.code[n]
         ELSE IF p.code[n].to \notin DOMAIN p.env.index THEN fatal[1]
         ELSE [p.code[n] EXCEPT !.a = target(n)]]]

NothingDefined ==
  [code |-> <<InstrI("MSET", 0)>>,
   env |-> [G |-> <<>>, L |-> <<>>, functions |-> << >>, states |-> {}, stateName |-> "",
            aspects |-> <<>>, advices |-> << >>, handlers |-> <<>>, index |-> << >>, sources |-> {}]]

program(trees) ==
  LET upto[n \in 0 .. Len(trees)] ==
        IF n = 0 THEN NothingDefined ELSE comp(trees[n], upto[n - 1])
      p == Emit(Linked(upto[Len(trees)]), <<Instr("HALT")>>)
  IN  [p EXCEPT !.code[1].a = Len(p.env.G)]

Accepted(p) ==
  \A n \in DOMAIN p.code : p.code[n].op \notin {"fatal", "break", "continue"}
=============================================================================
