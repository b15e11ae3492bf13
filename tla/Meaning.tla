------------------------------ MODULE Meaning ------------------------------
(***************************************************************************)
(* What a handler's source says: the reference the compiled code is        *)
(* checked against. It runs the tree on a memory of names, not of places;  *)
(* a variable lives until the end of its block, expressions are evaluated  *)
(* from left to right, and arithmetic is that of an int, -Half .. Half - 1.*)
(*                                                                         *)
(* A run has a status: "ok", or how its statement was left ("break",       *)
(* "continue", "return", "trans", "stop"), or "stuck" when the source does *)
(* not say what happens (a variable without a value, an operation C leaves *)
(* undefined, a loop of more rounds than a bound).                         *)
(***************************************************************************)
EXTENDS SyntaxTree, TLC

CONSTANTS Half, Rounds     \* bound: rounds of loops and calls of a run

LOCAL INSTANCE Bitwise
LOCAL Size == 2 * Half
Narrow(n) == ((n + Size \div 2) % Size) - Size \div 2

Running(mem, functions, advices) ==
  [mem |-> mem, out |-> <<>>, val |-> 0, status |-> "ok", to |-> "", left |-> Rounds,
   functions |-> functions, advices |-> advices]
Left(st, how) == [st EXCEPT !.status = how]
Ok(st) == st.status = "ok"
Known(id, st) == id \in DOMAIN st.mem /\ st.mem[id] \in Int
Put(st, id, n) == [st EXCEPT !.mem = (id :> n) @@ @]
(* At the end of a block the names declared in it are forgotten.           *)
Scoped(st, names) == [st EXCEPT !.mem = [x \in DOMAIN @ \cap names |-> @[x]]]

AsInt(b) == IF b THEN 1 ELSE 0
Towards0(l, r) ==
  LET q(a, b) == a \div b
  IN  IF (l < 0) = (r < 0) THEN q(IF l < 0 THEN -l ELSE l, IF r < 0 THEN -r ELSE r)
      ELSE -q(IF l < 0 THEN -l ELSE l, IF r < 0 THEN -r ELSE r)
Apply(op, l, r) ==
  CASE op = "ADD" -> l + r [] op = "SUB" -> l - r [] op = "MUL" -> l * r
    [] op = "DIV" -> Towards0(l, r)
    [] op = "MOD" -> l - r * Towards0(l, r)
    [] op = "EQ" -> AsInt(l = r) [] op = "NE" -> AsInt(l # r)
    [] op = "LT" -> AsInt(l < r) [] op = "LE" -> AsInt(l <= r)
    [] op = "GE" -> AsInt(l >= r) [] op = "GT" -> AsInt(l > r)
    [] op = "AND" -> AsInt(l # 0 /\ r # 0) [] op = "OR" -> AsInt(l # 0 \/ r # 0)
    [] op = "BAND" -> (l % Size) & (r % Size) [] op = "BOR" -> (l % Size) | (r % Size)
    [] op = "LSH" -> l * 2 ^ r [] op = "RSH" -> l \div 2 ^ r
(* C says nothing of a division by zero, of a quotient too large for an int*)
(* and of a shift by less than nothing or by a whole int.                  *)
Undefined(op, l, r) ==
  \/ op \in {"DIV", "MOD"} /\ (r = 0 \/ (r = -1 /\ -l > Half - 1))
  \/ op \in {"LSH", "RSH"} /\ (r < 0 \/ 2 ^ r > Half)

RECURSIVE Eval(_, _), Exec(_, _), Rest(_, _), Loop(_, _, _, _)

(* A body of its own scope: it sees the shared variables named in `sees'.  *)
Inside(body, sees, st) ==
  LET in == Exec(body, Scoped(st, sees))
  IN  [in EXCEPT !.mem = [x \in DOMAIN st.mem |->
         IF x \in DOMAIN in.mem /\ x \in sees THEN in.mem[x] ELSE st.mem[x]]]

Invoke(f, st) ==
  IF st.left = 0 \/ f \notin DOMAIN st.functions THEN Left(st, "stuck")
  ELSE LET in == Inside(st.functions[f].body, st.functions[f].sees, [st EXCEPT !.left = @ - 1])
       IN  Left(in, IF in.status = "return" THEN "ok"
                    ELSE IF in.status \in {"stop", "trans"} THEN in.status ELSE "stuck")

(* What is advised between a state and the next happens before it is left. *)
Advised(advices, st) ==
  LET upto[n \in 0 .. Len(advices)] ==
        IF n = 0 THEN st
        ELSE LET before == upto[n - 1]
             IN  Inside(advices[n].body, advices[n].sees, before)
  IN  upto[Len(advices)]

Eval(exp, st) ==
  IF ~ Ok(st) THEN st
  ELSE CASE exp.kind = "Integer" -> [st EXCEPT !.val = Narrow(exp.number)]
         [] exp.kind = "GetVar" ->
              IF Known(exp.id, st) THEN [st EXCEPT !.val = st.mem[exp.id]]
              ELSE Left(st, "stuck")
         [] exp.kind = "Unyop" /\ exp.op = "NEG" ->
              LET r == Eval(exp.rhs, st) IN [r EXCEPT !.val = Narrow(-r.val)]
         [] exp.kind = "Binop" ->
              LET l == Eval(exp.lhs, st)
                  r == Eval(exp.rhs, l)
              IN  IF ~ Ok(r) THEN r
                  ELSE IF Undefined(exp.op, l.val, r.val) THEN Left(r, "stuck")
                  ELSE [r EXCEPT !.val = Narrow(Apply(exp.op, l.val, r.val))]
         [] exp.kind = "Call" -> Invoke(exp.function, st)

Loop(cond, update, body, st) ==
  LET c == IF cond = mkNil THEN [st EXCEPT !.val = 1] ELSE Eval(cond, st)
      b == Exec(body, c)
      again == IF b.status = "continue" THEN Left(b, "ok") ELSE b
      u == IF update = mkNil THEN again ELSE Exec(update, again)
  IN  IF ~ Ok(c) \/ c.val = 0 THEN c
      ELSE IF c.left = 0 THEN Left(c, "stuck")
      ELSE IF b.status = "break" THEN Left(b, "ok")
      ELSE IF ~ Ok(u) THEN u
      ELSE Loop(cond, update, body, [u EXCEPT !.left = @ - 1])

Rest(ss, st) == IF ss = <<>> THEN st ELSE Rest(Tail(ss), Exec(Head(ss), st))

Exec(s, st) ==
  IF ~ Ok(st) THEN st
  ELSE CASE s.kind = "SetVar" ->
              LET v == Eval(s.rhs, st) IN IF Ok(v) THEN Put(v, s.id, v.val) ELSE v
         [] s.kind = "Print" ->
              LET v == Eval(s.arguments[1], st)
                  p == [v EXCEPT !.out = Append(@, v.val)]
              IN  IF ~ Ok(v) THEN v
                  ELSE IF Len(s.arguments) = 1 THEN p
                  ELSE Exec([s EXCEPT !.arguments = Tail(@)], p)
         [] s.kind = "If" ->
              LET c == Eval(s.condition, st)
                  branch == IF c.val # 0 THEN s.statement1 ELSE s.statement2
              IN  IF ~ Ok(c) \/ branch = mkNil THEN c
                  ELSE Scoped(Exec(branch, c), DOMAIN st.mem)
         [] s.kind = "While" -> Scoped(Loop(s.condition, mkNil, s.statement, st), DOMAIN st.mem)
         [] s.kind = "For" ->
              LET i == IF s.initstate = mkNil THEN st ELSE Exec(s.initstate, st)
              IN  Scoped(Loop(s.condition, s.update, s.statement, i), DOMAIN st.mem)
         [] s.kind = "Block" ->
              Scoped(Rest(s.statements, st), DOMAIN st.mem)
         [] s.kind = "Break" -> Left(st, "break")
         [] s.kind = "Continue" -> Left(st, "continue")
         [] s.kind = "Return" ->
              LET v == Eval(s.value, st) IN IF Ok(v) THEN Left(v, "return") ELSE v
         [] s.kind = "Run" ->
              LET a == Advised(st.advices[s.state], st)
              IN  IF Ok(a) THEN [Left(a, "trans") EXCEPT !.to = s.state] ELSE a
         [] s.kind = "Call" ->
              IF s.function = "stop" THEN Left(Eval(s.arguments[1], st), "stop")
              ELSE IF s.function = "output"
              THEN Exec(newPrint(s.arguments), st)
              ELSE Eval(s, st)
=============================================================================
