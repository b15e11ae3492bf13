----------------------------- MODULE StackMaps -----------------------------
(***************************************************************************)
(* The map of a code that Verifier asks for, found by following the code   *)
(* from its first byte: what is known of an instruction goes on to those   *)
(* it leads to, until nothing changes.                                     *)
(***************************************************************************)
EXTENDS Verifier, FiniteSetsExt, TLC

Fact(p, body, kind, least, core) ==
  [at |-> p, body |-> body, kind |-> kind, least |-> least, core |-> core]

(* A function is what ends with RET before an advice's EOA comes.          *)
KindOf(code, p) ==
  LET ends == {e \in DOMAIN code : e >= p /\ code[e].op \in {"RET", "EOA"}}
  IN  IF ends # {} /\ code[Min(ends)].op = "RET" THEN "function" ELSE "advice"

(* What instruction p tells of others. *)
Tells(im, p) ==
  LET i == im.code[p]
      q == Behind(im, p)
      kind == KindAt(im, p)
      height == IF kind = "main" THEN 0
                ELSE Max({0, Least(im, p) - Takes(i) + Gives(i)})
      core == IF i.op = "MKCORE" /\ i.a # 0 THEN q ELSE Core(im, p)
      body(b, k) == Fact(b, b, k, 0, Unknown)
  IN  {Fact(s, BodyAt(im, p), kind, height, core) : s \in Successors(im, p)}
        \cup (CASE i.op = "CALL" -> {body(Target(im, p), KindOf(im.code, Target(im, p)))}
                [] i.op = "GLOBAL" -> {body(q, "global")}
                [] i.op = "ENTRY" -> {body(q + i.a, "handler")}
                [] i.op = "SETTHREAD" -> {body(core + i.a, "handler")}
                [] i.op = "MPOP" -> {Fact(q, BodyAt(im, p), kind, 0, Unknown)}
                [] i.op = "GLOBAL_END" -> {Fact(q, 0, "main", 0, Unknown)}
                [] i.op = "TRANS" -> {Fact(p + 1 + INT + i.a, 0, "main", 0, Unknown)}
                [] OTHER -> {})

(* Two ways to one instruction. *)
Both(map, f) ==
  IF f.at \notin DOMAIN map.body
  THEN [body |-> (f.at :> f.body) @@ map.body, least |-> (f.at :> f.least) @@ map.least,
        core |-> (f.at :> f.core) @@ map.core, kind |-> (f.body :> f.kind) @@ map.kind]
  ELSE [map EXCEPT !.least[f.at] = Min({@, f.least}),
                   !.core[f.at] = IF @ = f.core THEN @ ELSE Unknown]
Learned(map, facts) == FoldSet(LAMBDA f, m : Both(m, f), map, facts)

Start == [body |-> (0 :> 0), least |-> (0 :> 0), core |-> (0 :> Unknown), kind |-> (0 :> "main")]

(* One round: the news are passed on. *)
Followed(code, st) ==
  LET im == [code |-> code, map |-> st.map]
      told == {f \in UNION {Tells(im, p) : p \in st.news} : f.at \in DOMAIN code}
      map == Learned(st.map, told)
  IN  [map |-> map,
       news |-> {p \in {f.at : f \in told} :
                   \/ p \notin DOMAIN st.map.body
                   \/ map.least[p] # st.map.least[p] \/ map.core[p] # st.map.core[p]}]

(* Ten rounds at a time: as many as there are instructions, four times.    *)
StackMap(code) ==
  LET ten(st) ==
        LET round[n \in 0 .. 10] == IF n = 0 THEN st ELSE Followed(code, round[n - 1])
        IN  round[10]
      tens[n \in Nat] ==
        IF n = 0 THEN [map |-> Start, news |-> {0}]
        ELSE LET before == tens[n - 1]
             IN  IF before.news = {} THEN before ELSE ten(before)
  IN  tens[(4 * Cardinality(DOMAIN code)) \div 10 + 1].map
=============================================================================
