------------------------------ MODULE Verifier ------------------------------
(***************************************************************************)
(* What the machine relies on and never looks at: it takes words off a     *)
(* stack, jumps and returns without a test. Verified(im) are conditions on *)
(* the code of a program, each on one instruction and the ones it leads to,*)
(* under which it need not look (the theorems of FramesProofs). They are   *)
(* stated over a map of the code, as in a byte code verifier: of every     *)
(* instruction that is reached                                             *)
(*   body   where the body begins it belongs to, 0 for the set-up code,    *)
(*   least  how many words of its own frame are on the stack at least,     *)
(*   core   in set-up code coreLoc, when every way to it agrees,           *)
(* and of every body its kind.                                             *)
(***************************************************************************)
EXTENDS ByteCode

Unknown == -1
Reached(im) == DOMAIN im.map.body
OpAt(im, p) == im.code[p].op
BodyAt(im, p) == im.map.body[p]
KindAt(im, p) == im.map.kind[BodyAt(im, p)]
Least(im, p) == im.map.least[p]
Core(im, p) == im.map.core[p]

Behind(im, p) == p + Read(im.code[p])
Operations == {"ADD", "SUB", "MUL", "DIV", "MOD", "EQ", "NE", "LE", "GE", "LT", "GT", "AND", "OR",
               "BAND", "BOR", "LSH", "RSH"}

(* The words an instruction takes off the stack and leaves on it, and the  *)
(* instructions of its own body it leads to.                               *)
Takes(i) ==
  CASE i.op = "calc" -> 2
    [] i.op \in {"DEFINE", "DEFINE_L", "DEFINE_G", "PRINT", "JUMPF", "RET"} -> 1
    [] i.op = "CALL" -> i.a
    [] i.op = "CALL_P" -> i.c
    [] OTHER -> 0
Gives(i) ==
  CASE i.op \in {"load", "calc", "GET", "GET_L", "GET_G", "CALL"} -> 1
    [] i.op = "MSUB" -> i.a
    [] OTHER -> 0
Successors(im, p) ==
  LET i == im.code[p]
      q == Behind(im, p)
  IN  CASE i.op = "JUMP" -> {q + i.a}
        [] i.op = "JUMPF" -> {q, q + i.a}
        [] i.op = "COPYCORE" -> {q, q + i.b}
        [] i.op \in {"RET", "EOA", "EOE", "MPOP", "TRANS", "GLOBAL", "GLOBAL_END", "STARTIMP", "HALT"} -> {}
        [] OTHER -> {q}

(* The target of a CALL: a body that begins with MSUB, of one of the kinds.*)
Target(im, p) == Behind(im, p) + im.code[p].b
Calls(im, p, kinds) ==
  LET to == Target(im, p)
  IN  /\ to \in Reached(im) /\ OpAt(im, to) = "MSUB"
      /\ BodyAt(im, to) = to /\ KindAt(im, to) \in kinds

(* A body begins at p that a thread starts in without a call.              *)
Starts(im, p, kind) ==
  /\ p \in Reached(im) /\ OpAt(im, p) \notin {"MSUB", "EOE"}
  /\ BodyAt(im, p) = p /\ KindAt(im, p) = kind /\ Least(im, p) = 0

(* p is set-up code, which is the body at 0, to be reached with coreLoc c. *)
SetsUp(im, p, c) ==
  p \in Reached(im) /\ BodyAt(im, p) = 0 /\ Core(im, p) \in {Unknown, c}

----------------------------------------------------------------------------
(* An instruction of main_execute(). *)
MainVerified(im, p) ==
  LET i == im.code[p]
      q == Behind(im, p)
  IN  /\ i.op \in {"MSET", "GET_G", "DEFINE_L", "SETCORE"} => i.a \in Nat
      /\ i.op = "load" => i.a \in Int
      /\ i.op = "CALL" => Calls(im, p, {"advice"}) /\ i.a = 0 /\ Least(im, p) = 0
      /\ i.op = "GLOBAL" => Starts(im, q, "global")
      /\ i.op = "ENTRY" => Starts(im, q + i.a, "handler")
      /\ i.op = "SETTHREAD" =>
           Core(im, p) # Unknown /\ Starts(im, Core(im, p) + i.a, "handler")
      /\ \A s \in Successors(im, p) :
           SetsUp(im, s, IF i.op = "MKCORE" /\ i.a # 0 THEN q ELSE Core(im, p))

(* An instruction of sub_execute(). Control stays in the body, which is    *)
(* entered through MSUB alone and left by its own instruction; what is     *)
(* taken lies in the frame; arguments that are picked have been passed.    *)
Continues(im, p, q, height) ==
  /\ q \in Reached(im) /\ OpAt(im, q) \notin {"MSUB", "EOE"}
  /\ BodyAt(im, q) = BodyAt(im, p) /\ Least(im, q) <= height
OperandsFit(i) ==
  /\ i.op = "load" => i.a \in Int
  /\ i.op = "calc" => i.f \in Operations
  /\ i.op \in {"GET", "GET_L", "GET_G", "DEFINE", "DEFINE_L", "DEFINE_G", "CALL", "MSUB", "MPICK"} =>
       i.a \in Nat
  /\ i.op = "MPICK" => i.b \in Nat
  /\ i.op = "CALL_P" => i.c \in Nat \ {0}
PicksWhatIsPassed(im, p) ==
  \A m \in Reached(im) : BodyAt(im, m) = Target(im, p) /\ OpAt(im, m) = "MPICK" =>
    im.code[m].a >= 3 /\ im.code[m].a <= 2 + im.code[p].a
SubVerified(im, p) ==
  LET i == im.code[p]
      q == Behind(im, p)
      kind == KindAt(im, p)
  IN  /\ OperandsFit(i) /\ Least(im, p) >= Takes(i)
      /\ \A s \in Successors(im, p) :
           Continues(im, p, s, Least(im, p) - Takes(i) + Gives(i))
      /\ i.op = "CALL" =>
           /\ Calls(im, p, {"function", "advice"}) /\ PicksWhatIsPassed(im, p)
           /\ KindAt(im, Target(im, p)) = "advice" => i.a = 0
      /\ i.op = "MSUB" => BodyAt(im, p) = p /\ Least(im, p) = 0
      /\ i.op \in {"MPICK", "RET"} => kind = "function"
      /\ i.op = "EOA" => kind = "advice"
      /\ i.op \in {"MPOP", "EOE"} => kind = "handler"
      /\ i.op = "MPOP" => /\ q \in Reached(im) /\ OpAt(im, q) = "EOE"
                          /\ BodyAt(im, q) = BodyAt(im, p)
      /\ i.op = "GLOBAL_END" => SetsUp(im, q, Unknown)
      /\ i.op = "TRANS" =>
           SetsUp(im, p + 1 + INT + i.a, Unknown) /\ p + 1 \notin DOMAIN im.code

Verified(im) ==
  /\ DOMAIN im.code \subseteq Nat /\ Reached(im) \subseteq DOMAIN im.code
  /\ SetsUp(im, 0, 0) /\ KindAt(im, 0) = "main" /\ OpAt(im, 0) = "MSET"
  /\ \A p \in Reached(im) :
       /\ BodyAt(im, p) \in Reached(im) /\ BodyAt(im, BodyAt(im, p)) = BodyAt(im, p)
       /\ Least(im, p) \in Nat
       /\ IF KindAt(im, p) = "main" THEN MainVerified(im, p) ELSE SubVerified(im, p)
=============================================================================
