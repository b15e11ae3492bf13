------------------------------ MODULE Machine ------------------------------
(***************************************************************************)
(* The compiler and the virtual machine together: the machine runs what    *)
(* compile() makes of a program, and what a handler prints and stores is   *)
(* compared with what its source says (Meaning).                           *)
(***************************************************************************)
EXTENDS Frames, StackMaps, SyntaxTree, Functions

CONSTANTS
  Programs,       \* a set of programs, each a sequence of definitions
  EventFuncs, Primitives, Bits,
  Rounds          \* bound: how long the reference follows a loop

C == INSTANCE Compiler
Source == INSTANCE Meaning

(* What CodeWrite leaves in the file: where each instruction begins.       *)
Layout(instructions) ==
  LET written[n \in 0 .. Len(instructions)] ==
        IF n = 0 THEN 0 ELSE written[n - 1] + Written(instructions[n])
      begins == [n \in DOMAIN instructions |-> written[n - 1]]
  IN  << >> @@ [position \in Range(begins) |->
         instructions[CHOOSE n \in DOMAIN begins : begins[n] = position]]

ImageOf(trees) ==
  LET p == C!program(trees)
      code_ == Layout(p.code)
  IN  [code |-> code_, map |-> StackMap(code_), env |-> p.env, accepted |-> C!Accepted(p)]
CompiledPrograms == {i \in {ImageOf(trees) : trees \in Programs} : i.accepted}

----------------------------------------------------------------------------
(* History: the memory a thread's handler began with, and whether no other *)
(* thread has stored in it since.                                          *)
VARIABLE begun
mvars == <<vars, begun>>

Begins(i) ==
  \/ i \notin DOMAIN threads
  \/ threads[i].flag = 0 /\ threads'[i].flag = 1
  \/ i = 0 /\ process # 0 /\ process' = 0
Recorded ==
  begun' = [i \in DOMAIN threads' |->
    IF Begins(i) THEN [GM |-> GM', alone |-> TRUE]
    ELSE [begun[i] EXCEPT !.alone = @ /\ (GM' = GM \/ process = i)]]

MInit == Init /\ begun = OnlyThread([GM |-> <<>>, alone |-> TRUE])
MNext == Next /\ Recorded
MSpec == MInit /\ [][MNext]_mvars /\ WF_mvars(MNext)

----------------------------------------------------------------------------
(* The machine and the source. *)
Env == image.env

(* The variables of a table by their names, those that hold a number.      *)
ByName(table, at(_)) ==
  LET known == {n \in DOMAIN table : at(table[n].index).kind = "int"}
  IN  [x \in {table[n].symbol : n \in known} |->
         at((CHOOSE a \in Range(table) : a.symbol = x).index).n]
Globals(memory) == ByName(Env.G, LAMBDA i : Array_get(memory, i))
Locals(table, memory) ==
  ByName(table, LAMBDA i : Array_get(memory, gmRbp + MAXTHREADSIZE + i))
Shared(table, memory) == Globals(memory) @@ Locals(table, memory)
Own(table, t) == ByName(table, LAMBDA i : Array_get(t.stack, t.rbp + i))

Names(table) == {table[n].symbol : n \in DOMAIN table}
Scope(d) == [body |-> d.body, sees |-> Names(d.sees)]
SourceFunctions == [f \in DOMAIN Env.functions |-> Scope(Env.functions[f])]
(* What is advised when a state is left for another one.                   *)
SourceAdvices(from) ==
  [to \in DOMAIN Env.index |->
     LET behind == SelectSeq(Env.aspects, LAMBDA a : a.from = from /\ a.to = "*")
         between == SelectSeq(Env.aspects, LAMBDA a : a.from = from /\ a.to = to)
     IN  [n \in DOMAIN (behind \o between) |-> Scope((behind \o between)[n])]]

Said(h, memory) ==
  Source!Exec(h.body,
    Source!Running(Shared(h.vars, memory), SourceFunctions, SourceAdvices(h.id)))
Follows(said, h) ==
  LET now == Shared(h.vars, GM')
  IN  /\ output[process] = said.out
      /\ \A x \in DOMAIN said.mem : x \in DOMAIN now /\ now[x] = said.mem[x]
      /\ \/ said.status = "ok" /\ EndOfEvent
         \/ said.status = "stop" /\ process' = ENDED
         \/ said.status = "trans" /\ pc' = Env.index[said.to]
Leaving ==
  \/ EndOfEvent
  \/ SubCallP /\ process' = ENDED
  \/ Transition /\ doing # "CALL"

(* A handler no other thread's store fell into prints, stores and ends as  *)
(* its source says, whatever variables, loops, breaks, functions and       *)
(* advices it is made of and wherever it yielded (compile() and its jump   *)
(* distances, kill_assoc, CodeWrite, sub_execute).                         *)
UndisturbedHandlersFollowSource ==
  [][Leaving /\ begun[process].alone =>
       \A h \in {h \in Env.sources : h.eventLoc = this.base} :
         LET said == Said(h, begun[process].GM)
         IN  said.status # "stuck" => Follows(said, h)]_mvars

(* Every sample of the test directory, which its makefile compiles and runs*)
(* one after the other (test/Makefile:25), is a program the compiler takes.*)
SamplesCompile == image.accepted

(* With handlers taking turns, what an assignment without a call stores is *)
(* the value of its right-hand side at that very moment: a slice ends only *)
(* at calls, returns and jumps, never between a read and the store.        *)
StoresAreCurrent ==
  [][(SubDefineL \/ SubDefineG) /\ doing # "GLOBAL" =>
       LET said == Source!Eval(inst.rhs,
                     Source!Running(Own(inst.sees.vnt, this) @@ Shared(inst.sees.L, GM),
                                    << >>, << >>))
           place == IF inst.op = "DEFINE_G" THEN inst.a ELSE gmRbp + inst.a
       IN  said.status = "ok" => Array_get(GM', place) = _newInteger(said.val)]_mvars

(* A handler without loops and calls ends, even when another one of the    *)
(* state loops for ever: a loop yields at every backward jump.             *)
Body(base) == {p \in DOMAIN code : p >= base /\ \A q \in base .. p - 1 : ~ At(q, "EOE")}
Straight(base) ==
  \A p \in Body(base) : code[p].op # "CALL" /\ (code[p].op = "JUMP" => code[p].a >= 0)
Working(i) == i \in Handlers /\ threads[i].flag = 1 /\ Straight(threads[i].base)
StraightHandlersEnd ==
  \A i \in 1 .. 2 : Working(i) ~> (process = ENDED \/ ~ Working(i))
=============================================================================
