---------------------------- MODULE Interpreter ----------------------------
(***************************************************************************)
(* The virtual machine (executor/run.c): main_execute() runs a program's   *)
(* set-up code and, in STARTIMP, the main loop of a state; sub_execute()   *)
(* runs the code of a handler, of a function or of an advice on the stack  *)
(* of its thread until the thread yields. A step is one instruction. Which *)
(* events happen when is Dispatch's subject and which cores a state shares *)
(* with the next is CoreTable's; here every handler is a loop() handler,   *)
(* which its event function posts whenever it is idle, and the machine     *)
(* itself is complete: frames, arguments, variables, jumps and the order   *)
(* in which threads take turns.                                            *)
(*                                                                         *)
(* Numbers of all widths are the one kind "int" here.                      *)
(***************************************************************************)
EXTENDS ByteCode, FiniteSets

CONSTANTS
  Images,         \* the programs considered: of each the code by byte positions
  MAXTHREADSIZE,  \* words of the core table, between globals and state variables
  Half,           \* half the values of an int: 2 ^ 31
  Garbage         \* what a pointer may be when it is taken for a number

Ints == -Half .. Half - 1
ASSUME TableAssumption == MAXTHREADSIZE \in Nat
ASSUME WidthAssumption == Half \in Nat \ {0}
ASSUME GarbageAssumption == Garbage \subseteq Ints

Wrap(n) == ((n + Half) % (2 * Half)) - Half

Value(kind, n) == [kind |-> kind, n |-> n]
\* A slip: a number of any width.
WideInteger(n) == Value("int", n)
_newInteger(n) == Value("int", Wrap(n))
new_Basepoint(n) == Value("bp", n)
address(n) == Value("int", n)     \* a position or a count: it does not wrap
nil == Value("nil", 0)
_Integer_value(v) == IF v.kind = "int" THEN {v.n} ELSE Garbage

(* Array_push, Array_pop, Array_get and Array_put of executor/object.c:    *)
(* places count from 0, an array grows by nils, behind its end it is nil.  *)
Array_get(a, i) == IF i \in 0 .. Len(a) - 1 THEN a[i + 1] ELSE nil
Array_put(a, i, x) ==
  [j \in 1 .. (IF i < Len(a) THEN Len(a) ELSE i + 1) |->
     CASE j = i + 1 -> x [] j # i + 1 /\ j <= Len(a) -> a[j] [] OTHER -> nil]
Top(a) == a[Len(a)]
Array_pop(a, n) == SubSeq(a, 1, Len(a) - n)
Nils(n) == [j \in 1 .. n |-> nil]

----------------------------------------------------------------------------
VARIABLES
  image,      \* the program that is loaded
  pc, stack, coreLoc,   \* main_execute's
  doing,      \* what main_execute is in: "set-up", CALL, GLOBAL, ENTRY, STARTIMP
  GM, gmRbp,            \* globals, core table, state variables
  threads,    \* 0: the thread of CALL, GLOBAL and ENTRY; from 1: the handlers
  process,    \* the thread sub_execute runs, or main
  turn,       \* the handler whose turn it is
  output      \* what each thread printed since its handler began

vars == <<image, pc, stack, coreLoc, doing, GM, gmRbp, threads, process, turn, output>>
Main == <<pc, stack, coreLoc, doing>>
Memory == <<GM, gmRbp>>

MAIN == -1
ENDED == -2
Handlers == DOMAIN threads \ {0}

newThread(at, elements) == [pc |-> at, base |-> at, rbp |-> 1, flag |-> 0, stack |-> elements]
OnlyThread(x) == [i \in {0} |-> x]
WithThread(f, i, x) == [j \in DOMAIN f \cup {i} |-> IF j = i THEN x ELSE f[j]]

Init ==
  /\ image \in Images
  /\ pc = 0 /\ stack = <<>> /\ coreLoc = 0 /\ doing = "set-up"
  /\ GM = <<>> /\ gmRbp = 0
  /\ threads = OnlyThread(newThread(0, <<>>))
  /\ process = MAIN /\ turn = 1 /\ output = OnlyThread(<<>>)

----------------------------------------------------------------------------
(* main_execute *)
code == image.code
At(position, op) ==
  position \in DOMAIN code /\ code[position].op = op
MainAt(op) == process = MAIN /\ doing = "set-up" /\ At(pc, op)
Inst == code[pc]
Onward == pc + Read(Inst)

MSet ==
  /\ MainAt("MSET")
  /\ gmRbp' = Inst.a
  /\ GM' = GM \o Nils(Inst.a) \o Nils(Inst.a + MAXTHREADSIZE)
  /\ pc' = Onward
  /\ UNCHANGED <<image, stack, coreLoc, doing, threads, process, turn, output>>

MainPushes(v) ==
  /\ stack' = Append(stack, v)
  /\ pc' = Onward
  /\ UNCHANGED <<image, coreLoc, doing, Memory, threads, process, turn, output>>
MainLoad == MainAt("load") /\ MainPushes(_newInteger(Inst.a))
MainGetG == MainAt("GET_G") /\ MainPushes(Array_get(GM, Inst.a))

MainJump ==
  /\ MainAt("JUMP")
  /\ pc' = Onward + Inst.a
  /\ UNCHANGED <<image, stack, coreLoc, doing, Memory, threads, process, turn, output>>

(* A thread of its own until sub_execute answers with the flag it waits for. *)
Enter(op, at, elements) ==
  /\ threads' = [threads EXCEPT ![0] = newThread(at, elements)]
  /\ process' = 0 /\ doing' = op /\ pc' = Onward
  /\ output' = [output EXCEPT ![0] = <<>>]
  /\ UNCHANGED <<image, stack, coreLoc, Memory, turn>>
MainCall ==
  /\ MainAt("CALL")
  /\ Enter("CALL", Onward + Inst.b,
           <<new_Basepoint(0), address(Inst.a), address(Onward)>>)
MainGlobal == MainAt("GLOBAL") /\ Enter("GLOBAL", Onward, <<>>)
MainEntry == MainAt("ENTRY") /\ Enter("ENTRY", Onward + Inst.a, <<new_Basepoint(0)>>)

MainDefineL ==
  /\ MainAt("DEFINE_L") /\ stack # <<>>
  /\ GM' = Array_put(GM, gmRbp + Inst.a, Top(stack))
  /\ stack' = Array_pop(stack, 1)
  /\ pc' = Onward
  /\ UNCHANGED <<image, coreLoc, doing, gmRbp, threads, process, turn, output>>

(* MKCORE: what lies behind the core table is cut off.                     *)
CutOff == SubSeq(GM, 1, gmRbp + MAXTHREADSIZE)
MkCore ==
  /\ MainAt("MKCORE")
  /\ pc' = Onward
  /\ IF Inst.a = 0 THEN UNCHANGED <<coreLoc, GM>>
     ELSE coreLoc' = Onward /\ GM' = CutOff
  /\ UNCHANGED <<image, stack, doing, gmRbp, threads, process, turn, output>>

(* COPYCORE goes on or, if the core is there already, jumps over the set-up*)
(* of its event function; SETCORE takes the function's values.             *)
CopyCore ==
  /\ MainAt("COPYCORE")
  /\ pc' \in {Onward, Onward + Inst.b}
  /\ UNCHANGED <<image, stack, coreLoc, doing, Memory, threads, process, turn, output>>
SetCore ==
  /\ MainAt("SETCORE") /\ Len(stack) >= Inst.a
  /\ stack' = Array_pop(stack, Inst.a)
  /\ pc' = Onward
  /\ UNCHANGED <<image, coreLoc, doing, Memory, threads, process, turn, output>>
MkThread ==
  /\ MainAt("MKTHREAD")
  /\ pc' = Onward
  /\ UNCHANGED <<image, stack, coreLoc, doing, Memory, threads, process, turn, output>>
SetThread ==
  /\ MainAt("SETTHREAD")
  /\ LET new == Cardinality(DOMAIN threads)
     IN  /\ threads' = WithThread(threads, new, newThread(coreLoc + Inst.a, <<>>))
         /\ output' = WithThread(output, new, <<>>)
  /\ pc' = Onward
  /\ UNCHANGED <<image, stack, coreLoc, doing, Memory, process, turn>>

StartImp ==
  /\ MainAt("STARTIMP")
  /\ doing' = "STARTIMP" /\ turn' = 1 /\ pc' = Onward
  /\ UNCHANGED <<image, stack, coreLoc, Memory, threads, process, output>>

Halt ==
  /\ MainAt("HALT")
  /\ process' = ENDED
  /\ UNCHANGED <<image, Main, Memory, threads, turn, output>>

----------------------------------------------------------------------------
(* STARTIMP: a running handler goes on; an idle one, whose event the event *)
(* function has just posted, gets its frame: a base point and the datum.   *)
Turn == process = MAIN /\ doing = "STARTIMP" /\ turn \in Handlers
NextTurn == IF turn + 1 \in Handlers THEN turn + 1 ELSE 1

Resume ==
  /\ Turn /\ threads[turn].flag = 1
  /\ process' = turn
  /\ UNCHANGED <<image, Main, Memory, threads, turn, output>>

Dequeue ==
  /\ Turn /\ threads[turn].flag = 0
  /\ threads' = [threads EXCEPT ![turn].flag = 1,
                   ![turn].stack = @ \o <<new_Basepoint(1), _newInteger(1)>>]
  /\ output' = [output EXCEPT ![turn] = <<>>]
  /\ turn' = NextTurn
  /\ UNCHANGED <<image, Main, Memory, process>>

----------------------------------------------------------------------------
(* sub_execute *)
this == threads[process]
mstack == this.stack
SubAt(op) == process >= 0 /\ At(this.pc, op)
inst == code[this.pc]
onward == this.pc + Read(inst)

(* The thread goes on to the next instruction of its slice ...             *)
Becomes(t) ==
  /\ threads' = [threads EXCEPT ![process] = t]
  /\ UNCHANGED <<image, Main, process, turn>>
Continue(elements) == Becomes([this EXCEPT !.pc = onward, !.stack = elements])

(* ... or returns F_NONE: main_execute calls it again at once, and the main*)
(* loop turns to the next handler.                                         *)
\* A slip: the handler that yields keeps its turn.
KeepsTurn ==
  IF doing = "STARTIMP" THEN process' = MAIN /\ UNCHANGED turn
  ELSE UNCHANGED <<process, turn>>
Yields ==
  IF doing = "STARTIMP" THEN process' = MAIN /\ turn' = NextTurn
  ELSE UNCHANGED <<process, turn>>
Yield(t) ==
  /\ threads' = [threads EXCEPT ![process] = t]
  /\ Yields
  /\ UNCHANGED <<image, Main>>
YieldAt(position, elements) ==
  Yield([this EXCEPT !.pc = position, !.stack = elements])

SubLoad ==
  /\ SubAt("load")
  /\ Continue(Append(mstack, _newInteger(inst.a)))
  /\ UNCHANGED <<Memory, output>>

(* An operation on the two topmost values. i_GT compares with >, l_GT and  *)
(* f_GT with <.                                                            *)
Truth(b) == IF b THEN 1 ELSE 0
Abs(n) == IF n < 0 THEN -n ELSE n
Quot(l, r) == LET q == Abs(l) \div Abs(r) IN IF (l < 0) = (r < 0) THEN q ELSE -q
Holds(type, f, l, r) ==
  \/ f = "EQ" /\ l = r
  \/ f = "NE" /\ l # r
  \/ f = "LE" /\ l <= r
  \/ f = "GE" /\ l >= r
  \/ (f = "LT" \/ (f = "GT" /\ type \in {"_Long", "_Float"})) /\ l < r
  \/ f = "GT" /\ type \notin {"_Long", "_Float"} /\ l > r
  \/ f = "AND" /\ l # 0 /\ r # 0
  \/ f = "OR" /\ (l # 0 \/ r # 0)

(* Bits by their places in two's complement. A shift by less than nothing  *)
(* or by a whole int is undefined: a processor shifts by some of the count *)
(* or shifts everything out.                                               *)
BitPlaces == {i \in 0 .. Half - 1 : 2 ^ i <= Half}
Ones(n) == {i \in BitPlaces : (n \div 2 ^ i) % 2 = 1}
Shifts(r) == IF r \in BitPlaces THEN {r} ELSE BitPlaces \cup {Cardinality(BitPlaces)}
BitOperations == {"BAND", "BOR", "LSH", "RSH"}
bits(f, l, r) ==
  {n \in Ints :
     \/ f = "BAND" /\ Ones(n) = Ones(l) \cap Ones(r)
     \/ f = "BOR" /\ Ones(n) = Ones(l) \cup Ones(r)
     \/ f = "LSH" /\ \E k \in Shifts(r) : n = Wrap(l * 2 ^ k)
     \/ f = "RSH" /\ \E k \in Shifts(r) : n = l \div 2 ^ k}

(* The results an operation may have, and the divisions undefined in C: by *)
(* zero the program is killed, a quotient that is no int may kill it.      *)
Divides(f) == f \in {"DIV", "MOD"}
calc(type, f, l, r) ==
  CASE f = "ADD" -> {l + r}
    [] f = "SUB" -> {l - r}
    [] f = "MUL" -> {l * r}
    [] Divides(f) /\ r = 0 -> {}
    [] f = "DIV" /\ r # 0 -> {Quot(l, r)}
    [] f = "MOD" /\ r # 0 -> {l - r * Quot(l, r)}
    [] f \in BitOperations -> bits(f, l, r)
    [] OTHER -> {Truth(Holds(type, f, l, r))}
Kills(f, l, r) == Divides(f) /\ (r = 0 \/ (l = -Half /\ r = -1))
SubCalc ==
  /\ SubAt("calc") /\ Len(mstack) >= 2
  /\ \E r \in _Integer_value(Top(mstack)), l \in _Integer_value(Top(Array_pop(mstack, 1))) :
       \/ \E n \in calc(inst.type, inst.f, l, r) :
            Continue(Append(Array_pop(mstack, 2), _newInteger(n)))
       \/ /\ Kills(inst.f, l, r)
          /\ process' = ENDED /\ UNCHANGED <<image, Main, threads, turn>>
  /\ UNCHANGED <<Memory, output>>

(* CALL: the number of arguments and the way back; then a slice ends.      *)
SubCall ==
  /\ SubAt("CALL")
  /\ YieldAt(onward + inst.b, mstack \o <<address(inst.a), address(onward)>>)
  /\ UNCHANGED <<Memory, output>>

(* MSUB: the base of the frame below, and room for the variables.          *)
SubMSub ==
  /\ SubAt("MSUB")
  /\ Becomes([this EXCEPT !.pc = onward, !.rbp = Len(mstack) + 1,
                          !.stack = @ \o <<new_Basepoint(this.rbp)>> \o Nils(inst.a)])
  /\ UNCHANGED <<Memory, output>>
\* A slip: the places of the argument and of the variable are swapped.
PickSwapped ==
  /\ SubAt("MPICK")
  /\ Continue(Array_put(mstack, this.rbp - inst.a - 1,
                        Array_get(mstack, this.rbp + inst.b)))
  /\ UNCHANGED <<Memory, output>>
SubMPick ==
  /\ SubAt("MPICK")
  /\ Continue(Array_put(mstack, this.rbp + inst.b,
                        Array_get(mstack, this.rbp - inst.a - 1)))
  /\ UNCHANGED <<Memory, output>>

(* The frame of the running function, handler or advice: its base point is *)
(* the topmost one.                                                        *)
HasBasePoint(a) == \E j \in DOMAIN a : a[j].kind = "bp"
BasePoint(a) ==
  CHOOSE j \in DOMAIN a : /\ a[j].kind = "bp"
                          /\ \A k \in j + 1 .. Len(a) : a[k].kind # "bp"
Below(a) == SubSeq(a, 1, BasePoint(a) - 1)

(* RET: the frame, the way back and the arguments go, the value stays.     *)
\* A slip: the base point of the caller is not taken back.
RetInPlace ==
  /\ SubAt("RET") /\ mstack # <<>>
  /\ LET value == Top(mstack)
         caller == Below(Array_pop(mstack, 1))
     IN  \E to \in _Integer_value(Top(caller)) :
           YieldAt(to, Append(Array_pop(caller, 2), value))
  /\ UNCHANGED <<Memory, output>>
\* A slip: a call's value is taken away with the frame.
RetWithoutValue ==
  /\ SubAt("RET") /\ mstack # <<>> /\ HasBasePoint(mstack) /\ Len(Below(mstack)) >= 2
  /\ LET caller == Below(mstack)
         below == mstack[BasePoint(mstack)].n
     IN  \E to \in _Integer_value(Top(caller)), num_arg \in _Integer_value(Top(Array_pop(caller, 1))) :
           /\ Len(caller) >= 2 + num_arg
           /\ Yield([this EXCEPT !.pc = to, !.rbp = below, !.stack = Array_pop(caller, 2 + num_arg)])
  /\ UNCHANGED <<Memory, output>>
SubRet ==
  /\ SubAt("RET") /\ mstack # <<>>
  /\ LET value == Top(mstack)
         frame == Array_pop(mstack, 1)
         caller == Below(frame)
     IN  /\ HasBasePoint(frame) /\ Len(caller) >= 2
         /\ \E to \in _Integer_value(Top(caller)),
               num_arg \in _Integer_value(Top(Array_pop(caller, 1))) :
              /\ Len(caller) >= 2 + num_arg
              /\ Yield([this EXCEPT !.pc = to, !.rbp = frame[BasePoint(frame)].n,
                          !.stack = Append(Array_pop(caller, 2 + num_arg), value)])
  /\ UNCHANGED <<Memory, output>>

SubMPop ==
  /\ SubAt("MPOP") /\ HasBasePoint(mstack)
  /\ Becomes([this EXCEPT !.pc = onward, !.rbp = mstack[BasePoint(mstack)].n,
                          !.stack = Below(mstack)])
  /\ UNCHANGED <<Memory, output>>

SubGet ==
  /\ SubAt("GET")
  /\ Continue(Append(mstack, Array_get(mstack, this.rbp + inst.a)))
  /\ UNCHANGED <<Memory, output>>
SubGetL ==
  /\ SubAt("GET_L")
  /\ Continue(Append(mstack, Array_get(GM, gmRbp + inst.a)))
  /\ UNCHANGED <<Memory, output>>
\* A slip: a slice ends when a global variable is read.
GetGAndYield ==
  /\ SubAt("GET_G")
  /\ YieldAt(onward, Append(mstack, Array_get(GM, inst.a)))
  /\ UNCHANGED <<Memory, output>>
SubGetG ==
  /\ SubAt("GET_G")
  /\ Continue(Append(mstack, Array_get(GM, inst.a)))
  /\ UNCHANGED <<Memory, output>>

SubDefine ==
  /\ SubAt("DEFINE") /\ mstack # <<>>
  /\ Continue(Array_put(Array_pop(mstack, 1), this.rbp + inst.a, Top(mstack)))
  /\ UNCHANGED <<Memory, output>>
Store(place) ==
  /\ mstack # <<>>
  /\ GM' = Array_put(GM, place, Top(mstack))
  /\ Continue(Array_pop(mstack, 1))
  /\ UNCHANGED <<gmRbp, output>>
SubDefineL == SubAt("DEFINE_L") /\ Store(gmRbp + inst.a)
SubDefineG == SubAt("DEFINE_G") /\ Store(inst.a)

SubJump ==
  /\ SubAt("JUMP")
  /\ YieldAt(onward + inst.a, mstack)
  /\ UNCHANGED <<Memory, output>>
SubJumpF ==
  /\ SubAt("JUMPF") /\ mstack # <<>>
  /\ \E cond \in _Integer_value(Top(mstack)) :
       YieldAt(IF cond = 0 THEN onward + inst.a ELSE onward, Array_pop(mstack, 1))
  /\ UNCHANGED <<Memory, output>>

Prints(n) == output' = [output EXCEPT ![process] = Append(@, n)]
SubPrint ==
  /\ SubAt("PRINT") /\ mstack # <<>>
  /\ \E n \in _Integer_value(Top(mstack)) : Prints(n)
  /\ Continue(Array_pop(mstack, 1))
  /\ UNCHANGED Memory

EXIT_P == 3   \* liblist/stdlib.h

(* CALL_P: stop(n) ends the program; output(n) prints and yields.          *)
SubCallP ==
  /\ SubAt("CALL_P") /\ Len(mstack) >= inst.c
  /\ IF inst.b = EXIT_P
     THEN process' = ENDED /\ UNCHANGED <<image, Main, threads, turn, output>>
     ELSE /\ \E n \in _Integer_value(Top(mstack)) : Prints(n)
          /\ YieldAt(onward, Array_pop(mstack, inst.c))
  /\ UNCHANGED Memory

----------------------------------------------------------------------------
(* The flags main_execute waits for.                                       *)
Leave(at) == process' = MAIN /\ doing' = "set-up" /\ pc' = at

(* GLOBAL_END answers F_EOE: main_execute goes on behind it.               *)
GlobalEnd ==
  /\ SubAt("GLOBAL_END") /\ doing = "GLOBAL"
  /\ Leave(onward)
  /\ UNCHANGED <<image, stack, coreLoc, Memory, threads, turn, output>>

(* EOE: entry() is over, or the handler is idle again at its first         *)
(* instruction.                                                            *)
EndOfEvent ==
  /\ SubAt("EOE") /\ doing \in {"ENTRY", "STARTIMP"}
  /\ IF doing = "ENTRY" THEN Leave(pc) /\ UNCHANGED <<stack, coreLoc, threads, turn>>
     ELSE /\ threads' = [threads EXCEPT ![process].flag = 0, ![process].pc = this.base]
          /\ Yields /\ UNCHANGED Main
  /\ UNCHANGED <<image, Memory, output>>

(* EOA drops the frame and the way back and leaves the number of arguments *)
(* behind; only main_execute's own CALL ends with it.                      *)
EndOfAdvice ==
  /\ SubAt("EOA") /\ HasBasePoint(mstack) /\ Below(mstack) # <<>>
  /\ \E to \in _Integer_value(Top(Below(mstack))) :
       threads' = [threads EXCEPT ![process].pc = to,
                     ![process].rbp = mstack[BasePoint(mstack)].n,
                     ![process].stack = Array_pop(Below(mstack), 1)]
  /\ IF doing = "CALL" THEN Leave(pc) /\ UNCHANGED <<stack, coreLoc, turn>>
     ELSE Yields /\ UNCHANGED Main
  /\ UNCHANGED <<image, Memory, output>>

(* TRANS: the handlers of the state are gone and the next one is set up;   *)
(* CALL and GLOBAL do not know the flag and call sub_execute again, behind *)
(* the instruction but in front of its operands.                           *)
Transition ==
  /\ SubAt("TRANS")
  /\ IF doing \in {"ENTRY", "STARTIMP"}
     THEN /\ Leave(this.pc + 1 + INT + inst.a)
          /\ threads' = OnlyThread(newThread(0, <<>>)) /\ output' = OnlyThread(<<>>) /\ turn' = 1
          /\ GM' = CutOff
          /\ UNCHANGED <<stack, coreLoc>>
     ELSE /\ threads' = [threads EXCEPT ![process].pc = @ + 1]
          /\ UNCHANGED <<Main, process, turn, GM, output>>
  /\ UNCHANGED <<image, gmRbp>>

main_execute ==
  \/ MSet \/ MainLoad \/ MainGetG \/ MainJump \/ MainCall \/ MainGlobal \/ MainEntry
  \/ MainDefineL \/ MkCore \/ CopyCore \/ SetCore \/ MkThread \/ SetThread
  \/ StartImp \/ Halt \/ Resume \/ Dequeue
sub_execute ==
  \/ SubLoad \/ SubCalc \/ SubCall \/ SubCallP \/ SubMSub \/ SubMPick \/ SubRet \/ SubMPop
  \/ SubGet \/ SubGetL \/ SubGetG \/ SubDefine \/ SubDefineL \/ SubDefineG
  \/ SubJump \/ SubJumpF \/ SubPrint
  \/ GlobalEnd \/ EndOfEvent \/ EndOfAdvice \/ Transition

Next == main_execute \/ sub_execute
Spec == Init /\ [][Next]_vars
FairSpec == Spec /\ WF_vars(Next)
=============================================================================
