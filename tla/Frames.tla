------------------------------- MODULE Frames -------------------------------
(***************************************************************************)
(* What must be true of the machine's stacks, and the invariant behind it. *)
(***************************************************************************)
EXTENDS Interpreter, Verifier

Numbers == [kind : {"int"}, n : Ints]
Plain == Numbers \cup {nil}     \* what a program computes with
Elements == Numbers \cup [kind : {"int", "bp", "nil"}, n : Nat]
Threads ==
  [pc : Nat, base : Nat, rbp : Nat, flag : {0, 1}, stack : Seq(Elements)]

(* Every number a program computes, stores or prints has the width of an   *)
(* int; only addresses and base points on a stack may be larger.           *)
MachineTypeOK ==
  /\ threads \in [DOMAIN threads -> Threads] /\ 0 \in DOMAIN threads
  /\ \A i \in DOMAIN threads : threads[i].base \in DOMAIN code
  /\ process \in DOMAIN threads \cup {MAIN, ENDED}
  /\ doing \in {"set-up", "CALL", "GLOBAL", "ENTRY", "STARTIMP"}
  /\ turn \in Handlers \cup {1}
  /\ GM \in Seq(Plain) /\ stack \in Seq(Plain)
  /\ \A i \in DOMAIN output : output[i] \in Seq(Ints)

Points(s) == {j \in DOMAIN s : s[j].kind = "bp"}
BasePoints(t) == Points(t.stack)
CallsBefore(position) ==
  {from \in DOMAIN code : code[from].op = "CALL" /\ from + Read(code[from]) = position}
(* The frame whose base point is word j: it names the base point below,    *)
(* and under it lie a way back, behind a call, and that call's number of   *)
(* arguments, which are there.                                             *)
FrameSound(t, j) ==
  LET below == t.stack[j].n
  IN  /\ below \in BasePoints(t) /\ below < j
      /\ BasePoints(t) \cap below + 1 .. j - 1 = {}
      /\ \E call \in CallsBefore(t.stack[j - 1].n) :
           /\ t.stack[j - 2] = address(code[call].a)
           /\ j - 2 - code[call].a > below

(* The stack of a handler is a chain of sound frames whose top its thread  *)
(* points at, it stands in front of an instruction, and when the handler   *)
(* has ended nothing of it is left: no instruction of any body, no way out *)
(* of a loop and no return takes a word too many or leaves one behind      *)
(* (run.c: CALL, MSUB, MPICK, RET, MPOP, JUMPF, EOE).                      *)
FramesSound ==
  \A i \in Handlers :
    LET t == threads[i]
        points == BasePoints(t)
    IN  IF t.flag = 0 THEN t = newThread(t.base, <<>>)
        ELSE /\ t.pc \in DOMAIN code
             /\ IF points = {} THEN t.stack = <<>> /\ At(t.pc, "EOE")
                ELSE /\ t.rbp \in points /\ \A j \in points : j <= t.rbp
                     /\ 1 \in points /\ t.stack[1].n = 1
                     /\ \A j \in points \ {1} : FrameSound(t, j)

(* What an instruction takes off the stack was put there by its own body:  *)
(* it lies above the frame's base point, and except for what a call leaves *)
(* for MSUB it is a number or was never assigned, no way back and no base  *)
(* point (run.c: every Array_pop of sub_execute; `Array_pop' ends the      *)
(* machine when there is nothing to pop).                                  *)
OperandsOwn ==
  \A i \in Handlers :
    LET t == threads[i]
        s == t.stack
    IN  t.flag = 1 =>
          \A k \in 0 .. Takes(code[t.pc]) - 1 :
            Len(s) - k > t.rbp /\ s[Len(s) - k] \in Plain

(* What lies under the base point of the running frame is not its own: the *)
(* variables and half-done operations of its callers, the arguments and the*)
(* way back. No instruction touches it but the one that ends the frame, and*)
(* that one leaves the callers all but the arguments of their call (run.c: *)
(* DEFINE, MPICK, RET, EOA and every other place where sub_execute writes  *)
(* to mstack).                                                             *)
Spared(t, u) == IF u.rbp < t.rbp THEN t.rbp - 3 - t.stack[t.rbp - 2].n ELSE t.rbp - 1
Spares(t, u) == \A k \in 1 .. Spared(t, u) : k \in DOMAIN u.stack /\ u.stack[k] = t.stack[k]
CallersKept ==
  [][\A i \in Handlers \cap Handlers' :
       threads[i].flag = 1 => Spares(threads[i], threads'[i])]_vars

(* What the compiler emits is code the conditions of Verifier hold of: it  *)
(* keeps to its bodies, and every way through it leaves a stack as high as *)
(* what comes next expects (optimaize.c, the jumps and calls of compile()).*)
Loaded == doing = "set-up" /\ process = MAIN /\ pc = 0
CodeVerified == Loaded => Verified(image)
AllVerified == \A im \in Images : Verified(im)

----------------------------------------------------------------------------
(* The invariant. The stack s of a thread that runs in the image im, and   *)
(* began in the body `first', has a base point where each frame begins; a  *)
(* global variable's thread begins without one, and has rbp 1 all the same.*)
CALLSIZE == 1 + 2 * INT
Floor(s, j) == IF j \in Points(s) THEN j ELSE 0
FrameBody(im, s, j, first) ==
  IF j = 1 THEN first ELSE Target(im, s[j - 1].n - CALLSIZE)

(* Words j - 2 and j - 1 are what a call left in the frame at `below':     *)
(* the frame belongs to the call's body and is as high as the code in front*)
(* of the call makes it.                                                   *)
Linked(im, s, j, below, first) ==
  LET call == s[j - 1].n - CALLSIZE
  IN  /\ call \in Reached(im) /\ OpAt(im, call) = "CALL"
      /\ s[j - 1] = address(call + CALLSIZE) /\ s[j - 2] = address(im.code[call].a)
      /\ BodyAt(im, call) = FrameBody(im, s, below, first)
      /\ j - 3 - Floor(s, below) >= Least(im, call)
      /\ \A k \in Floor(s, below) + 1 .. j - 3 : s[k] \in Plain

(* In front of MSUB the way back is on the stack and the base point is not;*)
(* elsewhere the topmost frame is the running one's.                       *)
Entering(im, t, first) ==
  LET j == Len(t.stack) + 1
  IN  /\ Linked(im, t.stack, j, t.rbp, first)
      /\ FrameBody(im, t.stack, j, first) = t.pc
Inside(im, t, first) ==
  LET s == t.stack
      floor == Floor(s, t.rbp)
  IN  /\ BodyAt(im, t.pc) = FrameBody(im, s, t.rbp, first)
      /\ Len(s) - floor >= Least(im, t.pc)
      /\ \A k \in floor + 1 .. Len(s) : s[k] \in Plain
Chained(im, t, first) ==
  LET s == t.stack
      frames == Points(s) \cup {1}
  IN  /\ t.rbp \in frames /\ \A j \in frames : j <= t.rbp
      /\ \A j \in Points(s) \ {1} :
           s[j].n \in frames /\ s[j].n < j /\ Linked(im, s, j, s[j].n, first)
Sound(im, t, first) ==
  /\ t.pc \in Reached(im) /\ KindAt(im, t.pc) # "main" /\ OpAt(im, t.pc) # "EOE"
  /\ Chained(im, t, first)
  /\ IF OpAt(im, t.pc) = "MSUB" THEN Entering(im, t, first) ELSE Inside(im, t, first)

(* Behind MPOP nothing is left; only EOE remains.                          *)
Finished(im, t) ==
  t.pc \in Reached(im) /\ OpAt(im, t.pc) = "EOE" /\ t.stack = <<>>

HandlerSound(t) ==
  /\ Starts(image, t.base, "handler")
  /\ IF t.flag = 0 THEN t = newThread(t.base, <<>>)
     ELSE \/ Finished(image, t) /\ t.rbp = 1
          \/ Sound(image, t, t.base) /\ 1 \in BasePoints(t) /\ t.stack[1].n = 1
(* The thread of CALL, GLOBAL and ENTRY; a transition out of the first two *)
(* leaves it in front of no instruction.                                   *)
FirstBody(t) == IF doing = "CALL" THEN 0 ELSE t.base
SetUpThreadSound(t) ==
  /\ doing = "GLOBAL" => Starts(image, t.base, "global")
  /\ doing = "ENTRY" => Starts(image, t.base, "handler")
  /\ \/ t.pc \notin DOMAIN code
     \/ doing = "ENTRY" /\ Finished(image, t)
     \/ Sound(image, t, FirstBody(t))

ThreadsSound ==
  /\ LET size == Cardinality(DOMAIN threads)
     IN  size \in Nat /\ DOMAIN threads = 0 .. size - 1
  /\ \A i \in Handlers : HandlerSound(threads[i])
(* Which thread runs, under which instruction of main_execute.             *)
ProcessSound ==
  /\ process = MAIN => doing \in {"set-up", "STARTIMP"}
  /\ process = 0 => doing \in {"CALL", "GLOBAL", "ENTRY"} /\ SetUpThreadSound(threads[0])
  /\ process \in Handlers => doing = "STARTIMP" /\ threads[process].flag = 1
MainSound ==
  process # ENDED /\ doing \in {"set-up", "CALL", "ENTRY"} => SetsUp(image, pc, coreLoc)
MemorySound ==
  gmRbp \in Nat /\ (Loaded \/ Len(GM) >= gmRbp + MAXTHREADSIZE)

MachineSound ==
  /\ MachineTypeOK /\ ThreadsSound /\ ProcessSound /\ MainSound /\ MemorySound
=============================================================================
