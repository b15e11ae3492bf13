---------------------------- MODULE FramesProofs ----------------------------
(***************************************************************************)
(* The machine on code that Verifier accepts: MachineSound is an invariant *)
(* of the Interpreter's Spec, and with it what Frames asks of the stacks.  *)
(***************************************************************************)
EXTENDS StackProofs, FiniteSetTheorems

----------------------------------------------------------------------------
(* The two halves of the machine's state, each typed.                      *)
ThreadsTyped ==
  /\ threads \in [DOMAIN threads -> Threads] /\ 0 \in DOMAIN threads
  /\ \A i \in DOMAIN threads : threads[i].base \in DOMAIN code
OutputTyped == \A i \in DOMAIN output : output[i] \in Seq(Ints)

(* The type invariant, part by part.                                       *)
LEMMA TypeParts ==
  MachineTypeOK <=>
    /\ ThreadsTyped /\ OutputTyped
    /\ process \in DOMAIN threads \cup {MAIN, ENDED}
    /\ doing \in {"set-up", "CALL", "GLOBAL", "ENTRY", "STARTIMP"}
    /\ turn \in Handlers \cup {1}
    /\ GM \in Seq(Plain) /\ stack \in Seq(Plain)
  BY DEF MachineTypeOK, ThreadsTyped, OutputTyped

(* The body in which the running thread began.                             *)
First == IF process = 0 /\ doing = "CALL" THEN 0 ELSE this.base

(* What is known of the thread that runs, in front of any instruction but  *)
(* EOE.                                                                    *)
LEMMA Running ==
  ASSUME Verified(image), MachineSound, NEW op, SubAt(op), op # "EOE"
  PROVE  /\ process \in DOMAIN threads /\ this \in Threads /\ this.base \in DOMAIN code
         /\ Sound(image, this, First) /\ Begins(image, First)
         /\ op # "MSUB" => Inside(image, this, First)
         /\ this.pc \in Reached(image) /\ OpAt(image, this.pc) = op
         /\ KindAt(image, this.pc) # "main" /\ SubVerified(image, this.pc)
         /\ process = 0 => doing \in {"CALL", "GLOBAL", "ENTRY"} /\ SetUpThreadSound(this)
         /\ process # 0 => /\ process \in Handlers /\ doing = "STARTIMP" /\ this.flag = 1
                           /\ HandlerSound(this)
         /\ KindAt(image, First) = "main" => process = 0 /\ doing = "CALL"
         /\ KindAt(image, First) = "global" => process = 0 /\ doing = "GLOBAL"
<1>1. /\ MachineTypeOK /\ ThreadsSound /\ ProcessSound
  BY DEF MachineSound
<1>2. /\ process \in DOMAIN threads /\ this \in Threads /\ this.base \in DOMAIN code
      /\ this.pc \in DOMAIN image.code /\ OpAt(image, this.pc) = op /\ process >= 0
  BY <1>1 DEF MachineTypeOK, SubAt, At, code, OpAt, MAIN, ENDED, this
<1>3. CASE process = 0
  <2>1. doing \in {"CALL", "GLOBAL", "ENTRY"} /\ SetUpThreadSound(this)
    BY <1>1, <1>3 DEF ProcessSound, this
  <2>2. Sound(image, this, First)
    BY <1>2, <1>3, <2>1 DEF SetUpThreadSound, FirstBody, First, Finished, code
  <2>3. /\ Begins(image, First)
        /\ KindAt(image, First) = "main" => process = 0 /\ doing = "CALL"
        /\ KindAt(image, First) = "global" => process = 0 /\ doing = "GLOBAL"
    <3>1. CASE doing = "CALL"
      BY <1>3, <3>1 DEF First, Begins, Verified, SetsUp
    <3>2. CASE doing \in {"GLOBAL", "ENTRY"}
      BY <1>3, <2>1, <3>2 DEF First, Begins, SetUpThreadSound, Starts
    <3> QED
      BY <2>1, <3>1, <3>2
  <2> QED
    BY <1>2, <1>3, <2>1, <2>2, <2>3, VerifiedCode DEF Sound
<1>4. CASE process # 0
  <2>1. process \in Handlers
    BY <1>2, <1>4 DEF Handlers
  <2>2. doing = "STARTIMP" /\ this.flag = 1 /\ HandlerSound(this)
    BY <1>1, <2>1 DEF ProcessSound, ThreadsSound, this
  <2>3. Sound(image, this, First)
    BY <1>2, <1>4, <2>2 DEF HandlerSound, Finished, First
  <2>4. Begins(image, First) /\ KindAt(image, First) = "handler"
    BY <1>4, <2>2 DEF HandlerSound, Starts, First, Begins
  <2> QED
    BY <1>2, <1>4, <2>1, <2>2, <2>3, <2>4, VerifiedCode DEF Sound
<1> QED
  BY <1>3, <1>4

(* main_execute's own CALL runs its advice in a frame over the set-up code.*)
LEMMA FirstIsMain ==
  ASSUME Verified(image), process = 0, doing = "CALL"
  PROVE  First = 0 /\ KindAt(image, First) = "main"
  BY DEF First, Verified

(* A slice that ends gives the turn to a handler or, with none, to 1.      *)
LEMMA YieldsTurn ==
  ASSUME MachineTypeOK, UNCHANGED doing, Yields
  PROVE  /\ process' = process \/ (process' = MAIN /\ doing = "STARTIMP")
         /\ turn' \in Handlers \cup {1}
  BY DEF MachineTypeOK, Yields, NextTurn, Handlers

(* A step of one thread under an instruction of main_execute that goes on. *)
LEMMA ThreadStep ==
  ASSUME MachineSound, process \in DOMAIN threads,
         NEW u \in Threads, u.base \in DOMAIN code,
         threads' = [threads EXCEPT ![process] = u],
         process \in Handlers => HandlerSound(u),
         process = 0 => SetUpThreadSound(u),
         u.flag = 1 \/ process' = MAIN \/ process = 0,
         UNCHANGED <<image, Main, gmRbp>>,
         process' = process \/ (process' = MAIN /\ doing = "STARTIMP"),
         turn' \in Handlers \cup {1},
         GM' \in Seq(Plain), Len(GM') >= Len(GM), OutputTyped'
  PROVE  MachineSound'
<1>1. /\ ThreadsTyped /\ OutputTyped /\ ThreadsSound /\ ProcessSound /\ MainSound /\ MemorySound
      /\ process \in DOMAIN threads \cup {MAIN, ENDED}
      /\ doing \in {"set-up", "CALL", "GLOBAL", "ENTRY", "STARTIMP"}
      /\ stack \in Seq(Plain) /\ GM \in Seq(Plain)
  BY TypeParts DEF MachineSound
<1>2. /\ DOMAIN threads' = DOMAIN threads /\ threads'[process] = u
      /\ \A i \in DOMAIN threads : i # process => threads'[i] = threads[i]
  BY <1>1 DEF ThreadsTyped
<1>3. Handlers' = Handlers /\ code' = code /\ image' = image /\ doing' = doing
  BY <1>2 DEF Handlers, code, Main
<1>4. ThreadsTyped'
  <2>1. threads' \in [DOMAIN threads' -> Threads]
    BY <1>1 DEF ThreadsTyped
  <2> QED
    BY <1>1, <1>2, <1>3, <2>1 DEF ThreadsTyped
<1>5. MachineTypeOK'
  <2>1. process' \in DOMAIN threads' \cup {MAIN, ENDED}
    BY <1>2
  <2> QED
    BY <1>1, <1>3, <1>4, <2>1, TypeParts DEF Main, MachineTypeOK, ThreadsTyped, OutputTyped
<1>6. ThreadsSound'
  <2>1. \A i \in Handlers : HandlerSound(threads'[i])
    BY <1>1, <1>2 DEF ThreadsSound, Handlers
  <2>2. \A i \in Handlers' : (HandlerSound(threads[i]))'
    BY <1>3, <2>1 DEF HandlerSound
  <2> QED
    BY <1>1, <1>2, <2>2 DEF ThreadsSound
<1>7. ProcessSound'
  <2>1. process' = MAIN => doing' \in {"set-up", "STARTIMP"}
    BY <1>1, <1>3 DEF ProcessSound
  <2>2. process' = 0 => process = 0 /\ doing' \in {"CALL", "GLOBAL", "ENTRY"} /\ threads'[0] = u
    BY <1>1, <1>2, <1>3 DEF ProcessSound, MAIN
  <2>3. process' = 0 => (SetUpThreadSound(threads[0]))'
    BY <1>3, <2>2 DEF SetUpThreadSound, FirstBody
  <2>4. process' \in Handlers' => doing' = "STARTIMP" /\ threads'[process'].flag = 1
    <3>1. MAIN \notin DOMAIN threads
      BY <1>1 DEF ThreadsSound, MAIN
    <3>2. process' \in Handlers' => process' = process /\ process \in Handlers /\ process # 0
      BY <1>3, <3>1 DEF Handlers
    <3> QED
      BY <1>1, <1>2, <1>3, <3>2 DEF ProcessSound, MAIN, Handlers
  <2> QED
    BY <2>1, <2>2, <2>3, <2>4 DEF ProcessSound
<1>8. MainSound'
  BY <1>1, <1>3 DEF MainSound, Main, MAIN, ENDED
<1>9. MemorySound'
  <2>1. process # MAIN
    BY <1>1 DEF ThreadsSound, MAIN
  <2>2. ~Loaded
    BY <2>1 DEF Loaded
  <2>3. Len(GM') \in Nat /\ Len(GM) \in Nat /\ gmRbp \in Nat /\ gmRbp' = gmRbp
    BY <1>1 DEF MemorySound
  <2> QED
    BY <1>1, <2>2, <2>3, TableAssumption DEF MemorySound
<1> QED
  BY <1>5, <1>6, <1>7, <1>8, <1>9 DEF MachineSound

(* The same for a thread whose chain of frames stays sound.                *)
LEMMA SoundStep ==
  ASSUME Verified(image), MachineSound, NEW op, SubAt(op), op # "EOE",
         NEW u \in Threads, u.base = this.base, u.flag = this.flag,
         Sound(image, u, First), KeepsFirst(this.stack, u.stack),
         threads' = [threads EXCEPT ![process] = u],
         UNCHANGED <<image, Main, gmRbp>>, Yields \/ UNCHANGED <<process, turn>>,
         GM' \in Seq(Plain), Len(GM') >= Len(GM), OutputTyped'
  PROVE  MachineSound'
<1>1. /\ process \in DOMAIN threads /\ this \in Threads /\ this.base \in DOMAIN code
      /\ Sound(image, this, First) /\ OpAt(image, this.pc) = op
      /\ process = 0 => doing \in {"CALL", "GLOBAL", "ENTRY"} /\ SetUpThreadSound(this)
      /\ process # 0 => process \in Handlers /\ this.flag = 1 /\ HandlerSound(this)
  BY Running
<1>2. MachineTypeOK /\ UNCHANGED doing
  BY DEF MachineSound, Main
<1>3. /\ process' = process \/ (process' = MAIN /\ doing = "STARTIMP")
      /\ turn' \in Handlers \cup {1}
  BY <1>2, YieldsTurn DEF MachineTypeOK
<1>4. ASSUME process \in Handlers
      PROVE  HandlerSound(u) /\ u.flag = 1
  <2>1. process # 0 /\ this.flag = 1 /\ HandlerSound(this)
    BY <1>1, <1>4 DEF Handlers
  <2>2. /\ Starts(image, this.base, "handler") /\ First = this.base
        /\ 1 \in Points(this.stack) /\ this.stack[1].n = 1
    BY <1>1, <2>1 DEF HandlerSound, Finished, First, BasePoints
  <2> QED
    BY <2>1, <2>2 DEF HandlerSound, KeepsFirst, BasePoints
<1>5. ASSUME process = 0
      PROVE  SetUpThreadSound(u)
  BY <1>1, <1>5 DEF SetUpThreadSound, FirstBody, First
<1>6. u.flag = 1 \/ process = 0
  BY <1>1, <1>4
<1> QED
  BY <1>1, <1>3, <1>4, <1>5, <1>6, ThreadStep

(* A step that works inside its frame leaves what lies under it.           *)
KeepsFrame == threads'[process].rbp = this.rbp /\ Kept(this, threads'[process].stack)

(* An instruction that works inside its frame.                             *)
LEMMA Working ==
  ASSUME Verified(image), MachineSound, NEW op, SubAt(op), op \notin {"EOE", "MSUB"}
  PROVE  /\ inst = image.code[this.pc] /\ inst.op = op /\ onward = Behind(image, this.pc)
         /\ OperandsFit(inst) /\ this \in Threads /\ FloorOf(this) \in Nat
         /\ this.rbp \in Nat /\ FloorOf(this) <= this.rbp
         /\ Kept(this, mstack) /\ Height(this, mstack) \in Nat
         /\ Least(image, this.pc) \in Nat /\ Height(this, mstack) >= Least(image, this.pc)
<1>1. /\ this \in Threads /\ Inside(image, this, First) /\ OpAt(image, this.pc) = op
      /\ this.pc \in Reached(image) /\ SubVerified(image, this.pc)
  BY Running
<1>2. inst = image.code[this.pc] /\ onward = Behind(image, this.pc) /\ inst.op = op
  BY <1>1 DEF inst, onward, code, Behind, OpAt
<1>3. OperandsFit(inst) /\ Least(image, this.pc) \in Nat
  BY <1>1, <1>2, VerifiedCode DEF SubVerified
<1>4. this.rbp \in Nat /\ FloorOf(this) \in Nat /\ FloorOf(this) <= this.rbp
  BY <1>1, FloorNat DEF Threads
<1> QED
  BY <1>1, <1>2, <1>3, <1>4, KeptSame DEF mstack

(* A step inside the running frame: it goes on where its instruction       *)
(* leads to, with a stack that keeps the frame and is high enough.         *)
LEMMA WorkStep ==
  ASSUME Verified(image), MachineSound, NEW op, SubAt(op), op \notin {"EOE", "MSUB"},
         NEW position, NEW height \in Int, NEW r, Kept(this, r), Height(this, r) >= height,
         Continues(image, this.pc, position, height),
         threads' = [threads EXCEPT ![process] = [this EXCEPT !.pc = position, !.stack = r]],
         UNCHANGED <<image, Main, gmRbp>>, Yields \/ UNCHANGED <<process, turn>>,
         GM' \in Seq(Plain), Len(GM') >= Len(GM), OutputTyped'
  PROVE  MachineSound' /\ KeepsFrame
<1>1. /\ this \in Threads /\ Sound(image, this, First) /\ Inside(image, this, First)
  BY Running
<1>2. position \in Nat /\ r \in Seq(Elements)
  BY VerifiedCode DEF Continues, Kept
<1>3. PICK u : u = [this EXCEPT !.pc = position, !.stack = r]
  OBVIOUS
<1>4. /\ u \in Threads /\ u.pc = position /\ u.stack = r /\ u.rbp = this.rbp
      /\ u.base = this.base /\ u.flag = this.flag
  BY <1>1, <1>2, <1>3 DEF Threads
<1>5. Sound(image, u, First) /\ KeepsFirst(this.stack, u.stack)
  BY <1>1, <1>4, KeptSound
<1>6. threads' = [threads EXCEPT ![process] = u]
  BY <1>3
<1>7. KeepsFrame
  <2>1. threads'[process] = u
    BY <1>6, Running DEF MachineSound, MachineTypeOK
  <2> QED
    BY <1>4, <2>1 DEF KeepsFrame
<1> QED
  BY <1>4, <1>5, <1>6, <1>7, SoundStep

(* The same when memory and output are left alone.                         *)
LEMMA QuietStep ==
  ASSUME Verified(image), MachineSound, NEW op, SubAt(op), op \notin {"EOE", "MSUB"},
         NEW position, NEW height \in Int, NEW r, Kept(this, r), Height(this, r) >= height,
         Continues(image, this.pc, position, height),
         threads' = [threads EXCEPT ![process] = [this EXCEPT !.pc = position, !.stack = r]],
         UNCHANGED <<image, Main>>, Yields \/ UNCHANGED <<process, turn>>,
         UNCHANGED <<Memory, output>>
  PROVE  MachineSound' /\ KeepsFrame
<1>1. /\ GM \in Seq(Plain) /\ OutputTyped
  BY TypeParts DEF MachineSound
<1>2. /\ GM' \in Seq(Plain) /\ Len(GM') >= Len(GM) /\ OutputTyped' /\ gmRbp' = gmRbp
  BY <1>1 DEF Memory, OutputTyped
<1> QED
  BY <1>2, WorkStep

(* load pushes an int.                                                     *)
LEMMA LoadStep ==
  ASSUME Verified(image), MachineSound, SubLoad
  PROVE  MachineSound' /\ KeepsFrame
<1> DEFINE r == Append(mstack, _newInteger(inst.a))
           least == Least(image, this.pc)
<1>1. /\ SubAt("load") /\ onward = Behind(image, this.pc) /\ inst = image.code[this.pc]
      /\ inst.op = "load" /\ OperandsFit(inst) /\ this \in Threads
      /\ Kept(this, mstack) /\ Height(this, mstack) \in Nat
      /\ least \in Nat /\ Height(this, mstack) >= least
  BY Working DEF SubLoad
<1>2. Kept(this, r) /\ Height(this, r) = Height(this, mstack) + 1
  BY <1>1, IntegerPlain, KeptPush DEF OperandsFit
<1>3. Continues(image, this.pc, onward, least + 1)
  BY <1>1, Running, BodyVerified
<1>4. least + 1 \in Int /\ Height(this, r) >= least + 1
  BY <1>1, <1>2
<1>5. /\ threads' = [threads EXCEPT ![process] = [this EXCEPT !.pc = onward, !.stack = r]]
      /\ UNCHANGED <<image, Main>> /\ UNCHANGED <<process, turn>> /\ UNCHANGED <<Memory, output>>
  BY DEF SubLoad, Continue, Becomes
<1> QED
  BY <1>1, <1>2, <1>3, <1>4, <1>5, QuietStep

(* GET pushes a variable of the running frame, ...                         *)
LEMMA GetStep ==
  ASSUME Verified(image), MachineSound, SubGet
  PROVE  MachineSound' /\ KeepsFrame
<1> DEFINE least == Least(image, this.pc)
           w == Array_get(mstack, this.rbp + inst.a)
           r == Append(mstack, w)
<1>1. /\ SubAt("GET") /\ onward = Behind(image, this.pc) /\ inst = image.code[this.pc]
      /\ inst.op = "GET" /\ OperandsFit(inst) /\ this \in Threads
      /\ Kept(this, mstack) /\ Height(this, mstack) \in Nat
      /\ FloorOf(this) \in Nat /\ this.rbp \in Nat /\ FloorOf(this) <= this.rbp
      /\ least \in Nat /\ Height(this, mstack) >= least
  BY Working DEF SubGet
<1>2. w \in Plain
  <2>1. inst.a \in Nat /\ this.rbp + inst.a \in Nat /\ this.rbp + inst.a >= FloorOf(this)
    BY <1>1 DEF OperandsFit
  <2> QED
    BY <1>1, <2>1, KeptGet
<1>3. /\ threads' = [threads EXCEPT ![process] = [this EXCEPT !.pc = onward, !.stack = r]]
      /\ UNCHANGED <<image, Main>> /\ UNCHANGED <<process, turn>> /\ UNCHANGED <<Memory, output>>
  BY DEF SubGet, Continue, Becomes
<1> HIDE DEF w
<1>4. Kept(this, r) /\ Height(this, r) = Height(this, mstack) + 1
  BY <1>1, <1>2, KeptPush
<1>5. Continues(image, this.pc, onward, least + 1)
  BY <1>1, Running, BodyVerified
<1>6. least + 1 \in Int /\ Height(this, r) >= least + 1
  BY <1>1, <1>4
<1> QED
  BY <1>1, <1>3, <1>4, <1>5, <1>6, QuietStep

(* ... GET_L one of the state ...                                          *)
LEMMA GetLStep ==
  ASSUME Verified(image), MachineSound, SubGetL
  PROVE  MachineSound' /\ KeepsFrame
<1> DEFINE least == Least(image, this.pc)
           w == Array_get(GM, gmRbp + inst.a)
           r == Append(mstack, w)
<1>1. /\ SubAt("GET_L") /\ onward = Behind(image, this.pc) /\ inst = image.code[this.pc]
      /\ inst.op = "GET_L" /\ OperandsFit(inst) /\ this \in Threads
      /\ Kept(this, mstack) /\ Height(this, mstack) \in Nat
      /\ FloorOf(this) \in Nat /\ this.rbp \in Nat /\ FloorOf(this) <= this.rbp
      /\ least \in Nat /\ Height(this, mstack) >= least
  BY Working DEF SubGetL
<1>2. w \in Plain
  <2>1. GM \in Seq(Plain) /\ gmRbp \in Nat /\ inst.a \in Nat
    BY <1>1, TypeParts DEF MachineSound, MemorySound, OperandsFit
  <2>2. gmRbp + inst.a \in Int
    BY <2>1
  <2> QED
    BY <2>1, <2>2, GetWords, PlainWords
<1>3. /\ threads' = [threads EXCEPT ![process] = [this EXCEPT !.pc = onward, !.stack = r]]
      /\ UNCHANGED <<image, Main>> /\ UNCHANGED <<process, turn>> /\ UNCHANGED <<Memory, output>>
  BY DEF SubGetL, Continue, Becomes
<1> HIDE DEF w
<1>4. Kept(this, r) /\ Height(this, r) = Height(this, mstack) + 1
  BY <1>1, <1>2, KeptPush
<1>5. Continues(image, this.pc, onward, least + 1)
  BY <1>1, Running, BodyVerified
<1>6. least + 1 \in Int /\ Height(this, r) >= least + 1
  BY <1>1, <1>4
<1> QED
  BY <1>1, <1>3, <1>4, <1>5, <1>6, QuietStep

(* ... and GET_G a global one.                                             *)
LEMMA GetGStep ==
  ASSUME Verified(image), MachineSound, SubGetG
  PROVE  MachineSound' /\ KeepsFrame
<1> DEFINE least == Least(image, this.pc)
           w == Array_get(GM, inst.a)
           r == Append(mstack, w)
<1>1. /\ SubAt("GET_G") /\ onward = Behind(image, this.pc) /\ inst = image.code[this.pc]
      /\ inst.op = "GET_G" /\ OperandsFit(inst) /\ this \in Threads
      /\ Kept(this, mstack) /\ Height(this, mstack) \in Nat
      /\ FloorOf(this) \in Nat /\ this.rbp \in Nat /\ FloorOf(this) <= this.rbp
      /\ least \in Nat /\ Height(this, mstack) >= least
  BY Working DEF SubGetG
<1>2. w \in Plain
  <2>1. GM \in Seq(Plain) /\ inst.a \in Nat
    BY <1>1, TypeParts DEF MachineSound, OperandsFit
  <2>2. inst.a \in Int
    BY <2>1
  <2> QED
    BY <2>1, <2>2, GetWords, PlainWords
<1>3. /\ threads' = [threads EXCEPT ![process] = [this EXCEPT !.pc = onward, !.stack = r]]
      /\ UNCHANGED <<image, Main>> /\ UNCHANGED <<process, turn>> /\ UNCHANGED <<Memory, output>>
  BY DEF SubGetG, Continue, Becomes
<1> HIDE DEF w
<1>4. Kept(this, r) /\ Height(this, r) = Height(this, mstack) + 1
  BY <1>1, <1>2, KeptPush
<1>5. Continues(image, this.pc, onward, least + 1)
  BY <1>1, Running, BodyVerified
<1>6. least + 1 \in Int /\ Height(this, r) >= least + 1
  BY <1>1, <1>4
<1> QED
  BY <1>1, <1>3, <1>4, <1>5, <1>6, QuietStep

(* DEFINE stores the topmost word in a variable of the running frame.      *)
LEMMA DefineStep ==
  ASSUME Verified(image), MachineSound, SubDefine
  PROVE  MachineSound' /\ KeepsFrame
<1> DEFINE least == Least(image, this.pc)
           rest == Array_pop(mstack, 1)
           r == Array_put(rest, this.rbp + inst.a, Top(mstack))
<1>1. /\ SubAt("DEFINE") /\ onward = Behind(image, this.pc) /\ inst = image.code[this.pc]
      /\ inst.op = "DEFINE" /\ OperandsFit(inst) /\ this \in Threads
      /\ Kept(this, mstack) /\ Height(this, mstack) \in Nat
      /\ FloorOf(this) \in Nat /\ this.rbp \in Nat /\ FloorOf(this) <= this.rbp
      /\ least \in Nat /\ Height(this, mstack) >= least
  BY Working DEF SubDefine
<1>2. least >= 1 /\ Continues(image, this.pc, onward, least - 1)
  BY <1>1, Running, BodyVerified
<1>3. Kept(this, rest) /\ Height(this, rest) = Height(this, mstack) - 1 /\ Top(mstack) \in Plain
  BY <1>1, <1>2, KeptPop, KeptTop
<1>4. this.rbp + inst.a \in Nat /\ this.rbp + inst.a >= FloorOf(this)
  BY <1>1 DEF OperandsFit
<1>5. /\ threads' = [threads EXCEPT ![process] = [this EXCEPT !.pc = onward, !.stack = r]]
      /\ UNCHANGED <<image, Main>> /\ UNCHANGED <<process, turn>> /\ UNCHANGED <<Memory, output>>
  BY DEF SubDefine, Continue, Becomes
<1>6. Kept(this, r) /\ Height(this, r) >= Height(this, rest)
  BY <1>1, <1>3, <1>4, KeptPut
<1>7. Height(this, r) \in Int
  BY <1>1, <1>6 DEF Height, Kept
<1>8. least - 1 \in Int /\ Height(this, r) >= least - 1
  BY <1>1, <1>3, <1>6, <1>7
<1> QED
  BY <1>1, <1>2, <1>5, <1>6, <1>8, QuietStep

(* DEFINE_L and DEFINE_G put the value into the memory all handlers share. *)
LEMMA StoreStep ==
  ASSUME Verified(image), MachineSound, NEW op \in {"DEFINE_L", "DEFINE_G"}, SubAt(op),
         NEW place \in Nat, Store(place)
  PROVE  MachineSound' /\ KeepsFrame
<1> DEFINE least == Least(image, this.pc)
           r == Array_pop(mstack, 1)
<1>1. /\ onward = Behind(image, this.pc) /\ inst = image.code[this.pc]
      /\ inst.op = op /\ this \in Threads
      /\ Kept(this, mstack) /\ Height(this, mstack) \in Nat
      /\ least \in Nat /\ Height(this, mstack) >= least
  BY Working
<1>2. least >= 1 /\ Continues(image, this.pc, onward, least - 1)
  BY <1>1, Running, BodyVerified
<1>3. Kept(this, r) /\ Height(this, r) = Height(this, mstack) - 1 /\ Top(mstack) \in Plain
  BY <1>1, <1>2, KeptPop, KeptTop
<1>4. GM \in Seq(Plain) /\ Len(GM) \in Nat /\ OutputTyped
  BY TypeParts DEF MachineSound
<1>5. GM' \in Seq(Plain) /\ Len(GM') >= Len(GM) /\ OutputTyped' /\ gmRbp' = gmRbp
  <2>1. /\ Array_put(GM, place, Top(mstack)) \in Seq(Plain)
        /\ Len(Array_put(GM, place, Top(mstack))) >= Len(GM)
    BY <1>3, <1>4, PutPlain
  <2>2. GM' = Array_put(GM, place, Top(mstack)) /\ UNCHANGED <<gmRbp, output>>
    BY DEF Store
  <2> QED
    BY <1>4, <2>1, <2>2 DEF OutputTyped
<1>6. /\ threads' = [threads EXCEPT ![process] = [this EXCEPT !.pc = onward, !.stack = r]]
      /\ UNCHANGED <<image, Main>> /\ UNCHANGED <<process, turn>>
  BY DEF Store, Continue, Becomes
<1>7. least - 1 \in Int /\ Height(this, r) >= least - 1
  BY <1>1, <1>3
<1>8. op \notin {"EOE", "MSUB"} /\ UNCHANGED <<image, Main, gmRbp>>
  BY <1>5, <1>6
<1> QED
  BY <1>2, <1>3, <1>5, <1>6, <1>7, <1>8, WorkStep

(* JUMP goes on elsewhere in the body.                                     *)
LEMMA JumpStep ==
  ASSUME Verified(image), MachineSound, SubJump
  PROVE  MachineSound' /\ KeepsFrame
<1> DEFINE least == Least(image, this.pc)
<1>1. /\ SubAt("JUMP") /\ onward = Behind(image, this.pc) /\ inst = image.code[this.pc]
      /\ inst.op = "JUMP" /\ OperandsFit(inst) /\ this \in Threads
      /\ Kept(this, mstack) /\ Height(this, mstack) \in Nat
      /\ FloorOf(this) \in Nat /\ this.rbp \in Nat /\ FloorOf(this) <= this.rbp
      /\ least \in Nat /\ Height(this, mstack) >= least
  BY Working DEF SubJump
<1>2. Continues(image, this.pc, onward + inst.a, least)
  BY <1>1, Running, BodyVerified
<1>3. /\ threads' = [threads EXCEPT ![process] =
                       [this EXCEPT !.pc = onward + inst.a, !.stack = mstack]]
      /\ UNCHANGED <<image, Main>> /\ Yields /\ UNCHANGED <<Memory, output>>
  BY DEF SubJump, YieldAt, Yield
<1>4. least \in Int
  BY <1>1
<1> QED
  BY <1>1, <1>2, <1>3, <1>4, QuietStep

(* JUMPF takes the condition, whatever it is, and goes on at either        *)
(* place.                                                                  *)
LEMMA JumpFStep ==
  ASSUME Verified(image), MachineSound, SubJumpF
  PROVE  MachineSound' /\ KeepsFrame
<1> DEFINE least == Least(image, this.pc)
           r == Array_pop(mstack, 1)
<1>1. /\ SubAt("JUMPF") /\ onward = Behind(image, this.pc) /\ inst = image.code[this.pc]
      /\ inst.op = "JUMPF" /\ OperandsFit(inst) /\ this \in Threads
      /\ Kept(this, mstack) /\ Height(this, mstack) \in Nat
      /\ FloorOf(this) \in Nat /\ this.rbp \in Nat /\ FloorOf(this) <= this.rbp
      /\ least \in Nat /\ Height(this, mstack) >= least
  BY Working DEF SubJumpF
<1>2. /\ least >= 1 /\ Continues(image, this.pc, onward, least - 1)
      /\ Continues(image, this.pc, onward + inst.a, least - 1)
  BY <1>1, Running, BodyVerified
<1>3. Kept(this, r) /\ Height(this, r) = Height(this, mstack) - 1
  BY <1>1, <1>2, KeptPop
<1>4. least - 1 \in Int /\ Height(this, r) >= least - 1
  BY <1>1, <1>3
<1>5. PICK position \in {onward, onward + inst.a} :
        /\ threads' = [threads EXCEPT ![process] =
                         [this EXCEPT !.pc = position, !.stack = r]]
        /\ UNCHANGED <<image, Main>> /\ Yields /\ UNCHANGED <<Memory, output>>
  BY DEF SubJumpF, YieldAt, Yield
<1> QED
  BY <1>1, <1>2, <1>3, <1>4, <1>5, QuietStep

(* What is printed is a number more in the output.                         *)
LEMMA PrintedNumbers ==
  ASSUME OutputTyped, NEW n \in Ints, Prints(n)
  PROVE  OutputTyped'
  BY DEF OutputTyped, Prints

(* PRINT takes a number and prints it.                                     *)
LEMMA PrintStep ==
  ASSUME Verified(image), MachineSound, SubPrint
  PROVE  MachineSound' /\ KeepsFrame
<1> DEFINE least == Least(image, this.pc)
           r == Array_pop(mstack, 1)
<1>1. /\ SubAt("PRINT") /\ onward = Behind(image, this.pc) /\ inst = image.code[this.pc]
      /\ inst.op = "PRINT" /\ OperandsFit(inst) /\ this \in Threads
      /\ Kept(this, mstack) /\ Height(this, mstack) \in Nat
      /\ FloorOf(this) \in Nat /\ this.rbp \in Nat /\ FloorOf(this) <= this.rbp
      /\ least \in Nat /\ Height(this, mstack) >= least
  BY Working DEF SubPrint
<1>2. least >= 1 /\ Continues(image, this.pc, onward, least - 1)
  BY <1>1, Running, BodyVerified
<1>3. Kept(this, r) /\ Height(this, r) = Height(this, mstack) - 1
      /\ _Integer_value(Top(mstack)) \subseteq Ints
  <2>1. Height(this, mstack) >= 1
    BY <1>1, <1>2
  <2>2. Kept(this, r) /\ Height(this, r) = Height(this, mstack) - 1
    BY <1>1, <2>1, KeptPop
  <2>3. Top(mstack) \in Plain
    BY <1>1, <2>1, KeptTop
  <2> QED
    BY <2>2, <2>3, PlainWords
<1>4. least - 1 \in Int /\ Height(this, r) >= least - 1
  BY <1>1, <1>3
<1>5. OutputTyped'
  BY <1>3, TypeParts, PrintedNumbers DEF SubPrint, MachineSound
<1>6. /\ threads' = [threads EXCEPT ![process] = [this EXCEPT !.pc = onward, !.stack = r]]
      /\ UNCHANGED <<image, Main, gmRbp>> /\ UNCHANGED <<process, turn>> /\ GM' = GM
  BY DEF SubPrint, Continue, Becomes, Memory
<1>7. GM' \in Seq(Plain) /\ Len(GM') >= Len(GM)
  <2>1. GM \in Seq(Plain)
    BY TypeParts DEF MachineSound
  <2> QED
    BY <1>6, <2>1
<1> QED
  BY <1>1, <1>2, <1>3, <1>4, <1>5, <1>6, <1>7, WorkStep

(* stop(n) and HALT end the program.                                       *)
LEMMA Ending ==
  ASSUME MachineSound, ~Loaded, process' = ENDED,
         UNCHANGED <<image, Main, Memory, threads, turn, output>>
  PROVE  MachineSound'
<1>1. Handlers' = Handlers /\ code' = code
  BY DEF Handlers, code
<1>2. MachineTypeOK'
  BY <1>1 DEF MachineSound, MachineTypeOK, Main, Memory
<1>3. ThreadsSound'
  BY <1>1 DEF MachineSound, ThreadsSound, HandlerSound
<1>4. ENDED \notin DOMAIN threads
  BY DEF MachineSound, ThreadsSound, ENDED
<1>5. ProcessSound'
  BY <1>1, <1>4 DEF ProcessSound, Handlers, MAIN, ENDED
<1>6. MainSound'
  BY DEF MainSound
<1>7. MemorySound'
  BY DEF MachineSound, MemorySound, Memory
<1> QED
  BY <1>2, <1>3, <1>5, <1>6, <1>7 DEF MachineSound

(* An operation takes two numbers and leaves one, or kills the program.    *)
LEMMA CalcStep ==
  ASSUME Verified(image), MachineSound, SubCalc
  PROVE  MachineSound' /\ KeepsFrame
<1> DEFINE least == Least(image, this.pc)
           rest == Array_pop(mstack, 2)
<1>1. /\ SubAt("calc") /\ onward = Behind(image, this.pc) /\ inst = image.code[this.pc]
      /\ inst.op = "calc" /\ OperandsFit(inst) /\ this \in Threads
      /\ Kept(this, mstack) /\ Height(this, mstack) \in Nat
      /\ FloorOf(this) \in Nat /\ this.rbp \in Nat /\ FloorOf(this) <= this.rbp
      /\ least \in Nat /\ Height(this, mstack) >= least
  BY Working DEF SubCalc
<1>2. least >= 2 /\ Continues(image, this.pc, onward, least - 1)
  BY <1>1, Running, BodyVerified
<1>3. \/ \E n \in Int :
           /\ threads' = [threads EXCEPT ![process] = [this EXCEPT !.pc = onward,
                                            !.stack = Append(rest, _newInteger(n))]]
           /\ UNCHANGED <<image, Main>> /\ UNCHANGED <<process, turn>> /\ UNCHANGED <<Memory, output>>
      \/ process' = ENDED /\ UNCHANGED <<image, Main, Memory, threads, turn, output>>
  <2>1. Kept(this, Array_pop(mstack, 1)) /\ Height(this, Array_pop(mstack, 1)) >= 1
    BY <1>1, <1>2, KeptPop
  <2>2. /\ _Integer_value(Top(mstack)) \subseteq Ints
        /\ _Integer_value(Top(Array_pop(mstack, 1))) \subseteq Ints
    BY <1>1, <1>2, <2>1, KeptTop, PlainWords
  <2>3. Ints \subseteq Int
    BY WidthAssumption DEF Ints
  <2>4. PICK rr \in _Integer_value(Top(mstack)), l \in _Integer_value(Top(Array_pop(mstack, 1))) :
          \/ \E n \in calc(inst.type, inst.f, l, rr) : Continue(Append(rest, _newInteger(n)))
          \/ process' = ENDED /\ UNCHANGED <<image, Main, threads, turn>>
    BY DEF SubCalc
  <2>5. calc(inst.type, inst.f, l, rr) \subseteq Int
    BY <2>2, <2>3, <2>4, CalcInt
  <2>6. UNCHANGED <<Memory, output>>
    BY DEF SubCalc
  <2>7. CASE \E n \in calc(inst.type, inst.f, l, rr) : Continue(Append(rest, _newInteger(n)))
    BY <2>5, <2>6, <2>7 DEF Continue, Becomes
  <2>8. CASE process' = ENDED /\ UNCHANGED <<image, Main, threads, turn>>
    BY <2>6, <2>8
  <2> QED
    BY <2>4, <2>7, <2>8
<1>4. CASE process' = ENDED /\ UNCHANGED <<image, Main, Memory, threads, turn, output>>
  <2>1. ~Loaded
    BY <1>1 DEF Loaded, SubAt, MAIN
  <2>2. KeepsFrame
    BY <1>1, <1>4 DEF KeepsFrame, this, mstack
  <2> QED
    BY <1>4, <2>1, <2>2, Ending
<1>5. ASSUME NEW n \in Int,
             threads' = [threads EXCEPT ![process] = [this EXCEPT !.pc = onward,
                                          !.stack = Append(rest, _newInteger(n))]],
             UNCHANGED <<image, Main>>, UNCHANGED <<process, turn>>, UNCHANGED <<Memory, output>>
      PROVE  MachineSound' /\ KeepsFrame
  <2> DEFINE r == Append(rest, _newInteger(n))
  <2>1. Kept(this, rest) /\ Height(this, rest) = Height(this, mstack) - 2
    BY <1>1, <1>2, KeptPop
  <2>2. Kept(this, r) /\ Height(this, r) = Height(this, rest) + 1
    BY <1>1, <2>1, IntegerPlain, KeptPush
  <2>3. least - 1 \in Int /\ Height(this, r) >= least - 1
    BY <1>1, <2>1, <2>2
  <2> QED
    BY <1>1, <1>2, <1>5, <2>2, <2>3, QuietStep
<1> QED
  BY <1>3, <1>4, <1>5

(* A call of a primitive: output(n) prints and yields.                     *)
LEMMA CallPStep ==
  ASSUME Verified(image), MachineSound, SubCallP
  PROVE  MachineSound' /\ KeepsFrame
<1> DEFINE least == Least(image, this.pc)
           r == Array_pop(mstack, inst.c)
<1>1. /\ SubAt("CALL_P") /\ onward = Behind(image, this.pc) /\ inst = image.code[this.pc]
      /\ inst.op = "CALL_P" /\ OperandsFit(inst) /\ this \in Threads
      /\ Kept(this, mstack) /\ Height(this, mstack) \in Nat
      /\ FloorOf(this) \in Nat /\ this.rbp \in Nat /\ FloorOf(this) <= this.rbp
      /\ least \in Nat /\ Height(this, mstack) >= least
  BY Working DEF SubCallP
<1>2. /\ inst.c \in Nat \ {0} /\ least >= inst.c
      /\ Continues(image, this.pc, onward, least - inst.c)
  BY <1>1, Running, BodyVerified DEF OperandsFit
<1>3. Kept(this, r) /\ Height(this, r) = Height(this, mstack) - inst.c
      /\ _Integer_value(Top(mstack)) \subseteq Ints
  <2>1. inst.c \in Nat /\ inst.c <= Height(this, mstack) /\ Height(this, mstack) >= 1
    BY <1>1, <1>2
  <2> QED
    BY <1>1, <2>1, KeptPop, KeptTop, PlainWords
<1>4. least - inst.c \in Int /\ Height(this, r) >= least - inst.c
  BY <1>1, <1>2, <1>3
<1>5. CASE inst.b = EXIT_P
  <2>1. ~Loaded
    BY <1>1 DEF Loaded, SubAt, MAIN
  <2>2. /\ process' = ENDED
        /\ UNCHANGED <<image, Main, Memory, threads, turn, output>>
    BY <1>5 DEF SubCallP
  <2>3. KeepsFrame
    BY <1>1, <2>2 DEF KeepsFrame, this, mstack
  <2> QED
    BY <2>1, <2>2, <2>3, Ending
<1>6. CASE inst.b # EXIT_P
  <2>1. PICK n \in _Integer_value(Top(mstack)) : Prints(n)
    BY <1>6 DEF SubCallP
  <2>2. OutputTyped'
    BY <1>3, <2>1, TypeParts, PrintedNumbers DEF MachineSound
  <2>3. /\ threads' = [threads EXCEPT ![process] = [this EXCEPT !.pc = onward, !.stack = r]]
        /\ UNCHANGED <<image, Main, gmRbp>> /\ Yields /\ GM' = GM
    BY <1>6 DEF SubCallP, YieldAt, Yield, Memory
  <2>4. GM' \in Seq(Plain) /\ Len(GM') >= Len(GM)
    <3>1. GM \in Seq(Plain)
      BY TypeParts DEF MachineSound
    <3> QED
      BY <2>3, <3>1
  <2> QED
    BY <1>1, <1>2, <1>3, <1>4, <2>2, <2>3, <2>4, WorkStep
<1> QED
  BY <1>5, <1>6

(* MPICK: the argument lies in the frame of the call.                      *)
LEMMA PickedPlain ==
  ASSUME NEW im, Verified(im), NEW first, Begins(im, first), NEW t \in Threads,
         Sound(im, t, first), Inside(im, t, first), OpAt(im, t.pc) = "MPICK",
         NEW a, a = im.code[t.pc].a
  PROVE  Array_get(t.stack, t.rbp - a - 1) \in Plain
<1> DEFINE call == CallOf(t)
           floor == FloorBelow(t)
           n == im.code[call].a
<1>1. /\ t.pc \in Reached(im) /\ KindAt(im, t.pc) = "function" /\ a \in Nat
      /\ im.code[t.pc].op = "MPICK"
  BY VerifiedCode DEF Sound, SubVerified, OperandsFit, OpAt
<1>2. t.rbp # 1
  BY <1>1, FirstFrame DEF Begins
<1>3. /\ call \in Reached(im) /\ OpAt(im, call) = "CALL" /\ KindAt(im, call) # "main"
      /\ BodyAt(im, t.pc) = Target(im, call) /\ BelowOf(t) \in Points(t.stack) \cup {1}
      /\ Linked(im, t.stack, t.rbp, BelowOf(t), first)
  BY <1>1, <1>2, CalledFrame
<1>4. PicksWhatIsPassed(im, call) /\ n \in Nat
  BY <1>3, VerifiedCode DEF SubVerified, OperandsFit, OpAt
<1>5. Least(im, call) \in Nat /\ Least(im, call) >= n
  BY <1>3, VerifiedCode, BodyVerified DEF OpAt
<1>6. a >= 3 /\ a <= 2 + n
  BY <1>1, <1>3, <1>4 DEF PicksWhatIsPassed, OpAt
<1>7. /\ t.rbp - 3 - floor >= Least(im, call)
      /\ \A k \in floor + 1 .. t.rbp - 3 : t.stack[k] \in Plain
  BY <1>3 DEF Linked, CallOf, FloorBelow
<1>8. t.rbp \in Nat /\ BelowOf(t) \in Nat /\ t.stack \in Seq(Elements)
  BY <1>3 DEF Threads, Points
<1>9. floor \in Nat
  BY <1>8, FloorBound DEF FloorBelow
<1> HIDE DEF call, floor, n
<1>10. t.rbp - a \in floor + 1 .. t.rbp - 3 /\ (t.rbp - a - 1) + 1 = t.rbp - a
  BY ONLY <1>1, <1>4, <1>5, <1>6, <1>7, <1>8, <1>9
<1>11. t.stack[t.rbp - a] \in Plain
  BY <1>7, <1>10
<1> QED
  BY <1>10, <1>11, PlainWords DEF Array_get

(* MPICK copies an argument, which the caller's code has put there, into   *)
(* a variable.                                                             *)
LEMMA MPickStep ==
  ASSUME Verified(image), MachineSound, SubMPick
  PROVE  MachineSound' /\ KeepsFrame
<1> DEFINE least == Least(image, this.pc)
           w == Array_get(mstack, this.rbp - inst.a - 1)
           r == Array_put(mstack, this.rbp + inst.b, w)
<1>1. /\ SubAt("MPICK") /\ onward = Behind(image, this.pc) /\ inst = image.code[this.pc]
      /\ inst.op = "MPICK" /\ OperandsFit(inst) /\ this \in Threads
      /\ Kept(this, mstack) /\ Height(this, mstack) \in Nat
      /\ FloorOf(this) \in Nat /\ this.rbp \in Nat /\ FloorOf(this) <= this.rbp
      /\ least \in Nat /\ Height(this, mstack) >= least
  BY Working DEF SubMPick
<1>2. w \in Plain
  <2>1. /\ Sound(image, this, First) /\ Inside(image, this, First) /\ Begins(image, First)
        /\ OpAt(image, this.pc) = "MPICK" /\ this \in Threads
    BY <1>1, Running
  <2> QED
    BY <1>1, <2>1, PickedPlain DEF mstack
<1>3. /\ threads' = [threads EXCEPT ![process] = [this EXCEPT !.pc = onward, !.stack = r]]
      /\ UNCHANGED <<image, Main>> /\ UNCHANGED <<process, turn>> /\ UNCHANGED <<Memory, output>>
  BY DEF SubMPick, Continue, Becomes
<1> HIDE DEF w
<1>4. this.rbp + inst.b \in Nat /\ this.rbp + inst.b >= FloorOf(this)
  BY <1>1 DEF OperandsFit
<1>5. Kept(this, r) /\ Height(this, r) >= Height(this, mstack)
  BY <1>1, <1>2, <1>4, KeptPut
<1>6. Continues(image, this.pc, onward, least)
  BY <1>1, Running, BodyVerified
<1>7. Height(this, r) \in Int
  BY <1>1, <1>5 DEF Height, Kept
<1>8. least \in Int /\ Height(this, r) >= least
  BY <1>1, <1>5, <1>7
<1> QED
  BY <1>1, <1>3, <1>5, <1>6, <1>8, QuietStep

----------------------------------------------------------------------------
(* Calls, frames and returns.                                              *)
LEMMA QuietSound ==
  ASSUME Verified(image), MachineSound, NEW op, SubAt(op), op # "EOE",
         NEW u \in Threads, u.base = this.base, u.flag = this.flag,
         Sound(image, u, First), KeepsFirst(this.stack, u.stack),
         threads' = [threads EXCEPT ![process] = u],
         UNCHANGED <<image, Main>>, Yields \/ UNCHANGED <<process, turn>>,
         UNCHANGED <<Memory, output>>
  PROVE  MachineSound'
<1>1. /\ GM \in Seq(Plain) /\ OutputTyped
  BY TypeParts DEF MachineSound
<1>2. /\ GM' \in Seq(Plain) /\ Len(GM') >= Len(GM) /\ OutputTyped' /\ gmRbp' = gmRbp
  BY <1>1 DEF Memory, OutputTyped
<1> QED
  BY <1>2, SoundStep

(* CALL leaves the number of arguments and the way back and stands in      *)
(* front of a body's MSUB.                                                 *)
LEMMA CallStep ==
  ASSUME Verified(image), MachineSound, SubCall
  PROVE  MachineSound'
<1> DEFINE r == mstack \o <<address(inst.a), address(onward)>>
<1>1. /\ SubAt("CALL") /\ onward = Behind(image, this.pc) /\ inst = image.code[this.pc]
      /\ inst.op = "CALL" /\ OperandsFit(inst) /\ this \in Threads
  BY Working DEF SubCall
<1>2. /\ Sound(image, this, First) /\ this.pc \in Reached(image) /\ OpAt(image, this.pc) = "CALL"
      /\ SubVerified(image, this.pc)
  BY <1>1, Running
<1>3. /\ Target(image, this.pc) \in Nat /\ onward + inst.b = Target(image, this.pc)
      /\ onward \in Nat /\ inst.a \in Nat
  <2>1. Target(image, this.pc) \in Reached(image)
    BY <1>1, <1>2 DEF SubVerified, Calls
  <2>2. onward = this.pc + CALLSIZE /\ this.pc \in Nat
    BY <1>1, <1>2, CallSize, VerifiedCode
  <2>3. Target(image, this.pc) \in Nat
    BY <2>1, VerifiedCode
  <2> QED
    BY <1>1, <2>2, <2>3 DEF Target, CALLSIZE, INT, OperandsFit
<1>4. PICK u : u = [this EXCEPT !.pc = onward + inst.b, !.stack = r]
  OBVIOUS
<1>5. r \in Seq(Elements)
  <2>1. address(inst.a) \in Elements /\ address(onward) \in Elements
    BY <1>3 DEF address, Value, Elements
  <2>2. mstack \in Seq(Elements)
    BY <1>1 DEF mstack, Threads
  <2> QED
    BY <2>1, <2>2
<1>6. /\ u \in Threads /\ u.pc = Target(image, this.pc) /\ u.stack = r /\ u.rbp = this.rbp
      /\ u.base = this.base /\ u.flag = this.flag
  BY <1>1, <1>3, <1>4, <1>5 DEF Threads
<1>7. u.stack = this.stack \o <<address(image.code[this.pc].a), address(Behind(image, this.pc))>>
  BY <1>1, <1>6 DEF mstack
<1>8. Sound(image, u, First) /\ KeepsFirst(this.stack, u.stack)
  BY <1>1, <1>2, <1>6, <1>7, CallSound
<1>9. /\ threads' = [threads EXCEPT ![process] = u]
      /\ UNCHANGED <<image, Main>> /\ Yields /\ UNCHANGED <<Memory, output>>
  BY <1>4 DEF SubCall, YieldAt, Yield
<1> QED
  BY <1>1, <1>6, <1>8, <1>9, QuietSound

NewFrame(s, b, a) == s \o <<b>> \o Nils(a)

(* A stack with a base point and room for a variables on top.              *)
LEMMA FrameWords ==
  ASSUME NEW s \in Seq(Elements), NEW b \in Elements, NEW a \in Nat
  PROVE  /\ NewFrame(s, b, a) \in Seq(Elements) /\ Len(NewFrame(s, b, a)) = Len(s) + 1 + a
         /\ NewFrame(s, b, a)[Len(s) + 1] = b
         /\ Agree(s, NewFrame(s, b, a), Len(s)) /\ PlainAbove(NewFrame(s, b, a), Len(s) + 1)
<1>0. PICK r : r = NewFrame(s, b, a)
  OBVIOUS
<1> DEFINE x == Append(s, b)
           top == Len(s) + 1
<1>1. /\ x \in Seq(Elements) /\ Len(x) = top /\ x[top] = b /\ top \in Nat /\ top >= 1
      /\ \A k \in 1 .. top - 1 : x[k] = s[k]
  OBVIOUS
<1>2. /\ Nils(a) \in Seq(Elements) /\ Len(Nils(a)) = a
      /\ \A k \in 1 .. a : Nils(a)[k] = nil
  BY NilWords, PlainWords DEF Nils
<1>3. r = x \o Nils(a)
  <2>1. s \o <<b>> = x
    OBVIOUS
  <2> QED
    BY <1>0, <2>1 DEF NewFrame
<1> HIDE DEF x, top
<1>4. /\ r \in Seq(Elements) /\ Len(r) = top + a
      /\ \A k \in 1 .. top : r[k] = x[k]
      /\ \A k \in 1 .. a : r[top + k] = nil
  <2>1. PICK y : y = Nils(a)
    OBVIOUS
  <2>2. x \in Seq(Elements) /\ y \in Seq(Elements)
    BY <1>1, <1>2, <2>1
  <2>3. /\ x \o y \in Seq(Elements) /\ Len(x \o y) = Len(x) + Len(y)
        /\ \A k \in 1 .. Len(x) : (x \o y)[k] = x[k]
        /\ \A k \in 1 .. Len(y) : (x \o y)[Len(x) + k] = y[k]
    BY ONLY <2>2
  <2>4. Len(y) = a /\ Len(x) = top /\ r = x \o y /\ \A k \in 1 .. a : y[k] = nil
    BY <1>1, <1>2, <1>3, <2>1
  <2> QED
    BY ONLY <2>3, <2>4
<1>5. r[top] = b
  <2>1. top \in 1 .. top
    BY <1>1
  <2> QED
    BY <1>1, <1>4, <2>1
<1>6. Agree(s, r, Len(s)) /\ top = Len(s) + 1
  BY <1>1, <1>4 DEF Agree, top
<1>7. PlainAbove(r, top)
  <2>1. ASSUME NEW k \in top + 1 .. top + a
        PROVE  r[k] \in Plain
    <3>1. k - top \in 1 .. a /\ top + (k - top) = k
      BY <1>1
    <3> QED
      BY <1>4, <3>1, PlainWords
  <2> QED
    BY <1>4, <2>1 DEF PlainAbove
<1> QED
  BY <1>0, <1>1, <1>4, <1>5, <1>6, <1>7

(* MSUB makes the frame of the body it begins.                             *)
LEMMA MSubStep ==
  ASSUME Verified(image), MachineSound, SubMSub
  PROVE  MachineSound'
<1> DEFINE r == mstack \o <<new_Basepoint(this.rbp)>> \o Nils(inst.a)
           top == Len(mstack) + 1
<1>1. /\ SubAt("MSUB") /\ this \in Threads /\ Sound(image, this, First)
      /\ this.pc \in Reached(image) /\ OpAt(image, this.pc) = "MSUB"
      /\ KindAt(image, this.pc) # "main"
  BY Running DEF SubMSub
<1>2. /\ inst = image.code[this.pc] /\ onward = Behind(image, this.pc) /\ inst.op = "MSUB"
  BY <1>1 DEF inst, onward, code, Behind, OpAt
<1>3. inst.a \in Nat /\ Continues(image, this.pc, onward, inst.a) /\ onward \in Nat
  <2>1. inst.a \in Nat /\ Continues(image, this.pc, onward, inst.a)
    BY <1>1, <1>2, BodyVerified
  <2> QED
    BY <2>1, VerifiedCode DEF Continues
<1>4. mstack \in Seq(Elements) /\ new_Basepoint(this.rbp) \in Elements
  BY <1>1 DEF mstack, Threads, new_Basepoint, Value, Elements
<1>5. /\ r \in Seq(Elements) /\ Len(r) = top + inst.a /\ r[top] = new_Basepoint(this.rbp)
      /\ top \in Nat /\ Agree(mstack, r, top - 1) /\ PlainAbove(r, top)
  <2>1. PICK b : b = new_Basepoint(this.rbp)
    OBVIOUS
  <2>2. PICK s : s = mstack
    OBVIOUS
  <2>3. PICK a : a = inst.a
    OBVIOUS
  <2>4. s \in Seq(Elements) /\ b \in Elements /\ a \in Nat
    BY <1>3, <1>4, <2>1, <2>2, <2>3
  <2>5. r = NewFrame(s, b, a) /\ top = Len(s) + 1 /\ top \in Nat /\ top - 1 = Len(s)
    BY <2>1, <2>2, <2>3, <2>4 DEF NewFrame
  <2> HIDE DEF r, top
  <2>6. /\ NewFrame(s, b, a) \in Seq(Elements) /\ Len(NewFrame(s, b, a)) = Len(s) + 1 + a
        /\ NewFrame(s, b, a)[Len(s) + 1] = b
        /\ Agree(s, NewFrame(s, b, a), Len(s)) /\ PlainAbove(NewFrame(s, b, a), Len(s) + 1)
    BY ONLY <2>4, FrameWords
  <2>7. Len(r) = top + a /\ r[top] = b
    BY <2>5, <2>6
  <2>8. Agree(s, r, top - 1) /\ PlainAbove(r, top)
    BY <2>5, <2>6
  <2> QED
    BY <2>1, <2>2, <2>3, <2>5, <2>6, <2>7, <2>8
<1>6. PICK u : u = [this EXCEPT !.pc = onward, !.rbp = top, !.stack = r]
  OBVIOUS
<1>7. /\ threads' = [threads EXCEPT ![process] = u]
      /\ UNCHANGED <<image, Main>> /\ UNCHANGED <<process, turn>> /\ UNCHANGED <<Memory, output>>
  <2>1. u = [this EXCEPT !.pc = onward, !.rbp = Len(mstack) + 1,
                          !.stack = @ \o <<new_Basepoint(this.rbp)>> \o Nils(inst.a)]
    BY <1>6 DEF mstack
  <2> QED
    BY <2>1 DEF SubMSub, Becomes
<1> HIDE DEF r, top
<1>8. /\ u \in Threads /\ u.pc = onward /\ u.stack = r /\ u.rbp = top
      /\ u.base = this.base /\ u.flag = this.flag
  BY <1>1, <1>3, <1>5, <1>6 DEF Threads
<1>9. Sound(image, u, First) /\ KeepsFirst(this.stack, u.stack)
  <2>1. /\ top \in Nat /\ top = Len(this.stack) + 1 /\ inst.a = image.code[this.pc].a
        /\ u.pc = Behind(image, this.pc) /\ u.rbp = top /\ Len(u.stack) = top + inst.a
        /\ u.stack[top] = new_Basepoint(this.rbp)
        /\ Agree(this.stack, u.stack, top - 1) /\ PlainAbove(u.stack, top)
    BY <1>2, <1>5, <1>8 DEF top, mstack
  <2> QED
    BY <1>1, <1>3, <1>8, <2>1, MSubSound
<1> QED
  BY <1>1, <1>7, <1>8, <1>9, QuietSound

(* RET takes the frame away and goes back behind the call.                 *)
LEMMA RetStep ==
  ASSUME Verified(image), MachineSound, SubRet
  PROVE  MachineSound'
<1> DEFINE frame == Array_pop(mstack, 1)
           caller == Below(frame)
           below == frame[BasePoint(frame)].n
<1>1. /\ SubAt("RET") /\ this \in Threads /\ Sound(image, this, First)
      /\ Inside(image, this, First) /\ Begins(image, First) /\ OpAt(image, this.pc) = "RET"
  BY Running DEF SubRet
<1>2. PICK to \in _Integer_value(Top(caller)),
           num_arg \in _Integer_value(Top(Array_pop(caller, 1))) :
        Yield([this EXCEPT !.pc = to, !.rbp = below,
                 !.stack = Append(Array_pop(caller, 2 + num_arg), Top(mstack))])
  BY DEF SubRet
<1>3. PICK r : r = Append(Array_pop(caller, 2 + num_arg), Top(mstack))
  OBVIOUS
<1>4. /\ to \in Nat /\ below \in Nat /\ r \in Seq(Elements)
      /\ \A u \in Threads : u.pc = to /\ u.rbp = below /\ u.stack = r =>
           Sound(image, u, First) /\ KeepsFirst(this.stack, r)
  BY <1>1, <1>2, <1>3, RetSound DEF mstack
<1>5. PICK u : u = [this EXCEPT !.pc = to, !.rbp = below, !.stack = r]
  OBVIOUS
<1>6. /\ threads' = [threads EXCEPT ![process] = u] /\ UNCHANGED <<image, Main>> /\ Yields
      /\ UNCHANGED <<Memory, output>>
  BY <1>2, <1>3, <1>5 DEF Yield, SubRet
<1> HIDE DEF frame, caller, below
<1>7. /\ u \in Threads /\ u.pc = to /\ u.rbp = below /\ u.stack = r
      /\ u.base = this.base /\ u.flag = this.flag
  BY <1>1, <1>4, <1>5 DEF Threads
<1>8. Sound(image, u, First) /\ KeepsFirst(this.stack, u.stack)
  BY <1>4, <1>7
<1> QED
  BY <1>1, <1>6, <1>7, <1>8, QuietSound

(* The frame of a handler's loop ends with its body: MPOP empties the      *)
(* stack, and the base point it takes back is the one the thread began with.*)
LEMMA MPopStep ==
  ASSUME Verified(image), MachineSound, SubMPop
  PROVE  MachineSound'
<1> DEFINE below == mstack[BasePoint(mstack)].n
<1>1. /\ SubAt("MPOP") /\ process \in DOMAIN threads /\ this \in Threads
      /\ this.base \in DOMAIN code
      /\ Sound(image, this, First) /\ Inside(image, this, First) /\ Begins(image, First)
      /\ OpAt(image, this.pc) = "MPOP" /\ this.pc \in Reached(image)
      /\ process = 0 => doing \in {"CALL", "GLOBAL", "ENTRY"} /\ SetUpThreadSound(this)
      /\ process # 0 => /\ process \in Handlers /\ doing = "STARTIMP" /\ this.flag = 1
                        /\ HandlerSound(this)
      /\ KindAt(image, First) = "main" => process = 0 /\ doing = "CALL"
      /\ KindAt(image, First) = "global" => process = 0 /\ doing = "GLOBAL"
  BY Running DEF SubMPop
<1>2. onward = Behind(image, this.pc)
  BY <1>1 DEF onward, inst, code, Behind
<1>3. /\ below = mstack[1].n /\ below \in Nat /\ Below(mstack) = <<>>
      /\ KindAt(image, First) = "handler" /\ onward \in Nat /\ onward \in Reached(image)
      /\ OpAt(image, onward) = "EOE"
  <2>1. HasBasePoint(this.stack)
    BY DEF SubMPop, mstack
  <2> QED
    BY <1>1, <1>2, <2>1, MPopSound DEF mstack
<1>4. PICK u : u = [this EXCEPT !.pc = onward, !.rbp = below, !.stack = Below(mstack)]
  OBVIOUS
<1>5. /\ threads' = [threads EXCEPT ![process] = u] /\ UNCHANGED <<image, Main, process, turn>>
      /\ UNCHANGED <<Memory, output>>
  BY <1>4 DEF SubMPop, Becomes
<1>6. /\ u \in Threads /\ u.pc = onward /\ u.rbp = below /\ u.stack = <<>>
      /\ u.base = this.base /\ u.flag = this.flag
  <2>1. <<>> \in Seq(Elements)
    OBVIOUS
  <2> QED
    BY <1>1, <1>3, <1>4, <2>1 DEF Threads
<1>7. Finished(image, u)
  BY <1>3, <1>6 DEF Finished
<1>8. ASSUME process \in Handlers
      PROVE  HandlerSound(u) /\ u.flag = 1
  <2>1. this.flag = 1 /\ HandlerSound(this)
    BY <1>1, <1>8 DEF Handlers
  <2>2. Starts(image, this.base, "handler") /\ below = 1
    BY <1>1, <1>3, <2>1 DEF HandlerSound, Finished, mstack
  <2> QED
    BY <1>6, <1>7, <2>1, <2>2 DEF HandlerSound
<1>9. ASSUME process = 0
      PROVE  SetUpThreadSound(u)
  <2>1. doing # "CALL"
    BY <1>1, <1>3, <1>9, FirstIsMain
  <2>2. doing # "GLOBAL"
    BY <1>1, <1>3, <1>9 DEF SetUpThreadSound, Starts, First
  <2>3. doing = "ENTRY" /\ Starts(image, u.base, "handler")
    BY <1>1, <1>6, <1>9, <2>1, <2>2 DEF SetUpThreadSound
  <2> QED
    BY <1>7, <2>3 DEF SetUpThreadSound
<1>10. /\ GM' \in Seq(Plain) /\ Len(GM') >= Len(GM) /\ OutputTyped' /\ gmRbp' = gmRbp
       /\ turn' \in Handlers \cup {1}
  BY <1>5, TypeParts DEF MachineSound, Memory, OutputTyped
<1>11. u.flag = 1 \/ process = 0
  BY <1>1, <1>8
<1> QED
  BY <1>1, <1>5, <1>6, <1>8, <1>9, <1>10, <1>11, ThreadStep

----------------------------------------------------------------------------
(* The flags that end a call of sub_execute: set-up code goes on.          *)

(* A step into set-up code, from a thread or from set-up code itself.      *)
LEMMA SetUpStep ==
  ASSUME image' = image, process' = MAIN, doing' = "set-up", SetsUp(image, pc', coreLoc'),
         stack' \in Seq(Plain), GM' \in Seq(Plain),
         gmRbp' \in Nat, Len(GM') >= gmRbp' + MAXTHREADSIZE,
         ThreadsTyped', ThreadsSound', OutputTyped', turn' \in Handlers' \cup {1}
  PROVE  MachineSound'
<1>1. MachineTypeOK'
  BY TypeParts DEF MachineTypeOK, ThreadsTyped, OutputTyped
<1>2. ProcessSound'
  BY DEF ProcessSound, ThreadsSound, MAIN, Handlers
<1>3. MainSound'
  BY DEF MainSound
<1>4. MemorySound'
  BY DEF MemorySound
<1> QED
  BY <1>1, <1>2, <1>3, <1>4 DEF MachineSound

(* What set-up code does beside the threads leaves them sound.             *)
LEMMA ThreadsSame ==
  ASSUME MachineSound, UNCHANGED <<image, threads, turn, output>>
  PROVE  ThreadsTyped' /\ ThreadsSound' /\ OutputTyped' /\ turn' \in Handlers' \cup {1}
<1>1. ThreadsTyped /\ ThreadsSound /\ OutputTyped /\ turn \in Handlers \cup {1}
  BY TypeParts DEF MachineSound
<1>2. Handlers' = Handlers /\ code' = code
  BY DEF Handlers, code
<1>3. ThreadsSound'
  BY <1>1, <1>2 DEF ThreadsSound, HandlerSound
<1> QED
  BY <1>1, <1>2, <1>3 DEF ThreadsTyped, OutputTyped

(* Memory that no thread finds too small is big enough for set-up code.    *)
LEMMA MemoryParts ==
  ASSUME MachineSound
  PROVE  /\ GM \in Seq(Plain) /\ stack \in Seq(Plain) /\ gmRbp \in Nat
         /\ ~Loaded => Len(GM) >= gmRbp + MAXTHREADSIZE
         /\ process # MAIN \/ doing # "set-up" => ~Loaded
  BY DEF MachineSound, MachineTypeOK, MemorySound, Loaded

(* GLOBAL_END gives control back to the set-up code behind it.             *)
LEMMA GlobalEndStep ==
  ASSUME Verified(image), MachineSound, GlobalEnd
  PROVE  MachineSound'
<1>1. /\ SubAt("GLOBAL_END") /\ OpAt(image, this.pc) = "GLOBAL_END"
      /\ SubVerified(image, this.pc)
  BY Running DEF GlobalEnd
<1>2. process # MAIN /\ onward = Behind(image, this.pc)
  BY <1>1 DEF SubAt, MAIN, onward, inst, code, Behind
<1>3. SetsUp(image, onward, coreLoc)
  BY <1>1, <1>2 DEF SubVerified, SetsUp, OpAt
<1>4. /\ process' = MAIN /\ doing' = "set-up" /\ pc' = onward
      /\ UNCHANGED <<image, stack, coreLoc, Memory, threads, turn, output>>
  BY DEF GlobalEnd, Leave
<1>5. ThreadsTyped' /\ ThreadsSound' /\ OutputTyped' /\ turn' \in Handlers' \cup {1}
  BY <1>4, ThreadsSame
<1> QED
  BY <1>2, <1>3, <1>4, <1>5, MemoryParts, SetUpStep DEF Memory

(* EOE ends entry(), or leaves the handler idle as it was at first.        *)
LEMMA EndOfEventStep ==
  ASSUME Verified(image), MachineSound, EndOfEvent
  PROVE  MachineSound'
<1>1. /\ SubAt("EOE") /\ process # MAIN /\ process # ENDED /\ process >= 0
      /\ process \in DOMAIN threads /\ MachineTypeOK /\ ThreadsSound /\ ProcessSound /\ MainSound
  BY DEF EndOfEvent, SubAt, MAIN, ENDED, MachineSound, MachineTypeOK
<1>2. CASE doing = "ENTRY"
  <2>1. SetsUp(image, pc, coreLoc)
    BY <1>1, <1>2 DEF MainSound
  <2>2. /\ process' = MAIN /\ doing' = "set-up" /\ pc' = pc
        /\ UNCHANGED <<image, stack, coreLoc, Memory, threads, turn, output>>
    BY <1>2 DEF EndOfEvent, Leave
  <2>3. ThreadsTyped' /\ ThreadsSound' /\ OutputTyped' /\ turn' \in Handlers' \cup {1}
    BY <2>2, ThreadsSame
  <2> QED
    BY <1>1, <2>1, <2>2, <2>3, MemoryParts, SetUpStep DEF Memory
<1>3. CASE doing = "STARTIMP"
  <2>1. process \in Handlers /\ process # 0
    BY <1>1, <1>3 DEF ProcessSound, Handlers
  <2>2. this.flag = 1 /\ HandlerSound(this) /\ this \in Threads /\ this.base \in DOMAIN code
    BY <1>1, <2>1 DEF ProcessSound, ThreadsSound, this, MachineTypeOK
  <2>3. Finished(image, this) /\ this.rbp = 1 /\ Starts(image, this.base, "handler")
    BY <1>1, <2>2 DEF HandlerSound, Sound, SubAt, At, OpAt, code
  <2>4. PICK u : u = [this EXCEPT !.flag = 0, !.pc = this.base]
    OBVIOUS
  <2>5. u = newThread(this.base, <<>>)
    BY <2>2, <2>3, <2>4 DEF newThread, Finished, Threads
  <2>6. /\ u \in Threads /\ u.base = this.base
    <3>1. this.base \in Nat /\ <<>> \in Seq(Elements)
      BY <2>2 DEF Threads
    <3> QED
      BY <2>5, <3>1 DEF newThread, Threads
  <2>7. HandlerSound(u)
    BY <2>3, <2>5 DEF HandlerSound, newThread
  <2>8. threads' = [threads EXCEPT ![process] = u]
    <3>1. threads' = [threads EXCEPT ![process].flag = 0, ![process].pc = this.base]
      BY <1>3 DEF EndOfEvent
    <3> QED
      BY <1>1, <2>4, <3>1 DEF this, MachineTypeOK
  <2>9. /\ UNCHANGED <<image, Main, Memory, output>> /\ Yields
    BY <1>3 DEF EndOfEvent
  <2>10. /\ GM' \in Seq(Plain) /\ Len(GM') >= Len(GM) /\ OutputTyped' /\ gmRbp' = gmRbp
         /\ UNCHANGED doing
    BY <2>9, TypeParts DEF MachineSound, Memory, Main, OutputTyped
  <2>11. process' = MAIN /\ turn' \in Handlers \cup {1}
    BY <1>1, <1>3, <2>9, <2>10, YieldsTurn DEF Yields
  <2> QED
    BY <1>1, <1>3, <2>1, <2>2, <2>6, <2>7, <2>8, <2>9, <2>10, <2>11, ThreadStep
<1> QED
  BY <1>2, <1>3 DEF EndOfEvent

(* EOA goes back behind the advice's call, to the set-up code when that    *)
(* has made it.                                                            *)
LEMMA EndOfAdviceStep ==
  ASSUME Verified(image), MachineSound, EndOfAdvice
  PROVE  MachineSound'
<1> DEFINE caller == Below(mstack)
           below == mstack[BasePoint(mstack)].n
           r == Array_pop(caller, 1)
<1>1. /\ SubAt("EOA") /\ process \in DOMAIN threads /\ this \in Threads /\ this.base \in DOMAIN code
      /\ Sound(image, this, First) /\ Inside(image, this, First) /\ Begins(image, First)
      /\ OpAt(image, this.pc) = "EOA"
      /\ process = 0 => doing \in {"CALL", "GLOBAL", "ENTRY"} /\ SetUpThreadSound(this)
      /\ process # 0 => /\ process \in Handlers /\ doing = "STARTIMP" /\ this.flag = 1
                        /\ HandlerSound(this)
      /\ KindAt(image, First) = "main" => process = 0 /\ doing = "CALL"
  BY Running DEF EndOfAdvice
<1>2. PICK to \in _Integer_value(Top(caller)) :
        threads' = [threads EXCEPT ![process].pc = to, ![process].rbp = below,
                                   ![process].stack = r]
  BY DEF EndOfAdvice
<1>3. /\ to \in Nat /\ below \in Nat /\ r \in Seq(Elements)
      /\ KindAt(image, First) # "main" =>
           \A u \in Threads : u.pc = to /\ u.rbp = below /\ u.stack = r =>
             Sound(image, u, First) /\ KeepsFirst(this.stack, r)
  BY <1>1, <1>2, AdviceSound DEF mstack
<1> HIDE DEF caller, below, r
<1>4. PICK u : u = [this EXCEPT !.pc = to, !.rbp = below, !.stack = r]
  OBVIOUS
<1>5. /\ u \in Threads /\ u.pc = to /\ u.rbp = below /\ u.stack = r
      /\ u.base = this.base /\ u.flag = this.flag
  BY <1>1, <1>3, <1>4 DEF Threads
<1>6. threads' = [threads EXCEPT ![process] = u]
  BY <1>1, <1>2, <1>4, TypeParts DEF this, MachineSound, ThreadsTyped
<1>7. CASE doing = "CALL"
  <2>1. process = 0 /\ process # ENDED /\ process # MAIN
    BY <1>1, <1>7 DEF ENDED, MAIN
  <2>2. SetsUp(image, pc, coreLoc)
    BY <1>7, <2>1 DEF MainSound, MachineSound
  <2>3. /\ process' = MAIN /\ doing' = "set-up" /\ pc' = pc
        /\ UNCHANGED <<image, stack, coreLoc, Memory, turn, output>>
    BY <1>7 DEF EndOfAdvice, Leave
  <2>4. ThreadsTyped /\ ThreadsSound /\ OutputTyped /\ turn \in Handlers \cup {1}
    BY TypeParts DEF MachineSound
  <2>5. /\ DOMAIN threads' = DOMAIN threads /\ Handlers' = Handlers /\ code' = code
        /\ threads' \in [DOMAIN threads -> Threads] /\ threads'[0] = u
        /\ \A i \in Handlers : threads'[i] = threads[i]
    BY <1>5, <1>6, <2>1, <2>3, <2>4 DEF Handlers, ThreadsTyped, code
  <2>6. ThreadsTyped'
    BY <1>1, <1>5, <2>1, <2>4, <2>5 DEF ThreadsTyped, Handlers
  <2>7. ThreadsSound'
    BY <2>3, <2>4, <2>5 DEF ThreadsSound, HandlerSound
  <2>8. OutputTyped' /\ turn' \in Handlers' \cup {1}
    BY <2>3, <2>4, <2>5 DEF OutputTyped
  <2> QED
    BY <2>1, <2>2, <2>3, <2>6, <2>7, <2>8, MemoryParts, SetUpStep DEF Memory
<1>8. CASE doing # "CALL"
  <2>1. Sound(image, u, First) /\ KeepsFirst(this.stack, u.stack)
    BY <1>1, <1>3, <1>5, <1>8
  <2>2. UNCHANGED <<image, Main>> /\ Yields /\ UNCHANGED <<Memory, output>>
    BY <1>8 DEF EndOfAdvice
  <2> QED
    BY <1>1, <1>5, <1>6, <2>1, <2>2, QuietSound
<1> QED
  BY <1>7, <1>8

(* A transition takes every thread but the set-up code's away, and what    *)
(* lies behind the core table.                                             *)
LEMMA OnlySetUpThread ==
  ASSUME Verified(image), image' = image, threads' = OnlyThread(newThread(0, <<>>)),
         output' = OnlyThread(<<>>), turn' = 1
  PROVE  ThreadsTyped' /\ ThreadsSound' /\ OutputTyped' /\ turn' \in Handlers' \cup {1}
<1>1. DOMAIN threads' = {0} /\ threads'[0] = newThread(0, <<>>) /\ Handlers' = {}
  BY DEF OnlyThread, Handlers
<1>2. newThread(0, <<>>) \in Threads /\ newThread(0, <<>>).base = 0
  <2>1. <<>> \in Seq(Elements)
    OBVIOUS
  <2> QED
    BY <2>1 DEF newThread, Threads
<1>3. 0 \in DOMAIN code /\ code' = code
  BY DEF Verified, SetsUp, code
<1>4. ThreadsTyped'
  BY <1>1, <1>2, <1>3 DEF ThreadsTyped, OnlyThread
<1>5. ThreadsSound'
  <2>1. Cardinality({0}) = 1
    BY FS_Singleton
  <2>2. {0} = 0 .. 1 - 1
    OBVIOUS
  <2> QED
    BY <1>1, <2>1, <2>2 DEF ThreadsSound
<1>6. OutputTyped'
  <2>1. <<>> \in Seq(Ints)
    OBVIOUS
  <2> QED
    BY <2>1 DEF OutputTyped, OnlyThread
<1> QED
  BY <1>4, <1>5, <1>6

(* The globals and the core table are as long as they were laid out.       *)
LEMMA CutOffTyped ==
  ASSUME MachineSound, ~Loaded
  PROVE  /\ CutOff \in Seq(Plain) /\ Len(CutOff) = gmRbp + MAXTHREADSIZE
         /\ gmRbp \in Nat /\ gmRbp + MAXTHREADSIZE \in Nat
<1>1. GM \in Seq(Plain) /\ gmRbp \in Nat /\ Len(GM) >= gmRbp + MAXTHREADSIZE
  BY MemoryParts
<1>2. gmRbp + MAXTHREADSIZE \in 0 .. Len(GM)
  BY <1>1, TableAssumption
<1> QED
  BY <1>1, <1>2, PrefixWords DEF CutOff

(* TRANS takes the handlers away and goes on in set-up code; CALL's and    *)
(* GLOBAL's thread is left in front of no instruction.                     *)
LEMMA TransitionStep ==
  ASSUME Verified(image), MachineSound, Transition
  PROVE  MachineSound'
<1>1. /\ SubAt("TRANS") /\ process \in DOMAIN threads /\ this \in Threads
      /\ this.base \in DOMAIN code /\ this.pc \in Reached(image) /\ OpAt(image, this.pc) = "TRANS"
      /\ SubVerified(image, this.pc)
      /\ process = 0 => doing \in {"CALL", "GLOBAL", "ENTRY"} /\ SetUpThreadSound(this)
      /\ process # 0 => /\ process \in Handlers /\ doing = "STARTIMP" /\ this.flag = 1
                        /\ HandlerSound(this)
  BY Running DEF Transition
<1>2. /\ inst = image.code[this.pc] /\ inst.op = "TRANS" /\ process # MAIN
      /\ ~Loaded
  BY <1>1 DEF inst, code, OpAt, SubAt, MAIN, Loaded
<1>3. CASE doing \in {"ENTRY", "STARTIMP"}
  <2>1. /\ process' = MAIN /\ doing' = "set-up" /\ pc' = this.pc + 1 + INT + inst.a
        /\ threads' = OnlyThread(newThread(0, <<>>)) /\ output' = OnlyThread(<<>>) /\ turn' = 1
        /\ GM' = CutOff /\ UNCHANGED <<image, stack, coreLoc, gmRbp>>
    BY <1>3 DEF Transition, Leave
  <2>2. SetsUp(image, pc', coreLoc')
    BY <1>1, <1>2, <2>1 DEF SubVerified, SetsUp
  <2>3. /\ GM' \in Seq(Plain) /\ gmRbp' \in Nat /\ Len(GM') >= gmRbp' + MAXTHREADSIZE
        /\ stack' \in Seq(Plain)
    <3>1. /\ CutOff \in Seq(Plain) /\ Len(CutOff) = gmRbp + MAXTHREADSIZE
          /\ gmRbp \in Nat /\ gmRbp + MAXTHREADSIZE \in Nat
      BY <1>2, CutOffTyped
    <3> QED
      BY <2>1, <3>1, MemoryParts
  <2> QED
    BY <2>1, <2>2, <2>3, OnlySetUpThread, SetUpStep
<1>4. CASE doing \notin {"ENTRY", "STARTIMP"}
  <2>1. process = 0 /\ SetUpThreadSound(this)
    BY <1>1, <1>4
  <2>2. /\ threads' = [threads EXCEPT ![process].pc = @ + 1]
        /\ UNCHANGED <<image, Main, process, turn, GM, output, gmRbp>>
    BY <1>4 DEF Transition
  <2>3. PICK u : u = [this EXCEPT !.pc = @ + 1]
    OBVIOUS
  <2>4. threads' = [threads EXCEPT ![process] = u]
    BY <1>1, <2>2, <2>3, TypeParts DEF this, MachineSound, ThreadsTyped
  <2>5. u \in Threads /\ u.base = this.base /\ u.pc = this.pc + 1
    BY <1>1, <2>3 DEF Threads
  <2>6. SetUpThreadSound(u)
    BY <1>1, <1>2, <2>1, <2>5 DEF SetUpThreadSound, SubVerified, code
  <2>7. /\ GM' \in Seq(Plain) /\ Len(GM') >= Len(GM) /\ OutputTyped' /\ gmRbp' = gmRbp
        /\ turn' \in Handlers \cup {1}
    BY <2>2, TypeParts DEF MachineSound, OutputTyped
  <2> QED
    BY <1>1, <2>1, <2>2, <2>4, <2>5, <2>6, <2>7, ThreadStep DEF Handlers
<1> QED
  BY <1>3, <1>4

----------------------------------------------------------------------------
(* Set-up code.                                                            *)

(* What is known of main_execute in front of an instruction.               *)
LEMMA MainRunning ==
  ASSUME Verified(image), MachineSound, NEW op, MainAt(op)
  PROVE  /\ pc \in Reached(image) /\ OpAt(image, pc) = op /\ pc \in Nat
         /\ Inst = image.code[pc] /\ Inst.op = op /\ Onward = Behind(image, pc)
         /\ SetsUp(image, pc, coreLoc) /\ MainVerified(image, pc)
         /\ process = MAIN /\ doing = "set-up"
         /\ op # "MSET" => ~Loaded
<1>1. process = MAIN /\ doing = "set-up" /\ pc \in DOMAIN code /\ code[pc].op = op
  BY DEF MainAt, At
<1>2. SetsUp(image, pc, coreLoc)
  BY <1>1 DEF MachineSound, MainSound, MAIN, ENDED
<1>3. pc \in Reached(image) /\ OpAt(image, pc) = op
  BY <1>1, <1>2 DEF SetsUp, OpAt, code
<1>4. KindAt(image, pc) = "main"
  BY <1>2 DEF Verified, SetsUp, KindAt
<1>5. pc \in Nat /\ MainVerified(image, pc)
  BY <1>3, <1>4, VerifiedCode
<1>6. Inst = image.code[pc] /\ Inst.op = op /\ Onward = Behind(image, pc)
  BY <1>1 DEF Inst, Onward, Behind, code
<1>7. op # "MSET" => ~Loaded
  BY <1>3 DEF Loaded, Verified
<1> QED
  BY <1>1, <1>2, <1>3, <1>5, <1>6, <1>7

(* Set-up code leads to set-up code.                                       *)
LEMMA MainSuccessor ==
  ASSUME Verified(image), MachineSound, NEW op, MainAt(op), op # "MKCORE" \/ Inst.a = 0,
         NEW s \in Successors(image, pc)
  PROVE  SetsUp(image, s, coreLoc)
<1>1. /\ SetsUp(image, pc, coreLoc) /\ MainVerified(image, pc)
      /\ Inst = image.code[pc] /\ Inst.op = op
  BY MainRunning
<1>2. SetsUp(image, s, Core(image, pc))
  BY <1>1 DEF MainVerified
<1> QED
  BY <1>1, <1>2 DEF SetsUp

(* An instruction of set-up code that leaves the threads alone.            *)
LEMMA MainStep ==
  ASSUME Verified(image), MachineSound, NEW op, MainAt(op), op # "MSET",
         op # "MKCORE" \/ Inst.a = 0, pc' \in Successors(image, pc),
         UNCHANGED <<image, coreLoc, doing, gmRbp, threads, process, turn, output>>,
         stack' \in Seq(Plain), GM' \in Seq(Plain), Len(GM') >= Len(GM)
  PROVE  MachineSound'
<1>1. process = MAIN /\ doing = "set-up" /\ ~Loaded
  BY MainRunning
<1>2. SetsUp(image, pc', coreLoc)
  BY MainSuccessor
<1>3. /\ GM \in Seq(Plain) /\ gmRbp \in Nat /\ Len(GM) >= gmRbp + MAXTHREADSIZE
  BY <1>1, MemoryParts
<1>4. gmRbp' \in Nat /\ Len(GM') >= gmRbp' + MAXTHREADSIZE
  BY <1>3, TableAssumption
<1>5. ThreadsTyped' /\ ThreadsSound' /\ OutputTyped' /\ turn' \in Handlers' \cup {1}
  BY ThreadsSame
<1> QED
  BY <1>1, <1>2, <1>4, <1>5, SetUpStep

(* Set-up code pushes numbers: ...                                         *)
LEMMA MainPushStep ==
  ASSUME Verified(image), MachineSound, NEW op \in {"load", "GET_G"}, MainAt(op),
         NEW w \in Plain, MainPushes(w)
  PROVE  MachineSound'
<1>1. Onward \in Successors(image, pc)
  BY MainRunning, SuccessorsTable
<1>2. stack \in Seq(Plain) /\ GM \in Seq(Plain)
  BY MemoryParts
<1>3. /\ stack' = Append(stack, w) /\ pc' = Onward /\ GM' = GM
      /\ UNCHANGED <<image, coreLoc, doing, gmRbp, threads, process, turn, output>>
  BY DEF MainPushes, Memory
<1>4. stack' \in Seq(Plain) /\ GM' \in Seq(Plain) /\ Len(GM') >= Len(GM)
  BY <1>2, <1>3
<1> QED
  BY <1>1, <1>3, <1>4, MainStep

(* ... a constant ...                                                      *)
LEMMA MainLoadStep ==
  ASSUME Verified(image), MachineSound, MainLoad
  PROVE  MachineSound'
<1>1. Inst.a \in Int
  BY MainRunning DEF MainLoad, MainVerified
<1>2. _newInteger(Inst.a) \in Plain
  BY <1>1, IntegerPlain
<1> QED
  BY <1>2, MainPushStep DEF MainLoad

(* ... or a global variable.                                               *)
LEMMA MainGetGStep ==
  ASSUME Verified(image), MachineSound, MainGetG
  PROVE  MachineSound'
<1>1. Inst.a \in Int /\ GM \in Seq(Plain) /\ nil \in Plain
  BY MainRunning, MemoryParts, PlainWords DEF MainGetG, MainVerified
<1>2. Array_get(GM, Inst.a) \in Plain
  BY <1>1, GetWords
<1> QED
  BY <1>2, MainPushStep DEF MainGetG

(* JUMP skips the bodies between the pieces of set-up code.                *)
LEMMA MainJumpStep ==
  ASSUME Verified(image), MachineSound, MainJump
  PROVE  MachineSound'
<1>1. MainAt("JUMP") /\ pc' \in Successors(image, pc)
  BY MainRunning, SuccessorsTable DEF MainJump
<1>2. stack \in Seq(Plain) /\ GM \in Seq(Plain)
  BY MemoryParts
<1>3. /\ stack' = stack /\ GM' = GM
      /\ UNCHANGED <<image, coreLoc, doing, gmRbp, threads, process, turn, output>>
  BY DEF MainJump, Memory
<1> QED
  BY <1>1, <1>2, <1>3, MainStep

(* COPYCORE goes on or skips the set-up of the event function.             *)
LEMMA CopyCoreStep ==
  ASSUME Verified(image), MachineSound, CopyCore
  PROVE  MachineSound'
<1>1. MainAt("COPYCORE") /\ pc' \in Successors(image, pc)
  BY MainRunning, SuccessorsTable DEF CopyCore
<1>2. stack \in Seq(Plain) /\ GM \in Seq(Plain)
  BY MemoryParts
<1>3. /\ stack' = stack /\ GM' = GM
      /\ UNCHANGED <<image, coreLoc, doing, gmRbp, threads, process, turn, output>>
  BY DEF CopyCore, Memory
<1> QED
  BY <1>1, <1>2, <1>3, MainStep

(* MKTHREAD touches only what CoreTable models.                            *)
LEMMA MkThreadStep ==
  ASSUME Verified(image), MachineSound, MkThread
  PROVE  MachineSound'
<1>1. MainAt("MKTHREAD") /\ pc' \in Successors(image, pc)
  BY MainRunning, SuccessorsTable DEF MkThread
<1>2. stack \in Seq(Plain) /\ GM \in Seq(Plain)
  BY MemoryParts
<1>3. /\ stack' = stack /\ GM' = GM
      /\ UNCHANGED <<image, coreLoc, doing, gmRbp, threads, process, turn, output>>
  BY DEF MkThread, Memory
<1> QED
  BY <1>1, <1>2, <1>3, MainStep

(* SETCORE takes the values the event function is set up with.             *)
LEMMA SetCoreStep ==
  ASSUME Verified(image), MachineSound, SetCore
  PROVE  MachineSound'
<1>1. MainAt("SETCORE") /\ pc' \in Successors(image, pc)
  BY MainRunning, SuccessorsTable DEF SetCore
<1>2. stack \in Seq(Plain) /\ GM \in Seq(Plain)
  BY MemoryParts
<1>3. /\ stack' = Array_pop(stack, Inst.a) /\ GM' = GM
      /\ UNCHANGED <<image, coreLoc, doing, gmRbp, threads, process, turn, output>>
  BY DEF SetCore, Memory
<1>4. Array_pop(stack, Inst.a) \in Seq(Plain)
  <2>1. Inst.a \in 0 .. Len(stack)
    BY <1>2, MainRunning DEF SetCore, MainVerified
  <2> QED
    BY <1>2, <2>1, PopWords
<1> QED
  BY <1>1, <1>2, <1>3, <1>4, MainStep

(* DEFINE_L stores in the variables of the state.                          *)
LEMMA MainDefineLStep ==
  ASSUME Verified(image), MachineSound, MainDefineL
  PROVE  MachineSound'
<1>1. /\ MainAt("DEFINE_L") /\ pc' \in Successors(image, pc) /\ Inst.a \in Nat
  BY MainRunning, SuccessorsTable DEF MainDefineL, MainVerified
<1>2. stack \in Seq(Plain) /\ GM \in Seq(Plain) /\ gmRbp + Inst.a \in Nat
  BY <1>1, MemoryParts
<1>3. /\ stack' = Array_pop(stack, 1) /\ GM' = Array_put(GM, gmRbp + Inst.a, Top(stack))
      /\ UNCHANGED <<image, coreLoc, doing, gmRbp, threads, process, turn, output>>
  BY DEF MainDefineL
<1>4. Top(stack) \in Plain /\ 1 \in 0 .. Len(stack) /\ nil \in Plain
  BY <1>2, PlainWords DEF MainDefineL, Top
<1>5. Array_pop(stack, 1) \in Seq(Plain)
  BY <1>2, <1>4, PopWords
<1>6. /\ Array_put(GM, gmRbp + Inst.a, Top(stack)) \in Seq(Plain)
      /\ Len(Array_put(GM, gmRbp + Inst.a, Top(stack))) >= Len(GM)
  BY <1>2, <1>4, PutPlain
<1> QED
  BY <1>1, <1>3, <1>5, <1>6, MainStep

(* MSET lays out the globals and the core table.                           *)
LEMMA MSetStep ==
  ASSUME Verified(image), MachineSound, MSet
  PROVE  MachineSound'
<1>1. /\ MainAt("MSET") /\ pc' \in Successors(image, pc) /\ Inst.a \in Nat
      /\ process = MAIN /\ doing = "set-up"
  BY MainRunning, SuccessorsTable DEF MSet, MainVerified
<1>2. stack \in Seq(Plain) /\ GM \in Seq(Plain)
  BY MemoryParts
<1>3. /\ gmRbp' = Inst.a /\ GM' = GM \o Nils(Inst.a) \o Nils(Inst.a + MAXTHREADSIZE)
      /\ UNCHANGED <<image, stack, coreLoc, doing, threads, process, turn, output>>
  BY DEF MSet
<1>4. SetsUp(image, pc', coreLoc)
  BY <1>1, MainSuccessor
<1>5. GM' \in Seq(Plain) /\ Len(GM') >= gmRbp' + MAXTHREADSIZE
  <2>1. PICK globals : globals = Nils(Inst.a)
    OBVIOUS
  <2>2. PICK rest : rest = Nils(Inst.a + MAXTHREADSIZE)
    OBVIOUS
  <2>3. /\ globals \in Seq({nil}) /\ Len(globals) = Inst.a
        /\ rest \in Seq({nil}) /\ Len(rest) = Inst.a + MAXTHREADSIZE
    <3>1. Inst.a + MAXTHREADSIZE \in Nat
      BY <1>1, TableAssumption
    <3> QED
      BY <1>1, <2>1, <2>2, <3>1, NilWords
  <2>4. {nil} \subseteq Plain
    BY PlainWords
  <2>5. PICK low : low = GM \o globals
    OBVIOUS
  <2>6. low \in Seq(Plain) /\ Len(low) = Len(GM) + Inst.a
    BY <1>2, <2>3, <2>4, <2>5
  <2>7. GM' = low \o rest
    BY <1>3, <2>1, <2>2, <2>5
  <2>8. GM' \in Seq(Plain) /\ Len(GM') = Len(low) + Len(rest)
    <3>1. rest \in Seq(Plain)
      BY <2>3, <2>4
    <3>2. low \o rest \in Seq(Plain) /\ Len(low \o rest) = Len(low) + Len(rest)
      BY ONLY <2>6, <3>1
    <3> QED
      BY <2>7, <3>2
  <2> QED
    BY <1>1, <1>2, <1>3, <2>3, <2>6, <2>8, TableAssumption
<1>6. ThreadsTyped' /\ ThreadsSound' /\ OutputTyped' /\ turn' \in Handlers' \cup {1}
  BY <1>3, ThreadsSame
<1> QED
  BY <1>1, <1>2, <1>3, <1>4, <1>5, <1>6, SetUpStep

(* MKCORE with events cuts the memory off and remembers where the code of  *)
(* the core's handlers is counted from.                                    *)
LEMMA MkCoreStep ==
  ASSUME Verified(image), MachineSound, MkCore
  PROVE  MachineSound'
<1>1. /\ MainAt("MKCORE") /\ pc' = Onward /\ Onward \in Successors(image, pc)
      /\ process = MAIN /\ doing = "set-up" /\ ~Loaded /\ MainVerified(image, pc)
      /\ Inst = image.code[pc] /\ Onward = Behind(image, pc) /\ Inst.op = "MKCORE"
  BY MainRunning, SuccessorsTable DEF MkCore
<1>2. stack \in Seq(Plain) /\ GM \in Seq(Plain)
  BY MemoryParts
<1>3. UNCHANGED <<image, stack, doing, gmRbp, threads, process, turn, output>>
  BY DEF MkCore
<1>4. CASE Inst.a = 0
  <2>1. UNCHANGED <<coreLoc, GM>>
    BY <1>4 DEF MkCore
  <2> QED
    BY <1>1, <1>2, <1>3, <1>4, <2>1, MainStep
<1>5. CASE Inst.a # 0
  <2>1. coreLoc' = Onward /\ GM' = CutOff
    BY <1>5 DEF MkCore
  <2>2. SetsUp(image, pc', coreLoc')
    BY <1>1, <1>5, <2>1 DEF MainVerified
  <2>3. /\ GM' \in Seq(Plain) /\ gmRbp' \in Nat /\ Len(GM') >= gmRbp' + MAXTHREADSIZE
    <3>1. /\ CutOff \in Seq(Plain) /\ Len(CutOff) = gmRbp + MAXTHREADSIZE
          /\ gmRbp \in Nat /\ gmRbp + MAXTHREADSIZE \in Nat
      BY <1>1, CutOffTyped
    <3> QED
      BY <1>3, <2>1, <3>1
  <2>4. ThreadsTyped' /\ ThreadsSound' /\ OutputTyped' /\ turn' \in Handlers' \cup {1}
    BY <1>3, ThreadsSame
  <2> QED
    BY <1>1, <1>2, <1>3, <2>2, <2>3, <2>4, SetUpStep
<1> QED
  BY <1>4, <1>5

(* A thread of its own: CALL, GLOBAL and ENTRY.                            *)
LEMMA EnterStep ==
  ASSUME Verified(image), MachineSound, NEW op \in {"CALL", "GLOBAL", "ENTRY"}, MainAt(op),
         NEW at, NEW elements \in Seq(Elements), Enter(op, at, elements),
         at \in Reached(image), Sound(image, newThread(at, elements), IF op = "CALL" THEN 0 ELSE at),
         op = "GLOBAL" => Starts(image, at, "global"),
         op = "ENTRY" => Starts(image, at, "handler"),
         op # "GLOBAL" => Onward \in Successors(image, pc)
  PROVE  MachineSound'
<1>1. process = MAIN /\ doing = "set-up" /\ ~Loaded
  BY MainRunning
<1>2. /\ ThreadsTyped /\ ThreadsSound /\ OutputTyped /\ turn \in Handlers \cup {1}
      /\ stack \in Seq(Plain) /\ GM \in Seq(Plain)
  BY TypeParts DEF MachineSound
<1>3. PICK u : u = newThread(at, elements)
  OBVIOUS
<1>4. /\ u \in Threads /\ u.base = at /\ u.pc = at /\ u.flag = 0
      /\ at \in DOMAIN code
  BY <1>3, VerifiedCode DEF newThread, Threads, code
<1>5. /\ threads' = [threads EXCEPT ![0] = u] /\ process' = 0 /\ doing' = op /\ pc' = Onward
      /\ output' = [output EXCEPT ![0] = <<>>]
      /\ UNCHANGED <<image, stack, coreLoc, gmRbp, turn>> /\ GM' = GM
  BY <1>3 DEF Enter, Memory
<1>6. /\ DOMAIN threads' = DOMAIN threads /\ Handlers' = Handlers /\ code' = code
      /\ threads' \in [DOMAIN threads -> Threads] /\ threads'[0] = u
      /\ \A i \in Handlers : threads'[i] = threads[i]
  BY <1>2, <1>4, <1>5 DEF Handlers, ThreadsTyped, code
<1>7. ThreadsTyped'
  BY <1>2, <1>4, <1>6 DEF ThreadsTyped, Handlers
<1>8. ThreadsSound'
  BY <1>2, <1>5, <1>6 DEF ThreadsSound, HandlerSound
<1>9. OutputTyped'
  <2>1. <<>> \in Seq(Ints)
    OBVIOUS
  <2> QED
    BY <1>2, <1>5, <2>1 DEF OutputTyped
<1>10. MachineTypeOK'
  <2>1. 0 \in DOMAIN threads'
    BY <1>2, <1>6 DEF ThreadsTyped
  <2>2. /\ process' \in DOMAIN threads' \cup {MAIN, ENDED}
        /\ doing' \in {"set-up", "CALL", "GLOBAL", "ENTRY", "STARTIMP"}
        /\ turn' \in Handlers' \cup {1} /\ GM' \in Seq(Plain) /\ stack' \in Seq(Plain)
    BY <1>2, <1>5, <1>6, <2>1
  <2> QED
    BY <1>7, <1>9, <2>2 DEF MachineTypeOK, ThreadsTyped, OutputTyped
<1>11. ProcessSound'
  <2>1. (SetUpThreadSound(threads[0]))'
    BY <1>3, <1>4, <1>5, <1>6 DEF SetUpThreadSound, FirstBody
  <2> QED
    BY <1>5, <2>1 DEF ProcessSound, MAIN, Handlers
<1>12. MainSound'
  <2>1. op # "GLOBAL" => SetsUp(image, Onward, coreLoc)
    BY MainSuccessor
  <2> QED
    BY <1>5, <2>1 DEF MainSound
<1>13. MemorySound'
  BY <1>1, <1>5, MemoryParts DEF MemorySound
<1> QED
  BY <1>8, <1>10, <1>11, <1>12, <1>13 DEF MachineSound

(* main_execute's CALL begins a thread in front of an advice's MSUB, ...   *)
LEMMA MainCallStep ==
  ASSUME Verified(image), MachineSound, MainCall
  PROVE  MachineSound'
<1> DEFINE at == Onward + Inst.b
           elements == <<new_Basepoint(0), address(Inst.a), address(Onward)>>
<1>1. /\ MainAt("CALL") /\ SetsUp(image, pc, coreLoc) /\ OpAt(image, pc) = "CALL"
      /\ MainVerified(image, pc) /\ pc \in Nat /\ Onward \in Successors(image, pc)
      /\ Inst = image.code[pc] /\ Inst.op = "CALL" /\ Onward = Behind(image, pc)
  BY MainRunning, SuccessorsTable DEF MainCall
<1>2. at = Target(image, pc) /\ at \in Reached(image) /\ Inst.a = 0
  BY <1>1 DEF MainVerified, Calls, Target
<1>3. Onward \in Nat
  <2>1. Onward = pc + CALLSIZE
    BY <1>1, CallSize
  <2> QED
    BY <1>1, <2>1 DEF CALLSIZE, INT
<1>4. elements \in Seq(Elements)
  <2>1. /\ new_Basepoint(0) \in Elements /\ address(Inst.a) \in Elements
        /\ address(Onward) \in Elements
    BY <1>2, <1>3 DEF new_Basepoint, address, Value, Elements
  <2> QED
    BY <2>1
<1>5. PICK t : t = newThread(at, elements)
  OBVIOUS
<1>6. /\ t \in Threads /\ t.pc = Target(image, pc) /\ t.rbp = 1
      /\ t.stack = <<new_Basepoint(0), address(image.code[pc].a), address(Behind(image, pc))>>
  BY <1>1, <1>2, <1>4, <1>5, VerifiedCode DEF newThread, Threads
<1>7. Sound(image, t, 0)
  BY <1>1, <1>6, FreshCall
<1>8. Enter("CALL", at, elements)
  BY DEF MainCall
<1> HIDE DEF at, elements
<1> QED
  BY <1>1, <1>2, <1>4, <1>5, <1>7, <1>8, EnterStep

(* ... GLOBAL one in the body that follows ...                             *)
LEMMA MainGlobalStep ==
  ASSUME Verified(image), MachineSound, MainGlobal
  PROVE  MachineSound'
<1>1. /\ MainAt("GLOBAL") /\ Starts(image, Onward, "global")
  BY MainRunning DEF MainGlobal, MainVerified
<1>2. PICK at : at = Onward
  OBVIOUS
<1>3. PICK t : t = newThread(at, <<>>)
  OBVIOUS
<1>4. at \in Reached(image) /\ <<>> \in Seq(Elements) /\ Starts(image, at, "global")
  BY <1>1, <1>2 DEF Starts
<1>5. t \in Threads /\ t.pc = at /\ t.rbp = 1 /\ t.stack = <<>>
  BY <1>3, <1>4, VerifiedCode DEF newThread, Threads
<1>6. Points(t.stack) \subseteq {1} /\ PlainAbove(t.stack, Floor(t.stack, 1))
  BY <1>5 DEF Points, PlainAbove, Floor
<1>7. Sound(image, t, at)
  BY <1>4, <1>5, <1>6, FreshSound
<1>8. Enter("GLOBAL", at, <<>>)
  BY <1>2 DEF MainGlobal
<1> QED
  BY <1>1, <1>3, <1>4, <1>7, <1>8, EnterStep

(* ... and ENTRY one in entry().                                           *)
LEMMA MainEntryStep ==
  ASSUME Verified(image), MachineSound, MainEntry
  PROVE  MachineSound'
<1>1. /\ MainAt("ENTRY") /\ Starts(image, Onward + Inst.a, "handler")
      /\ Onward \in Successors(image, pc)
  BY MainRunning, SuccessorsTable DEF MainEntry, MainVerified
<1>2. PICK at : at = Onward + Inst.a
  OBVIOUS
<1>3. PICK elements : elements = <<new_Basepoint(0)>>
  OBVIOUS
<1>4. PICK t : t = newThread(at, elements)
  OBVIOUS
<1>5. at \in Reached(image) /\ elements \in Seq(Elements) /\ Starts(image, at, "handler")
  <2>1. new_Basepoint(0) \in Elements
    BY DEF new_Basepoint, Value, Elements
  <2> QED
    BY <1>1, <1>2, <1>3, <2>1 DEF Starts
<1>6. t \in Threads /\ t.pc = at /\ t.rbp = 1 /\ t.stack = elements
  BY <1>4, <1>5, VerifiedCode DEF newThread, Threads
<1>7. Points(t.stack) \subseteq {1} /\ PlainAbove(t.stack, Floor(t.stack, 1))
  BY <1>3, <1>6 DEF Points, PlainAbove, Floor, new_Basepoint, Value
<1>8. Sound(image, t, at)
  BY <1>5, <1>6, <1>7, FreshSound
<1>9. Enter("ENTRY", at, elements)
  BY <1>2, <1>3 DEF MainEntry
<1> QED
  BY <1>1, <1>4, <1>5, <1>8, <1>9, EnterStep

(* SETTHREAD appends an idle handler.                                      *)
LEMMA SetThreadStep ==
  ASSUME Verified(image), MachineSound, SetThread
  PROVE  MachineSound'
<1> DEFINE new == Cardinality(DOMAIN threads)
           at == coreLoc + Inst.a
<1>1. /\ MainAt("SETTHREAD") /\ Onward \in Successors(image, pc) /\ pc' = Onward
      /\ process = MAIN /\ doing = "set-up" /\ ~Loaded /\ MainVerified(image, pc)
      /\ Inst = image.code[pc] /\ Inst.op = "SETTHREAD" /\ SetsUp(image, pc, coreLoc)
  BY MainRunning, SuccessorsTable DEF SetThread
<1>2. SetsUp(image, pc', coreLoc)
  BY <1>1, MainSuccessor
<1>3. Starts(image, at, "handler")
  BY <1>1 DEF MainVerified, SetsUp
<1>4. /\ threads' = WithThread(threads, new, newThread(at, <<>>))
      /\ output' = WithThread(output, new, <<>>)
      /\ UNCHANGED <<image, stack, coreLoc, doing, GM, gmRbp, process, turn>>
  BY DEF SetThread, Memory
<1>5. /\ ThreadsTyped /\ ThreadsSound /\ OutputTyped /\ turn \in Handlers \cup {1}
      /\ stack \in Seq(Plain) /\ GM \in Seq(Plain)
  BY TypeParts DEF MachineSound
<1>6. new \in Nat /\ DOMAIN threads = 0 .. new - 1 /\ new # 0
  BY <1>5 DEF ThreadsSound, ThreadsTyped
<1>7. PICK u : u = newThread(at, <<>>)
  OBVIOUS
<1>8. /\ u \in Threads /\ u.base = at /\ at \in DOMAIN code /\ u.flag = 0
      /\ u = newThread(u.base, <<>>)
  <2>1. <<>> \in Seq(Elements) /\ at \in Nat /\ at \in DOMAIN code
    BY <1>3, VerifiedCode DEF Starts, code
  <2> QED
    BY <1>7, <2>1 DEF newThread, Threads
<1> HIDE DEF new, at
<1>9. /\ DOMAIN threads' = 0 .. new /\ threads'[new] = u /\ code' = code
      /\ \A i \in DOMAIN threads : threads'[i] = threads[i]
      /\ Handlers' = Handlers \cup {new} /\ DOMAIN threads' = DOMAIN threads \cup {new}
      /\ threads' = [j \in DOMAIN threads \cup {new} |-> IF j = new THEN u ELSE threads[j]]
  <2>1. threads' = [j \in DOMAIN threads \cup {new} |-> IF j = new THEN u ELSE threads[j]]
    BY <1>4, <1>7 DEF WithThread
  <2>2. 0 .. new = (0 .. new - 1) \cup {new} /\ new \notin 0 .. new - 1
    BY <1>6
  <2>3. DOMAIN threads' = DOMAIN threads \cup {new} /\ code' = code
    BY <1>4, <2>1 DEF code
  <2>4. Handlers' = Handlers \cup {new}
    BY <1>6, <2>3 DEF Handlers
  <2> QED
    BY <1>6, <2>1, <2>2, <2>3, <2>4
<1>10. ThreadsTyped'
  <2>1. threads' \in [DOMAIN threads' -> Threads]
    BY <1>5, <1>8, <1>9 DEF ThreadsTyped
  <2> QED
    BY <1>5, <1>8, <1>9, <2>1 DEF ThreadsTyped
<1>11. ThreadsSound'
  <2>1. Cardinality(0 .. new) = new + 1
    BY <1>6, FS_Interval
  <2>2. 0 .. new = 0 .. (new + 1) - 1 /\ new + 1 \in Nat
    BY <1>6
  <2>3. ASSUME NEW i, i = new
        PROVE  (HandlerSound(threads[i]))'
    <3>1. threads'[i] = u /\ image' = image
      BY <1>4, <1>9, <2>3
    <3> QED
      BY <1>3, <1>8, <3>1 DEF HandlerSound
  <2>4. \A i \in Handlers : (HandlerSound(threads[i]))'
    BY <1>4, <1>5, <1>9 DEF ThreadsSound, HandlerSound, Handlers
  <2>5. ASSUME NEW i \in Handlers'
        PROVE  (HandlerSound(threads[i]))'
    <3>1. i = new \/ i \in Handlers
      BY <1>9
    <3> QED
      BY <2>3, <2>4, <3>1
  <2>6. /\ Cardinality(DOMAIN threads') \in Nat
        /\ DOMAIN threads' = 0 .. Cardinality(DOMAIN threads') - 1
    <3>1. Cardinality(DOMAIN threads') = new + 1
      BY <1>9, <2>1
    <3> QED
      BY <1>9, <2>2, <3>1
  <2> QED
    BY <2>5, <2>6 DEF ThreadsSound
<1>12. OutputTyped'
  <2>1. <<>> \in Seq(Ints)
    OBVIOUS
  <2> QED
    BY <1>4, <1>5, <2>1 DEF OutputTyped, WithThread
<1>13. turn' \in Handlers' \cup {1}
  BY <1>4, <1>5, <1>9
<1>14. GM' \in Seq(Plain) /\ gmRbp' \in Nat /\ Len(GM') >= gmRbp' + MAXTHREADSIZE
  BY <1>1, <1>4, MemoryParts
<1> QED
  BY <1>1, <1>2, <1>4, <1>5, <1>10, <1>11, <1>12, <1>13, <1>14, SetUpStep

----------------------------------------------------------------------------
(* The main loop of a state.                                               *)
LEMMA StartImpStep ==
  ASSUME Verified(image), MachineSound, StartImp
  PROVE  MachineSound'
<1>1. process = MAIN /\ doing = "set-up" /\ ~Loaded
  BY MainRunning DEF StartImp
<1>2. /\ doing' = "STARTIMP" /\ turn' = 1
      /\ UNCHANGED <<image, stack, coreLoc, GM, gmRbp, threads, process, output>>
  BY DEF StartImp, Memory
<1>3. Handlers' = Handlers /\ code' = code
  BY <1>2 DEF Handlers, code
<1>4. MachineTypeOK'
  BY <1>2, <1>3 DEF MachineSound, MachineTypeOK
<1>5. ThreadsSound'
  BY <1>2, <1>3 DEF MachineSound, ThreadsSound, HandlerSound
<1>6. ProcessSound'
  <2>1. MAIN \notin DOMAIN threads
    BY DEF MachineSound, ThreadsSound, MAIN
  <2> QED
    BY <1>1, <1>2, <1>3, <2>1 DEF ProcessSound, MAIN, Handlers
<1>7. MainSound'
  BY <1>2 DEF MainSound
<1>8. MemorySound'
  BY <1>1, <1>2, MemoryParts DEF MemorySound
<1> QED
  BY <1>4, <1>5, <1>6, <1>7, <1>8 DEF MachineSound

(* HALT ends the machine.                                                  *)
LEMMA HaltStep ==
  ASSUME Verified(image), MachineSound, Halt
  PROVE  MachineSound'
<1>1. ~Loaded
  BY MainRunning DEF Halt
<1> QED
  BY <1>1, Ending DEF Halt

(* A handler that runs gets its next slice.                                *)
LEMMA ResumeStep ==
  ASSUME MachineSound, Resume
  PROVE  MachineSound'
<1>1. /\ process = MAIN /\ doing = "STARTIMP" /\ turn \in Handlers /\ threads[turn].flag = 1
      /\ process' = turn
      /\ UNCHANGED <<image, pc, stack, coreLoc, doing, GM, gmRbp, threads, turn, output>>
  BY DEF Resume, Turn, Main, Memory
<1>2. Handlers' = Handlers /\ code' = code /\ turn # 0 /\ turn \in DOMAIN threads
  BY <1>1 DEF Handlers, code
<1>3. MachineTypeOK'
  BY <1>1, <1>2 DEF MachineSound, MachineTypeOK
<1>4. ThreadsSound'
  BY <1>1, <1>2 DEF MachineSound, ThreadsSound, HandlerSound
<1>5. ProcessSound'
  <2>1. turn # MAIN
    BY <1>2 DEF MachineSound, ThreadsSound, MAIN
  <2> QED
    BY <1>1, <1>2, <2>1 DEF ProcessSound
<1>6. MainSound'
  BY <1>1 DEF MainSound
<1>7. MemorySound'
  <2>1. ~Loaded
    BY <1>1 DEF Loaded
  <2> QED
    BY <1>1, <2>1, MemoryParts DEF MemorySound
<1> QED
  BY <1>3, <1>4, <1>5, <1>6, <1>7 DEF MachineSound

(* A handler begins: its base point and the datum of its event.            *)
LEMMA DequeueStep ==
  ASSUME Verified(image), MachineSound, Dequeue
  PROVE  MachineSound'
<1>1. /\ process = MAIN /\ doing = "STARTIMP" /\ turn \in Handlers /\ threads[turn].flag = 0
      /\ UNCHANGED <<image, pc, stack, coreLoc, doing, GM, gmRbp, process>>
      /\ output' = [output EXCEPT ![turn] = <<>>] /\ turn' = NextTurn
  BY DEF Dequeue, Turn, Main, Memory
<1>2. /\ ThreadsTyped /\ ThreadsSound /\ OutputTyped /\ MachineTypeOK
      /\ turn \in DOMAIN threads /\ turn # 0
  BY <1>1, TypeParts DEF MachineSound, Handlers
<1>3. PICK t : t = threads[turn]
  OBVIOUS
<1>4. /\ t \in Threads /\ t.flag = 0 /\ HandlerSound(t) /\ t.base \in DOMAIN code
  BY <1>1, <1>2, <1>3 DEF ThreadsTyped, ThreadsSound
<1>5. /\ Starts(image, t.base, "handler") /\ t.pc = t.base /\ t.rbp = 1 /\ t.stack = <<>>
  BY <1>4 DEF HandlerSound, newThread
<1>6. PICK frame : frame = <<new_Basepoint(1), _newInteger(1)>>
  OBVIOUS
<1>7. /\ frame \in Seq(Elements) /\ Len(frame) = 2 /\ frame[1] = new_Basepoint(1)
      /\ frame[2] \in Plain
  <2>1. new_Basepoint(1) \in Elements
    BY DEF new_Basepoint, Value, Elements
  <2>2. _newInteger(1) \in Plain /\ _newInteger(1) \in Elements
    BY IntegerPlain, PlainWords
  <2> QED
    BY <1>6, <2>1, <2>2
<1>8. PICK u : u = [t EXCEPT !.flag = 1, !.stack = frame]
  OBVIOUS
<1>9. /\ u \in Threads /\ u.flag = 1 /\ u.stack = frame /\ u.rbp = 1 /\ u.base = t.base
      /\ u.pc = u.base
  BY <1>4, <1>5, <1>7, <1>8 DEF Threads
<1>10. threads' = [threads EXCEPT ![turn] = u]
  <2>1. t.stack \o <<new_Basepoint(1), _newInteger(1)>> = frame
    BY <1>5, <1>6, <1>7
  <2>2. u = [t EXCEPT !.flag = 1, !.stack = @ \o <<new_Basepoint(1), _newInteger(1)>>]
    BY <1>4, <1>8, <2>1 DEF Threads
  <2>3. threads' = [threads EXCEPT ![turn].flag = 1,
                      ![turn].stack = @ \o <<new_Basepoint(1), _newInteger(1)>>]
    BY DEF Dequeue
  <2> QED
    BY <1>2, <1>3, <2>2, <2>3 DEF ThreadsTyped
<1>11. HandlerSound(u)
  <2>1. 1 \in Points(u.stack) /\ Points(u.stack) \subseteq {1} /\ u.stack[1].n = 1
    BY <1>7, <1>9, PlainWords DEF Points, new_Basepoint, Value
  <2>2. PlainAbove(u.stack, Floor(u.stack, 1))
    <3>1. Floor(u.stack, 1) = 1
      BY <2>1 DEF Floor
    <3>2. Len(u.stack) = 2 /\ \A k \in 2 .. 2 : k = 2
      BY <1>7, <1>9
    <3>3. u.stack[2] \in Plain
      BY <1>7, <1>9
    <3>4. ASSUME NEW k \in 1 + 1 .. Len(u.stack)
          PROVE  u.stack[k] \in Plain
      <4>1. k \in 2 .. 2
        BY <3>2
      <4> QED
        BY <3>2, <3>3, <4>1
    <3> QED
      BY <3>1, <3>4 DEF PlainAbove
  <2>3. Sound(image, u, u.base)
    BY <1>5, <1>9, <2>1, <2>2, FreshSound
  <2> QED
    BY <1>5, <1>9, <2>1, <2>3 DEF HandlerSound, BasePoints
<1>12. /\ DOMAIN threads' = DOMAIN threads /\ Handlers' = Handlers /\ code' = code
       /\ threads' \in [DOMAIN threads -> Threads] /\ threads'[turn] = u
       /\ \A i \in DOMAIN threads : i # turn => threads'[i] = threads[i]
  BY <1>1, <1>2, <1>9, <1>10 DEF Handlers, ThreadsTyped, code
<1>13. ThreadsTyped'
  BY <1>2, <1>4, <1>9, <1>12 DEF ThreadsTyped
<1>14. OutputTyped'
  <2>1. <<>> \in Seq(Ints)
    OBVIOUS
  <2> QED
    BY <1>1, <1>2, <2>1 DEF OutputTyped
<1>15. MachineTypeOK'
  <2>1. turn' \in Handlers' \cup {1}
    BY <1>1, <1>12 DEF NextTurn
  <2> QED
    BY <1>1, <1>2, <1>12, <1>13, <1>14, <2>1 DEF MachineTypeOK, ThreadsTyped, OutputTyped
<1>16. ThreadsSound'
  <2>1. \A i \in Handlers : HandlerSound(threads'[i])
    BY <1>2, <1>11, <1>12 DEF ThreadsSound, Handlers
  <2>2. \A i \in Handlers' : (HandlerSound(threads[i]))'
    BY <1>1, <1>12, <2>1 DEF HandlerSound
  <2> QED
    BY <1>2, <1>12, <2>2 DEF ThreadsSound
<1>17. ProcessSound'
  <2>1. MAIN \notin DOMAIN threads
    BY <1>2 DEF ThreadsSound, MAIN
  <2> QED
    BY <1>1, <1>12, <2>1 DEF ProcessSound, MAIN, Handlers
<1>18. MainSound'
  BY <1>1 DEF MainSound
<1>19. MemorySound'
  <2>1. ~Loaded
    BY <1>1 DEF Loaded
  <2> QED
    BY <1>1, <2>1, MemoryParts DEF MemorySound
<1> QED
  BY <1>15, <1>16, <1>17, <1>18, <1>19 DEF MachineSound

----------------------------------------------------------------------------
(* The invariant holds when a program is loaded ...                        *)
LEMMA InitSound ==
  ASSUME Init, Verified(image)
  PROVE  MachineSound
<1>1. /\ pc = 0 /\ stack = <<>> /\ coreLoc = 0 /\ doing = "set-up" /\ GM = <<>> /\ gmRbp = 0
      /\ threads = OnlyThread(newThread(0, <<>>)) /\ process = MAIN /\ turn = 1
      /\ output = OnlyThread(<<>>)
  BY DEF Init
<1>2. DOMAIN threads = {0} /\ threads[0] = newThread(0, <<>>) /\ Handlers = {}
  BY <1>1 DEF OnlyThread, Handlers
<1>3. /\ newThread(0, <<>>) \in Threads /\ newThread(0, <<>>).base = 0
      /\ 0 \in DOMAIN code /\ <<>> \in Seq(Plain) /\ <<>> \in Seq(Ints)
  <2>1. <<>> \in Seq(Elements)
    OBVIOUS
  <2> QED
    BY <2>1 DEF newThread, Threads, Verified, SetsUp, code
<1>4. MachineTypeOK
  <2>1. ThreadsTyped
    BY <1>1, <1>2, <1>3 DEF ThreadsTyped, OnlyThread
  <2>2. OutputTyped
    BY <1>1, <1>3 DEF OutputTyped, OnlyThread
  <2> QED
    BY <1>1, <1>3, <2>1, <2>2, TypeParts
<1>5. ThreadsSound
  <2>1. Cardinality({0}) = 1
    BY FS_Singleton
  <2>2. {0} = 0 .. 1 - 1
    OBVIOUS
  <2> QED
    BY <1>2, <2>1, <2>2 DEF ThreadsSound
<1>6. ProcessSound
  BY <1>1, <1>2 DEF ProcessSound, MAIN
<1>7. MainSound
  BY <1>1 DEF MainSound, Verified
<1>8. MemorySound
  BY <1>1 DEF MemorySound, Loaded
<1> QED
  BY <1>4, <1>5, <1>6, <1>7, <1>8 DEF MachineSound

(* ... and every instruction preserves it.                                 *)
LEMMA MainExecuteSound ==
  ASSUME Verified(image), MachineSound, main_execute
  PROVE  MachineSound'
  BY MSetStep, MainLoadStep, MainGetGStep, MainJumpStep, MainCallStep, MainGlobalStep,
     MainEntryStep, MainDefineLStep, MkCoreStep, CopyCoreStep, SetCoreStep, MkThreadStep,
     SetThreadStep, StartImpStep, HaltStep, ResumeStep, DequeueStep DEF main_execute

(* Every instruction of a body preserves it.                               *)
LEMMA SubExecuteSound ==
  ASSUME Verified(image), MachineSound, sub_execute
  PROVE  MachineSound'
<1>1. ASSUME SubDefineL \/ SubDefineG
      PROVE  MachineSound'
  <2>1. CASE SubDefineL
    <3>1. SubAt("DEFINE_L") /\ Store(gmRbp + inst.a)
      BY <2>1 DEF SubDefineL
    <3>2. gmRbp + inst.a \in Nat
      BY <3>1, Working, MemoryParts DEF OperandsFit
    <3> QED
      BY <3>1, <3>2, StoreStep
  <2>2. CASE SubDefineG
    <3>1. SubAt("DEFINE_G") /\ Store(inst.a)
      BY <2>2 DEF SubDefineG
    <3>2. inst.a \in Nat
      BY <3>1, Working DEF OperandsFit
    <3> QED
      BY <3>1, <3>2, StoreStep
  <2> QED
    BY <1>1, <2>1, <2>2
<1> QED
  BY <1>1, LoadStep, CalcStep, CallStep, CallPStep, MSubStep, MPickStep, RetStep, MPopStep,
     GetStep, GetLStep, GetGStep, DefineStep, JumpStep, JumpFStep, PrintStep,
     GlobalEndStep, EndOfEventStep, EndOfAdviceStep, TransitionStep DEF sub_execute

(* The program that is loaded stays the one it is.                         *)
LEMMA SameImage ==
  ASSUME [Next]_vars
  PROVE  image' = image
<1>1. CASE main_execute
  BY <1>1 DEF main_execute, MSet, MainLoad, MainGetG, MainPushes, MainJump, MainCall, MainGlobal,
     MainEntry, Enter, MainDefineL, MkCore, CopyCore, SetCore, MkThread, SetThread, StartImp, Halt,
     Resume, Dequeue
<1>2. CASE sub_execute
  BY <1>2 DEF sub_execute, SubLoad, SubCalc, SubCall, SubCallP, SubMSub, SubMPick, SubRet, SubMPop,
     SubGet, SubGetL, SubGetG, SubDefine, SubDefineL, SubDefineG, SubJump, SubJumpF, SubPrint,
     GlobalEnd, EndOfEvent, EndOfAdvice, Transition, Continue, Becomes, YieldAt, Yield, Store
<1> QED
  BY <1>1, <1>2 DEF Next, vars

(* A step that changes nothing preserves it.                               *)
LEMMA Stuttering ==
  ASSUME MachineSound, UNCHANGED vars
  PROVE  MachineSound'
<1>1. UNCHANGED <<image, pc, stack, coreLoc, doing, GM, gmRbp, threads, process, turn, output>>
  BY DEF vars
<1>2. Handlers' = Handlers /\ code' = code
  BY <1>1 DEF Handlers, code
<1>3. MachineTypeOK'
  BY <1>1, <1>2 DEF MachineSound, MachineTypeOK
<1>4. ThreadsSound'
  BY <1>1, <1>2 DEF MachineSound, ThreadsSound, HandlerSound
<1>5. ProcessSound'
  BY <1>1, <1>2 DEF MachineSound, ProcessSound, SetUpThreadSound, FirstBody
<1>6. MainSound' /\ MemorySound'
  BY <1>1 DEF MachineSound, MainSound, MemorySound, Loaded
<1> QED
  BY <1>3, <1>4, <1>5, <1>6 DEF MachineSound

----------------------------------------------------------------------------
(* What the invariant says of a handler's stack.                           *)

(* The frames of a chain that begins with a base point are sound ones.     *)
LEMMA LinkedFrame ==
  ASSUME NEW t \in Threads, Verified(image), Chained(image, t, t.base), 1 \in Points(t.stack),
         NEW j \in Points(t.stack) \ {1}
  PROVE  FrameSound(t, j)
<1> DEFINE s == t.stack
           below == s[j].n
           call == s[j - 1].n - CALLSIZE
<1>1. below \in Points(s) /\ below < j /\ Linked(image, s, j, below, t.base)
  BY DEF Chained
<1>2. s \in Seq(Elements) /\ j \in Nat /\ below \in Nat /\ Floor(s, below) = below
  BY <1>1 DEF Threads, Points, Floor
<1>3. /\ call \in Reached(image) /\ OpAt(image, call) = "CALL"
      /\ s[j - 1] = address(call + CALLSIZE) /\ s[j - 2] = address(image.code[call].a)
      /\ j - 3 - below >= Least(image, call)
      /\ \A k \in below + 1 .. j - 3 : s[k] \in Plain
  BY <1>1, <1>2 DEF Linked
<1>4. s[j - 1].n = call + CALLSIZE /\ s[j - 1].kind = "int" /\ s[j - 2].kind = "int"
  BY <1>3 DEF address, Value
<1>5. call \in DOMAIN code /\ call \in Nat /\ Behind(image, call) = call + CALLSIZE
  BY <1>3, VerifiedCode, CallSize DEF code, OpAt
<1>6. call \in CallsBefore(s[j - 1].n)
  BY <1>3, <1>4, <1>5 DEF CallsBefore, Behind, code, OpAt
<1>7. Least(image, call) >= image.code[call].a /\ image.code[call].a \in Nat
  <2>1. CASE KindAt(image, call) = "main"
    <3>1. image.code[call].op = "CALL"
      BY <1>3 DEF OpAt
    <3>2. MainVerified(image, call) /\ Least(image, call) \in Nat
      BY <1>3, <2>1, VerifiedCode
    <3>3. image.code[call].a = 0
      BY <3>1, <3>2 DEF MainVerified
    <3> QED
      BY <3>2, <3>3
  <2>2. CASE KindAt(image, call) # "main"
    <3>1. OperandsFit(image.code[call])
      BY <1>3, <2>2, VerifiedCode DEF SubVerified
    <3> QED
      BY <1>3, <2>2, <3>1, BodyVerified DEF OperandsFit, OpAt
  <2> QED
    BY <2>1, <2>2
<1>8. Least(image, call) \in Nat
  BY <1>3, VerifiedCode
<1> HIDE DEF call
<1>9. \A k \in below + 1 .. j - 1 : s[k].kind # "bp"
  <2>1. ASSUME NEW k \in below + 1 .. j - 1
        PROVE  s[k].kind # "bp"
    <3>1. k \in below + 1 .. j - 3 \/ k = j - 2 \/ k = j - 1
      BY <1>2
    <3> QED
      BY <1>3, <1>4, <3>1, PlainWords
  <2> QED
    BY <2>1
<1>10. BasePoints(t) \cap below + 1 .. j - 1 = {}
  BY <1>9 DEF BasePoints, Points
<1>11. j - 2 - image.code[call].a > below
  BY <1>2, <1>3, <1>7, <1>8
<1> QED
  BY <1>1, <1>3, <1>6, <1>10, <1>11 DEF FrameSound, BasePoints, code

(* A sound machine's stacks are chains of frames.                          *)
LEMMA SoundFrames ==
  ASSUME Verified(image), MachineSound
  PROVE  FramesSound
<1> SUFFICES ASSUME NEW i \in Handlers
             PROVE  LET t == threads[i]
                        points == BasePoints(t)
                    IN  IF t.flag = 0 THEN t = newThread(t.base, <<>>)
                        ELSE /\ t.pc \in DOMAIN code
                             /\ IF points = {} THEN t.stack = <<>> /\ At(t.pc, "EOE")
                                ELSE /\ t.rbp \in points /\ \A j \in points : j <= t.rbp
                                     /\ 1 \in points /\ t.stack[1].n = 1
                                     /\ \A j \in points \ {1} : FrameSound(t, j)
  BY DEF FramesSound
<1>1. PICK t : t = threads[i]
  OBVIOUS
<1>2. t \in Threads /\ HandlerSound(t)
  BY <1>1 DEF MachineSound, MachineTypeOK, ThreadsSound, Handlers
<1>3. CASE t.flag = 0
  BY <1>1, <1>2, <1>3 DEF HandlerSound
<1>4. CASE t.flag # 0 /\ Finished(image, t)
  <2>1. t.pc \in DOMAIN code /\ At(t.pc, "EOE") /\ t.stack = <<>>
    BY <1>4, VerifiedCode DEF Finished, At, OpAt, code
  <2>2. BasePoints(t) = {}
    BY <2>1 DEF BasePoints, Points
  <2> QED
    BY <1>1, <1>4, <2>1, <2>2
<1>5. CASE /\ t.flag # 0 /\ Sound(image, t, t.base)
           /\ 1 \in BasePoints(t) /\ t.stack[1].n = 1
  <2>1. t.pc \in DOMAIN code /\ Chained(image, t, t.base)
    BY <1>5, VerifiedCode DEF Sound, code
  <2>2. t.rbp \in BasePoints(t) /\ \A j \in BasePoints(t) : j <= t.rbp
    BY <1>5, <2>1 DEF Chained, BasePoints
  <2>3. \A j \in BasePoints(t) \ {1} : FrameSound(t, j)
    BY <1>2, <1>5, <2>1, LinkedFrame DEF BasePoints
  <2> QED
    BY <1>1, <1>5, <2>1, <2>2, <2>3
<1> QED
  BY <1>2, <1>3, <1>4, <1>5 DEF HandlerSound

(* How many words an instruction takes is a number.                        *)
LEMMA TakesNat ==
  ASSUME NEW i, OperandsFit(i)
  PROVE  Takes(i) \in Nat
<1>1. 0 \in Nat /\ 1 \in Nat /\ 2 \in Nat
  OBVIOUS
<1>2. (i.op = "CALL" => i.a \in Nat) /\ (i.op = "CALL_P" => i.c \in Nat)
  BY DEF OperandsFit
<1> QED
  BY <1>1, <1>2, Zenon DEF Takes

(* What an instruction takes lies above the base point and is a number:    *)
(* the frame is as high as the verifier expects.                           *)
LEMMA OwnOperands ==
  ASSUME Verified(image), MachineSound
  PROVE  OperandsOwn
<1> SUFFICES ASSUME NEW i \in Handlers, threads[i].flag = 1,
                    NEW k \in 0 .. Takes(code[threads[i].pc]) - 1
             PROVE  LET t == threads[i]
                    IN  Len(t.stack) - k > t.rbp /\ t.stack[Len(t.stack) - k] \in Plain
  BY DEF OperandsOwn
<1>1. PICK t : t = threads[i]
  OBVIOUS
<1>2. t \in Threads /\ HandlerSound(t) /\ t.flag = 1
  BY <1>1 DEF MachineSound, MachineTypeOK, ThreadsSound, Handlers
<1>3. t.pc \in Reached(image) /\ (Finished(image, t) \/ Sound(image, t, t.base))
  BY <1>2 DEF HandlerSound, Finished, Sound
<1>4. PICK takes : takes = Takes(code[t.pc])
  OBVIOUS
<1>5. k \in 0 .. takes - 1
  BY <1>1, <1>4
<1>6. OpAt(image, t.pc) \notin {"EOE", "MSUB"}
  BY <1>4, <1>5, TakesTable DEF OpAt, code
<1>7. /\ Sound(image, t, t.base) /\ Inside(image, t, t.base) /\ 1 \in Points(t.stack)
      /\ Chained(image, t, t.base)
  BY <1>2, <1>3, <1>6 DEF HandlerSound, Finished, Sound, BasePoints
<1>8. SubVerified(image, t.pc) /\ Least(image, t.pc) \in Nat
  BY <1>3, <1>7, VerifiedCode DEF Sound
<1>9. takes \in Nat /\ Least(image, t.pc) >= takes
  BY <1>4, <1>8, TakesNat DEF SubVerified, code
<1>10. t.rbp \in Nat /\ Floor(t.stack, t.rbp) = t.rbp /\ Len(t.stack) \in Nat
  BY <1>2, <1>7 DEF Chained, Floor, Threads
<1>11. /\ Len(t.stack) - t.rbp >= Least(image, t.pc)
       /\ \A word \in t.rbp + 1 .. Len(t.stack) : t.stack[word] \in Plain
  BY <1>7, <1>10 DEF Inside
<1>12. Len(t.stack) - k > t.rbp /\ Len(t.stack) - k \in t.rbp + 1 .. Len(t.stack)
  BY <1>5, <1>8, <1>9, <1>10, <1>11
<1> QED
  BY <1>1, <1>11, <1>12

----------------------------------------------------------------------------
(* What a step leaves of the callers' words.                               *)
LeavesCallers ==
  \A i \in Handlers \cap Handlers' : threads[i].flag = 1 => Spares(threads[i], threads'[i])

(* A handler's running frame has its base point, or it is the first one.   *)
LEMMA RunningBase ==
  ASSUME MachineSound, NEW i \in Handlers, threads[i].flag = 1
  PROVE  /\ threads[i] \in Threads /\ threads[i].rbp \in Nat \ {0}
         /\ threads[i].rbp = 1 \/ threads[i].rbp \in Points(threads[i].stack)
         /\ threads[i].rbp - 1 <= Len(threads[i].stack)
<1>1. PICK t : t = threads[i]
  OBVIOUS
<1>2. t \in Threads /\ HandlerSound(t) /\ t.flag = 1
  BY <1>1 DEF MachineSound, MachineTypeOK, ThreadsSound, Handlers
<1>3. t.rbp = 1 \/ t.rbp \in Points(t.stack)
  BY <1>2 DEF HandlerSound, Sound, Chained
<1>4. t.stack \in Seq(Elements) /\ Len(t.stack) \in Nat
  BY <1>2 DEF Threads
<1>5. t.rbp \in Nat \ {0} /\ t.rbp - 1 <= Len(t.stack)
  BY <1>3, <1>4 DEF Points
<1> QED
  BY <1>1, <1>2, <1>3, <1>5

(* A step that does not return spares the callers when the stacks agree    *)
(* under the base point.                                                   *)
LEMMA AgreeSpares ==
  ASSUME NEW t \in Threads, NEW u \in Threads, t.rbp \in Nat, u.rbp >= t.rbp,
         t.rbp - 1 <= Len(u.stack), Agree(t.stack, u.stack, t.rbp - 1)
  PROVE  Spares(t, u)
<1>1. u.rbp \in Nat /\ u.stack \in Seq(Elements)
  BY DEF Threads
<1>2. Spared(t, u) = t.rbp - 1
  BY <1>1 DEF Spared
<1> QED
  BY <1>1, <1>2 DEF Spares, Agree

(* A thread that does not move spares them.                                *)
LEMMA SameSpares ==
  ASSUME MachineSound, NEW i \in Handlers, threads[i].flag = 1
  PROVE  Spares(threads[i], threads[i])
<1>1. PICK t : t = threads[i]
  OBVIOUS
<1>2. t \in Threads /\ t.rbp \in Nat \ {0} /\ t.rbp - 1 <= Len(t.stack)
  BY <1>1, RunningBase
<1>3. Agree(t.stack, t.stack, t.rbp - 1)
  BY DEF Agree
<1> QED
  BY <1>1, <1>2, <1>3, AgreeSpares

(* A step of one thread is one of the running handler, or of none.         *)
LEMMA OthersSpare ==
  ASSUME MachineSound, process \in DOMAIN threads, NEW u,
         threads' = [threads EXCEPT ![process] = u],
         process \in Handlers => Spares(this, u)
  PROVE  LeavesCallers
<1> SUFFICES ASSUME NEW i \in Handlers, threads[i].flag = 1
             PROVE  Spares(threads[i], threads'[i])
  BY DEF LeavesCallers
<1>1. threads \in [DOMAIN threads -> Threads] /\ i \in DOMAIN threads
  BY DEF MachineSound, MachineTypeOK, Handlers
<1>2. CASE i = process
  BY <1>1, <1>2 DEF this
<1>3. CASE i # process
  BY <1>1, <1>3, SameSpares
<1> QED
  BY <1>2, <1>3

(* So does a step that moves no handler.                                   *)
LEMMA NoneSpare ==
  ASSUME MachineSound, \A i \in Handlers \cap Handlers' : threads'[i] = threads[i]
  PROVE  LeavesCallers
  BY SameSpares DEF LeavesCallers

(* The thread that runs, as a handler.                                     *)
LEMMA RunningHandler ==
  ASSUME Verified(image), MachineSound, NEW op, SubAt(op), op # "EOE", process \in Handlers
  PROVE  /\ this \in Threads /\ this.flag = 1 /\ this.rbp \in Nat \ {0}
         /\ this.rbp = 1 \/ this.rbp \in Points(this.stack)
         /\ this.rbp - 1 <= Len(this.stack)
         /\ doing = "STARTIMP" /\ HandlerSound(this)
<1>1. process # 0
  BY DEF Handlers
<1>2. this.flag = 1 /\ doing = "STARTIMP" /\ HandlerSound(this)
  BY <1>1, Running
<1> QED
  BY <1>2, RunningBase DEF this

(* Whatever works inside its frame spares the words under it.              *)
LEMMA KeepsFrameSpares ==
  ASSUME Verified(image), MachineSound, NEW op, SubAt(op), op # "EOE",
         NEW u, threads' = [threads EXCEPT ![process] = u], KeepsFrame, MachineSound'
  PROVE  LeavesCallers
<1>1. process \in DOMAIN threads
  BY Running
<1>2. threads'[process] = u /\ u \in Threads
  <2>1. threads'[process] = u
    BY <1>1 DEF MachineSound, MachineTypeOK
  <2>2. process \in DOMAIN threads'
    BY <1>1
  <2> QED
    BY <2>1, <2>2 DEF MachineSound, MachineTypeOK
<1>3. ASSUME process \in Handlers
      PROVE  Spares(this, u)
  <2>1. PICK t : t = this
    OBVIOUS
  <2>2. t \in Threads /\ t.rbp \in Nat \ {0} /\ (t.rbp = 1 \/ t.rbp \in Points(t.stack))
    BY <1>3, <2>1, RunningHandler
  <2>3. u.rbp = t.rbp /\ Kept(t, u.stack)
    BY <1>2, <2>1 DEF KeepsFrame
  <2>4. t.rbp - 1 <= Len(u.stack) /\ Agree(t.stack, u.stack, t.rbp - 1)
    <3>1. CASE t.rbp = 1
      BY <2>3, <3>1 DEF Agree, Kept
    <3>2. CASE t.rbp \in Points(t.stack)
      <4>1. FloorOf(t) = t.rbp
        BY <3>2 DEF FloorOf, Floor
      <4> QED
        BY <2>2, <2>3, <4>1 DEF Kept, Agree
    <3> QED
      BY <2>2, <3>1, <3>2
  <2> QED
    BY <1>2, <2>1, <2>2, <2>3, <2>4, AgreeSpares
<1> QED
  BY <1>1, <1>3, OthersSpare

(* A call puts its words on top; MSUB makes a frame over them.             *)
LEMMA CallSpares ==
  ASSUME Verified(image), MachineSound, SubCall
  PROVE  LeavesCallers
<1> DEFINE r == mstack \o <<address(inst.a), address(onward)>>
<1>1. SubAt("CALL") /\ process \in DOMAIN threads
  BY Running DEF SubCall
<1>2. threads' = [threads EXCEPT ![process] = [this EXCEPT !.pc = onward + inst.b, !.stack = r]]
  BY DEF SubCall, YieldAt, Yield
<1>3. PICK u : u = [this EXCEPT !.pc = onward + inst.b, !.stack = r]
  OBVIOUS
<1>4. ASSUME process \in Handlers
      PROVE  Spares(this, u)
  <2>1. u.stack = r /\ u.rbp = this.rbp /\ this.rbp \in Nat \ {0} /\ this.rbp - 1 <= Len(mstack)
        /\ mstack \in Seq(Elements)
    BY <1>1, <1>3, <1>4, RunningHandler DEF Threads, mstack
  <2>2. PICK x : x = <<address(inst.a), address(onward)>>
    OBVIOUS
  <2>3. Len(x) = 2 /\ r = mstack \o x
    BY <2>2
  <2>4. Spared(this, u) = this.rbp - 1
    BY <2>1 DEF Spared
  <2> SUFFICES ASSUME NEW k \in 1 .. this.rbp - 1
               PROVE  k \in DOMAIN u.stack /\ u.stack[k] = this.stack[k]
    BY <2>4 DEF Spares
  <2>5. k \in 1 .. Len(mstack) /\ Len(mstack) \in Nat
    BY <2>1
  <2>6. k \in DOMAIN r /\ r[k] = mstack[k]
    BY <2>1, <2>2, <2>5
  <2> QED
    BY <2>1, <2>6 DEF mstack
<1> QED
  BY <1>1, <1>2, <1>3, <1>4, OthersSpare

(* MSUB's base point lies over all words that were there.                  *)
LEMMA MSubSpares ==
  ASSUME Verified(image), MachineSound, SubMSub
  PROVE  LeavesCallers
<1> DEFINE r == mstack \o <<new_Basepoint(this.rbp)>> \o Nils(inst.a)
<1>1. /\ SubAt("MSUB") /\ process \in DOMAIN threads /\ this \in Threads
      /\ this.pc \in Reached(image) /\ OpAt(image, this.pc) = "MSUB"
      /\ KindAt(image, this.pc) # "main"
  BY Running DEF SubMSub
<1>2. inst = image.code[this.pc] /\ inst.op = "MSUB"
  BY <1>1 DEF inst, code, OpAt
<1>3. inst.a \in Nat
  BY <1>1, <1>2, BodyVerified
<1>4. threads' = [threads EXCEPT ![process] =
                   [this EXCEPT !.pc = onward, !.rbp = Len(mstack) + 1, !.stack = r]]
  BY DEF SubMSub, Becomes, mstack
<1>5. PICK u : u = [this EXCEPT !.pc = onward, !.rbp = Len(mstack) + 1, !.stack = r]
  OBVIOUS
<1>6. ASSUME process \in Handlers
      PROVE  Spares(this, u)
  <2>1. /\ u.stack = r /\ u.rbp = Len(mstack) + 1 /\ this.rbp \in Nat \ {0}
        /\ this.rbp - 1 <= Len(mstack) /\ mstack \in Seq(Elements)
        /\ new_Basepoint(this.rbp) \in Elements
    BY <1>1, <1>5, <1>6, RunningHandler DEF Threads, mstack, new_Basepoint, Value, Elements
  <2>2. r \in Seq(Elements) /\ Len(r) = Len(mstack) + 1 + inst.a /\ Agree(mstack, r, Len(mstack))
    BY <1>3, <2>1, FrameWords DEF NewFrame
  <2> HIDE DEF r
  <2>3. Len(mstack) \in Nat /\ Len(r) >= Len(mstack)
    BY <1>3, <2>1, <2>2
  <2>4. Spared(this, u) = this.rbp - 1
    <3>1. this.rbp <= Len(mstack) + 1
      BY <2>1, <2>3
    <3> QED
      BY <2>1, <2>3, <3>1 DEF Spared
  <2> SUFFICES ASSUME NEW k \in 1 .. this.rbp - 1
               PROVE  k \in DOMAIN u.stack /\ u.stack[k] = this.stack[k]
    BY <2>4 DEF Spares
  <2>5. k \in 1 .. Len(mstack) /\ k \in 1 .. Len(r)
    BY <2>1, <2>3
  <2> QED
    BY <2>1, <2>2, <2>5 DEF Agree, mstack
<1> QED
  BY <1>1, <1>4, <1>5, <1>6, OthersSpare

(* Under the base point of a handler's frame but the first: a call's number*)
(* of arguments, which the frames below leave room for.                    *)
LEMMA FrameUnder ==
  ASSUME Verified(image), MachineSound, NEW op \in {"RET", "EOA"}, SubAt(op),
         process \in Handlers, NEW frame, Kept(this, frame)
  PROVE  LET caller == Below(frame)
             n == this.stack[this.rbp - 2].n
         IN  /\ n \in Nat /\ (op = "EOA" => n = 0)
             /\ this.rbp \in Nat /\ this.rbp - 3 >= n
             /\ caller \in Seq(Elements) /\ Len(caller) = this.rbp - 1
             /\ Agree(this.stack, caller, this.rbp - 1)
             /\ frame[BasePoint(frame)].n < this.rbp
             /\ _Integer_value(Top(Array_pop(caller, 1))) = {n}
<1>1. /\ this \in Threads /\ Sound(image, this, First) /\ Begins(image, First)
      /\ Inside(image, this, First) /\ OpAt(image, this.pc) = op /\ SubVerified(image, this.pc)
      /\ this.pc \in Reached(image)
  BY Running
<1>2. PICK t : t = this
  OBVIOUS
<1>3. KindAt(image, t.pc) \in {"function", "advice"} /\ (op = "EOA" => KindAt(image, t.pc) = "advice")
  BY <1>1, <1>2 DEF SubVerified, OpAt
<1>4. t.rbp # 1
  BY <1>1, <1>2, <1>3, FirstFrame DEF Begins
<1>5. PICK first : first = First
  OBVIOUS
<1>6. /\ t \in Threads /\ Sound(image, t, first) /\ Begins(image, first) /\ Inside(image, t, first)
      /\ Kept(t, frame)
  BY <1>1, <1>2, <1>5
<1>7. /\ t.rbp \in Points(t.stack) /\ BelowOf(t) < t.rbp
      /\ Linked(image, t.stack, t.rbp, BelowOf(t), first)
      /\ CallOf(t) \in Reached(image) /\ OpAt(image, CallOf(t)) = "CALL"
      /\ KindAt(image, Target(image, CallOf(t))) = KindAt(image, t.pc)
  BY <1>4, <1>6, CalledFrame
<1>8. /\ frame[BasePoint(frame)].n = BelowOf(t)
      /\ CallerWords(t.stack, Below(frame), t.rbp, FloorBelow(t), Least(image, CallOf(t)))
      /\ image.code[CallOf(t)].a \in Nat
      /\ Least(image, CallOf(t)) >= image.code[CallOf(t)].a
      /\ Top(Array_pop(Below(frame), 1)) = address(image.code[CallOf(t)].a)
  BY <1>4, <1>6, WayBack, Zenon
<1>9. /\ Below(frame) \in Seq(Elements) /\ Len(Below(frame)) = t.rbp - 1
      /\ Agree(t.stack, Below(frame), t.rbp - 1)
  BY <1>6, <1>7, FrameFound
<1>10. t.stack[t.rbp - 2].n = image.code[CallOf(t)].a
  BY <1>7 DEF Linked, CallOf, address, Value
<1>11. op = "EOA" => image.code[CallOf(t)].a = 0
  <2>1. ASSUME op = "EOA"
        PROVE  image.code[CallOf(t)].a = 0
    <3>1. image.code[CallOf(t)].op = "CALL" /\ KindAt(image, Target(image, CallOf(t))) = "advice"
      BY <1>3, <1>7, <2>1 DEF OpAt
    <3>2. CASE KindAt(image, CallOf(t)) = "main"
      BY <1>7, <3>1, <3>2, VerifiedCode DEF MainVerified
    <3>3. CASE KindAt(image, CallOf(t)) # "main"
      BY <1>7, <3>1, <3>3, VerifiedCode DEF SubVerified
    <3> QED
      BY <3>2, <3>3
  <2> QED
    BY <2>1
<1>12. t.rbp \in Nat /\ t.rbp - 3 >= image.code[CallOf(t)].a
  BY <1>8 DEF CallerWords
<1>13. _Integer_value(Top(Array_pop(Below(frame), 1))) = {image.code[CallOf(t)].a}
  BY <1>8, AddressValue
<1> QED
  BY <1>2, <1>7, <1>8, <1>9, <1>10, <1>11, <1>12, <1>13

(* What is left of the caller's words when n of them go, and the way back. *)
LEMMA ReturnSpares ==
  ASSUME NEW t, NEW u, t.rbp \in Nat, NEW n \in Nat, n = t.stack[t.rbp - 2].n, t.rbp - 3 >= n,
         u.rbp < t.rbp, NEW caller \in Seq(Elements), Len(caller) = t.rbp - 1,
         Agree(t.stack, caller, t.rbp - 1),
         t.rbp - 3 - n <= Len(u.stack), u.stack \in Seq(Elements),
         Agree(caller, u.stack, t.rbp - 3 - n)
  PROVE  Spares(t, u)
<1>1. Spared(t, u) = t.rbp - 3 - n
  BY DEF Spared
<1>2. ASSUME NEW k \in 1 .. t.rbp - 3 - n
      PROVE  k \in DOMAIN u.stack /\ u.stack[k] = t.stack[k]
  <2>0. PICK top, length : top = t.rbp /\ length = Len(u.stack)
    OBVIOUS
  <2>1. k \in 1 .. t.rbp - 1 /\ k \in 1 .. Len(u.stack)
    <3>1. length \in Nat
      BY <2>0
    <3>2. top \in Nat /\ top - 3 - n <= length /\ k \in 1 .. top - 3 - n
      BY <2>0
    <3>3. k \in 1 .. length /\ k \in 1 .. top - 1
      BY ONLY <3>1, <3>2, n \in Nat
    <3> QED
      BY <2>0, <3>3
  <2>2. u.stack[k] = caller[k]
    BY DEF Agree
  <2>3. caller[k] = t.stack[k]
    BY <2>1 DEF Agree
  <2> QED
    BY <2>1, <2>2, <2>3
<1> QED
  BY <1>1, <1>2 DEF Spares

(* RET takes the arguments of its call and no word below.                  *)
LEMMA RetSpares ==
  ASSUME Verified(image), MachineSound, SubRet
  PROVE  LeavesCallers
<1> DEFINE frame == Array_pop(mstack, 1)
           caller == Below(frame)
           below == frame[BasePoint(frame)].n
<1>1. /\ SubAt("RET") /\ process \in DOMAIN threads /\ this \in Threads
      /\ this.pc \in Reached(image) /\ KindAt(image, this.pc) # "main"
      /\ OpAt(image, this.pc) = "RET"
  BY Running DEF SubRet
<1>2. PICK to \in _Integer_value(Top(caller)),
           num_arg \in _Integer_value(Top(Array_pop(caller, 1))) :
        threads' = [threads EXCEPT ![process] = [this EXCEPT !.pc = to, !.rbp = below,
                     !.stack = Append(Array_pop(caller, 2 + num_arg), Top(mstack))]]
  BY DEF SubRet, Yield
<1>3. PICK r : r = Append(Array_pop(caller, 2 + num_arg), Top(mstack))
  OBVIOUS
<1>4. PICK u : u = [this EXCEPT !.pc = to, !.rbp = below, !.stack = r]
  OBVIOUS
<1>5. threads' = [threads EXCEPT ![process] = u]
  BY <1>2, <1>3, <1>4
<1>6. ASSUME process \in Handlers
      PROVE  Spares(this, u)
  <2>1. Kept(this, frame) /\ Top(mstack) \in Elements
    <3>1. Kept(this, mstack) /\ Height(this, mstack) \in Nat
          /\ Height(this, mstack) >= Least(image, this.pc) /\ Least(image, this.pc) \in Nat
      BY <1>1, Working
    <3>2. Least(image, this.pc) >= 1
      BY <1>1, BodyVerified DEF OpAt
    <3> QED
      BY <1>1, <3>1, <3>2, KeptPop, KeptTop, PlainWords
  <2>2. PICK n : n = this.stack[this.rbp - 2].n
    OBVIOUS
  <2>3. PICK c : c = caller
    OBVIOUS
  <2> HIDE DEF caller, below, frame
  <2>4. /\ n \in Nat /\ this.rbp \in Nat /\ this.rbp - 3 >= n
        /\ c \in Seq(Elements) /\ Len(c) = this.rbp - 1 /\ Agree(this.stack, c, this.rbp - 1)
        /\ below < this.rbp /\ _Integer_value(Top(Array_pop(c, 1))) = {n}
    BY <1>1, <1>6, <2>1, <2>2, <2>3, FrameUnder DEF caller, below
  <2>5. num_arg = n /\ u.rbp = below /\ u.stack = r
    BY <1>1, <1>2, <1>4, <2>3, <2>4 DEF Threads
  <2>6. /\ r \in Seq(Elements) /\ this.rbp - 3 - n <= Len(r)
        /\ Agree(c, r, this.rbp - 3 - n)
    <3>1. PICK kept : kept = Array_pop(c, 2 + n)
      OBVIOUS
    <3>2. 2 + n \in 0 .. Len(c) /\ Len(c) - (2 + n) = this.rbp - 3 - n
      BY <2>4
    <3>3. /\ kept \in Seq(Elements) /\ Len(kept) = this.rbp - 3 - n
          /\ \A k \in 1 .. this.rbp - 3 - n : kept[k] = c[k]
      BY <2>4, <3>1, <3>2, PopWords
    <3>4. r = Append(kept, Top(mstack))
      BY <1>3, <2>3, <2>5, <3>1
    <3>5. r \in Seq(Elements) /\ Len(r) = Len(kept) + 1 /\ \A k \in 1 .. Len(kept) : r[k] = kept[k]
      BY <2>1, <3>3, <3>4, AppendWords
    <3> QED
      BY <2>4, <3>3, <3>5 DEF Agree
  <2> QED
    BY <2>2, <2>4, <2>5, <2>6, ReturnSpares
<1> QED
  BY <1>1, <1>5, <1>6, OthersSpare

(* An advice is called without arguments: EOA takes none of the caller's   *)
(* words.                                                                  *)
LEMMA EndOfAdviceSpares ==
  ASSUME Verified(image), MachineSound, EndOfAdvice
  PROVE  LeavesCallers
<1> DEFINE caller == Below(mstack)
           below == mstack[BasePoint(mstack)].n
           r == Array_pop(caller, 1)
<1>1. SubAt("EOA") /\ process \in DOMAIN threads /\ this \in Threads
  BY Running DEF EndOfAdvice
<1>2. PICK to \in _Integer_value(Top(caller)) :
        threads' = [threads EXCEPT ![process].pc = to, ![process].rbp = below,
                                   ![process].stack = r]
  BY DEF EndOfAdvice
<1>3. PICK u : u = [this EXCEPT !.pc = to, !.rbp = below, !.stack = r]
  OBVIOUS
<1>4. threads' = [threads EXCEPT ![process] = u]
  BY <1>1, <1>2, <1>3, TypeParts DEF this, MachineSound, ThreadsTyped
<1>5. ASSUME process \in Handlers
      PROVE  Spares(this, u)
  <2>1. Kept(this, mstack)
    BY <1>1, Working
  <2>2. PICK c : c = caller
    OBVIOUS
  <2> HIDE DEF caller, below
  <2>3. /\ this.stack[this.rbp - 2].n = 0 /\ this.rbp \in Nat /\ this.rbp - 3 >= 0
        /\ c \in Seq(Elements) /\ Len(c) = this.rbp - 1 /\ Agree(this.stack, c, this.rbp - 1)
        /\ below < this.rbp
    BY <1>1, <1>5, <2>1, <2>2, FrameUnder DEF caller, below
  <2>4. u.rbp = below /\ u.stack = Array_pop(c, 1)
    BY <1>1, <1>3, <2>2 DEF Threads
  <2>5. /\ u.stack \in Seq(Elements) /\ Len(u.stack) = this.rbp - 2
        /\ \A k \in 1 .. this.rbp - 2 : u.stack[k] = c[k]
    <3>1. 1 \in 0 .. Len(c) /\ Len(c) - 1 = this.rbp - 2 /\ c \in Seq(Elements)
      BY <2>3
    <3>2. /\ Array_pop(c, 1) \in Seq(Elements) /\ Len(Array_pop(c, 1)) = Len(c) - 1
          /\ \A k \in 1 .. Len(c) - 1 : Array_pop(c, 1)[k] = c[k]
      BY ONLY <3>1, PopWords
    <3> QED
      BY <2>4, <3>1, <3>2
  <2>6. this.rbp - 3 - 0 <= Len(u.stack) /\ Agree(c, u.stack, this.rbp - 3 - 0)
    BY <2>3, <2>5 DEF Agree
  <2> QED
    BY <2>3, <2>4, <2>5, <2>6, ReturnSpares
<1> QED
  BY <1>1, <1>4, <1>5, OthersSpare

(* A handler's first frame has no callers.                                 *)
LEMMA MPopSpares ==
  ASSUME Verified(image), MachineSound, SubMPop
  PROVE  LeavesCallers
<1> DEFINE below == mstack[BasePoint(mstack)].n
<1>1. /\ SubAt("MPOP") /\ process \in DOMAIN threads /\ this \in Threads
      /\ Sound(image, this, First) /\ Inside(image, this, First) /\ Begins(image, First)
      /\ OpAt(image, this.pc) = "MPOP" /\ SubVerified(image, this.pc)
  BY Running DEF SubMPop
<1>2. PICK u : u = [this EXCEPT !.pc = onward, !.rbp = below, !.stack = Below(mstack)]
  OBVIOUS
<1>3. threads' = [threads EXCEPT ![process] = u]
  BY <1>2 DEF SubMPop, Becomes
<1>4. ASSUME process \in Handlers
      PROVE  Spares(this, u)
  <2>1. HasBasePoint(this.stack)
    BY DEF SubMPop, mstack
  <2>2. BasePoint(this.stack) = 1
    BY <1>1, <2>1, MPopSound
  <2>3. KindAt(image, this.pc) = "handler"
    BY <1>1 DEF SubVerified, OpAt
  <2>4. this.rbp = 1
    BY <1>1, <2>3, CalledFrame
  <2>5. this.stack[1].n = 1
    BY <1>1, <1>4, RunningHandler DEF HandlerSound, Finished, OpAt
  <2>6. u.rbp = 1
    BY <1>1, <1>2, <2>2, <2>5 DEF Threads, mstack
  <2>7. Spared(this, u) = 0
    BY <2>4, <2>6 DEF Spared
  <2> QED
    BY <2>7 DEF Spares
<1> QED
  BY <1>1, <1>3, <1>4, OthersSpare

(* A handler that ends has no callers.                                     *)
LEMMA EndOfEventSpares ==
  ASSUME Verified(image), MachineSound, EndOfEvent
  PROVE  LeavesCallers
<1>1. SubAt("EOE") /\ process \in DOMAIN threads /\ MachineTypeOK /\ ThreadsSound /\ ProcessSound
  BY DEF EndOfEvent, SubAt, MAIN, ENDED, MachineSound, MachineTypeOK
<1>2. CASE doing = "ENTRY"
  BY <1>2, NoneSpare DEF EndOfEvent
<1>3. CASE doing = "STARTIMP"
  <2>1. PICK u : u = [this EXCEPT !.flag = 0, !.pc = this.base]
    OBVIOUS
  <2>2. threads' = [threads EXCEPT ![process] = u]
    <3>1. threads' = [threads EXCEPT ![process].flag = 0, ![process].pc = this.base]
      BY <1>3 DEF EndOfEvent
    <3> QED
      BY <1>1, <2>1, <3>1 DEF this, MachineTypeOK
  <2>3. ASSUME process \in Handlers
        PROVE  Spares(this, u)
    <3>1. this.flag = 1 /\ HandlerSound(this) /\ this \in Threads
      BY <1>1, <2>3 DEF ProcessSound, ThreadsSound, this, MachineTypeOK
    <3>2. this.rbp = 1
      BY <1>1, <3>1 DEF HandlerSound, Sound, SubAt, At, OpAt, code
    <3>3. Spared(this, u) = 0
      BY <2>1, <3>1, <3>2 DEF Spared, Threads
    <3> QED
      BY <3>3 DEF Spares
  <2> QED
    BY <1>1, <2>2, <2>3, OthersSpare
<1> QED
  BY <1>2, <1>3 DEF EndOfEvent

(* A transition leaves no handler, or is one of set-up code's thread.      *)
LEMMA TransitionSpares ==
  ASSUME Verified(image), MachineSound, Transition
  PROVE  LeavesCallers
<1>1. /\ SubAt("TRANS") /\ process \in DOMAIN threads
      /\ process # 0 => process \in Handlers /\ doing = "STARTIMP"
  BY Running DEF Transition
<1>2. CASE doing \in {"ENTRY", "STARTIMP"}
  <2>1. Handlers' = {}
    BY <1>2 DEF Transition, OnlyThread, Handlers
  <2> QED
    BY <2>1 DEF LeavesCallers
<1>3. CASE doing \notin {"ENTRY", "STARTIMP"}
  <2>1. process = 0
    BY <1>1, <1>3
  <2>2. threads' = [threads EXCEPT ![process].pc = @ + 1]
    BY <1>3 DEF Transition
  <2>3. \A i \in Handlers : threads'[i] = threads[i]
    BY <2>1, <2>2, TypeParts DEF MachineSound, ThreadsTyped, Handlers
  <2> QED
    BY <2>3, NoneSpare
<1> QED
  BY <1>2, <1>3

(* Every instruction of a body spares the callers' words ...               *)
LEMMA WorkSpares ==
  ASSUME Verified(image), MachineSound, NEW op, SubAt(op), op # "EOE",
         NEW r, Continue(r) \/ \E position : YieldAt(position, r), KeepsFrame, MachineSound'
  PROVE  LeavesCallers
<1>1. \E position : threads' = [threads EXCEPT ![process] =
                                 [this EXCEPT !.pc = position, !.stack = r]]
  BY DEF Continue, Becomes, YieldAt, Yield
<1> QED
  BY <1>1, KeepsFrameSpares

(* All instructions of sub_execute together.                               *)
LEMMA SubSpares ==
  ASSUME Verified(image), MachineSound, sub_execute
  PROVE  LeavesCallers
<1>1. CASE SubLoad
  <2>1. KeepsFrame /\ MachineSound'
    BY <1>1, LoadStep
  <2> QED
    BY <1>1, <2>1, WorkSpares DEF SubLoad
<1>2. CASE SubCalc
  <2>1. KeepsFrame /\ MachineSound'
    BY <1>2, CalcStep
  <2>2. \/ \E r : Continue(r)
        \/ UNCHANGED threads
    BY <1>2 DEF SubCalc
  <2>3. CASE UNCHANGED threads
    BY <2>3, NoneSpare
  <2>4. CASE \E r : Continue(r)
    BY <1>2, <2>1, <2>4, WorkSpares DEF SubCalc
  <2> QED
    BY <2>2, <2>3, <2>4
<1>3. CASE SubGet
  <2>1. KeepsFrame /\ MachineSound'
    BY <1>3, GetStep
  <2> QED
    BY <1>3, <2>1, WorkSpares DEF SubGet
<1>4. CASE SubGetL
  <2>1. KeepsFrame /\ MachineSound'
    BY <1>4, GetLStep
  <2> QED
    BY <1>4, <2>1, WorkSpares DEF SubGetL
<1>5. CASE SubGetG
  <2>1. KeepsFrame /\ MachineSound'
    BY <1>5, GetGStep
  <2> QED
    BY <1>5, <2>1, WorkSpares DEF SubGetG
<1>6. CASE SubDefine
  <2>1. KeepsFrame /\ MachineSound'
    BY <1>6, DefineStep
  <2> QED
    BY <1>6, <2>1, WorkSpares DEF SubDefine
<1>7. CASE SubDefineL
  <2>1. SubAt("DEFINE_L") /\ Store(gmRbp + inst.a)
    BY <1>7 DEF SubDefineL
  <2>2. gmRbp + inst.a \in Nat
    BY <2>1, Working, MemoryParts DEF OperandsFit
  <2>3. KeepsFrame /\ MachineSound'
    BY <2>1, <2>2, StoreStep
  <2> QED
    BY <2>1, <2>3, WorkSpares DEF Store
<1>8. CASE SubDefineG
  <2>1. SubAt("DEFINE_G") /\ Store(inst.a)
    BY <1>8 DEF SubDefineG
  <2>2. inst.a \in Nat
    BY <2>1, Working DEF OperandsFit
  <2>3. KeepsFrame /\ MachineSound'
    BY <2>1, <2>2, StoreStep
  <2> QED
    BY <2>1, <2>3, WorkSpares DEF Store
<1>9. CASE SubJump
  <2>1. KeepsFrame /\ MachineSound'
    BY <1>9, JumpStep
  <2> QED
    BY <1>9, <2>1, WorkSpares DEF SubJump
<1>10. CASE SubJumpF
  <2>1. KeepsFrame /\ MachineSound'
    BY <1>10, JumpFStep
  <2> QED
    BY <1>10, <2>1, WorkSpares DEF SubJumpF
<1>11. CASE SubPrint
  <2>1. KeepsFrame /\ MachineSound'
    BY <1>11, PrintStep
  <2> QED
    BY <1>11, <2>1, WorkSpares DEF SubPrint
<1>12. CASE SubMPick
  <2>1. KeepsFrame /\ MachineSound'
    BY <1>12, MPickStep
  <2> QED
    BY <1>12, <2>1, WorkSpares DEF SubMPick
<1>13. CASE SubCallP
  <2>1. KeepsFrame /\ MachineSound'
    BY <1>13, CallPStep
  <2>2. CASE inst.b = EXIT_P
    BY <1>13, <2>2, NoneSpare DEF SubCallP
  <2>3. CASE inst.b # EXIT_P
    BY <1>13, <2>1, <2>3, WorkSpares DEF SubCallP
  <2> QED
    BY <2>2, <2>3
<1>14. CASE GlobalEnd
  BY <1>14, NoneSpare DEF GlobalEnd
<1> QED
  BY <1>1, <1>2, <1>3, <1>4, <1>5, <1>6, <1>7, <1>8, <1>9, <1>10, <1>11, <1>12, <1>13, <1>14,
     CallSpares, MSubSpares, RetSpares, MPopSpares, EndOfEventSpares, EndOfAdviceSpares,
     TransitionSpares DEF sub_execute

(* ... and main_execute lets the handlers that run alone.                  *)
LEMMA DequeueSpares ==
  ASSUME MachineSound, Dequeue
  PROVE  LeavesCallers
<1>1. threads \in [DOMAIN threads -> Threads] /\ turn \in Handlers
  BY DEF MachineSound, MachineTypeOK, Dequeue, Turn
<1>2. \A i \in Handlers : i # turn => threads'[i] = threads[i]
  BY <1>1 DEF Dequeue, Handlers
<1>3. threads[turn].flag # 1
  BY DEF Dequeue
<1> QED
  BY <1>2, <1>3, SameSpares DEF LeavesCallers

(* SETTHREAD adds a thread behind those there are.                         *)
LEMMA SetThreadSpares ==
  ASSUME MachineSound, SetThread
  PROVE  LeavesCallers
<1> DEFINE new == Cardinality(DOMAIN threads)
<1>1. new \in Nat /\ DOMAIN threads = 0 .. new - 1
  BY DEF MachineSound, ThreadsSound
<1>2. threads' = WithThread(threads, new, newThread(coreLoc + Inst.a, <<>>))
  BY DEF SetThread
<1> HIDE DEF new
<1>3. new \notin DOMAIN threads
  BY <1>1
<1>4. \A i \in DOMAIN threads : threads'[i] = threads[i]
  BY <1>2, <1>3 DEF WithThread
<1> QED
  BY <1>4, NoneSpare DEF Handlers

(* CALL, GLOBAL and ENTRY run on a thread that is no handler.              *)
LEMMA EnterSpares ==
  ASSUME MachineSound, NEW op, NEW at, NEW elements, Enter(op, at, elements)
  PROVE  LeavesCallers
<1>1. \A i \in Handlers : threads'[i] = threads[i]
  BY TypeParts DEF MachineSound, ThreadsTyped, Enter, Handlers
<1> QED
  BY <1>1, NoneSpare

(* All of main_execute together.                                           *)
LEMMA MainSpares ==
  ASSUME MachineSound, main_execute
  PROVE  LeavesCallers
<1>1. CASE UNCHANGED threads
  BY <1>1, NoneSpare
<1>2. CASE MainCall \/ MainGlobal \/ MainEntry
  BY <1>2, EnterSpares DEF MainCall, MainGlobal, MainEntry
<1>3. CASE SetThread
  BY <1>3, SetThreadSpares
<1>4. CASE Dequeue
  BY <1>4, DequeueSpares
<1> QED
  BY <1>1, <1>2, <1>3, <1>4 DEF main_execute, MSet, MainLoad, MainGetG, MainPushes, MainJump,
     MainDefineL, MkCore, CopyCore, SetCore, MkThread, StartImp, Halt, Resume

----------------------------------------------------------------------------
(* The machine's invariant: the program it runs is one of Images, and it   *)
(* is sound.                                                               *)
MachineInv == image \in Images /\ MachineSound

(* Whatever verified programs the machine is given, every step it takes of *)
(* main_execute or sub_execute keeps its threads, its memory and its place *)
(* in the set-up code sound (run.c).                                       *)
THEOREM MachineIsSound == AllVerified => (Spec => []MachineInv)
<1> SUFFICES ASSUME AllVerified
             PROVE  Spec => []MachineInv
  OBVIOUS
<1>1. Init => MachineInv
  BY InitSound DEF Init, AllVerified, MachineInv
<1>2. MachineInv /\ [Next]_vars => MachineInv'
  <2> SUFFICES ASSUME MachineInv, [Next]_vars
               PROVE  MachineInv'
    OBVIOUS
  <2>1. image \in Images /\ MachineSound /\ Verified(image)
    BY DEF MachineInv, AllVerified
  <2>2. image' = image
    BY SameImage
  <2>3. MachineSound'
    BY <2>1, MainExecuteSound, SubExecuteSound, Stuttering DEF Next
  <2> QED
    BY <2>1, <2>2, <2>3 DEF MachineInv
<1> QED
  BY <1>1, <1>2, PTL DEF Spec

(* Verified programs compute, store and print nothing but ints: no word    *)
(* that is an address or a base point ever reaches the memory or the       *)
(* output, whichever instruction takes it off the stack.                   *)
THEOREM MachineIsTyped == AllVerified => (Spec => []MachineTypeOK)
<1>1. ASSUME AllVerified, MachineInv
      PROVE  MachineTypeOK
  <2>1. Verified(image) /\ MachineSound
    BY <1>1 DEF AllVerified, MachineInv
  <2> QED
    BY <2>1 DEF MachineSound
<1> SUFFICES ASSUME AllVerified
             PROVE  Spec => []MachineTypeOK
  OBVIOUS
<1>2. MachineInv => MachineTypeOK
  BY <1>1
<1> QED
  BY <1>2, MachineIsSound, PTL

(* The stack of every handler of a verified program is a chain of frames,  *)
(* each over the way back its call left; a thread stands in front of an    *)
(* instruction, and a handler that has ended leaves nothing behind.        *)
THEOREM StacksAreFrames == AllVerified => (Spec => []FramesSound)
<1>1. ASSUME AllVerified, MachineInv
      PROVE  FramesSound
  <2>1. Verified(image) /\ MachineSound
    BY <1>1 DEF AllVerified, MachineInv
  <2> QED
    BY <2>1, SoundFrames
<1> SUFFICES ASSUME AllVerified
             PROVE  Spec => []FramesSound
  OBVIOUS
<1>2. MachineInv => FramesSound
  BY <1>1
<1> QED
  BY <1>2, MachineIsSound, PTL

(* No instruction of a verified program takes more off the stack than its  *)
(* own body put there, so Array_pop never finds too little, and never a way*)
(* back or a base point in place of a number.                              *)
THEOREM OperandsAreOwn == AllVerified => (Spec => []OperandsOwn)
<1>1. ASSUME AllVerified, MachineInv
      PROVE  OperandsOwn
  <2>1. Verified(image) /\ MachineSound
    BY <1>1 DEF AllVerified, MachineInv
  <2> QED
    BY <2>1, OwnOperands
<1> SUFFICES ASSUME AllVerified
             PROVE  Spec => []OperandsOwn
  OBVIOUS
<1>2. MachineInv => OperandsOwn
  BY <1>1
<1> QED
  BY <1>2, MachineIsSound, PTL

(* No instruction of a verified program writes to what lies under the      *)
(* frame it runs in, wherever DEFINE, MPICK or a call put their words; and *)
(* a return leaves its caller all but the arguments of the call.           *)
THEOREM CallersAreKept == AllVerified => (Spec => CallersKept)
<1>1. ASSUME AllVerified, MachineInv, [Next]_vars
      PROVE  [LeavesCallers]_vars
  <2>1. Verified(image) /\ MachineSound
    BY <1>1 DEF AllVerified, MachineInv
  <2> QED
    BY <1>1, <2>1, MainSpares, SubSpares DEF Next
<1> SUFFICES ASSUME AllVerified
             PROVE  Spec => CallersKept
  OBVIOUS
<1>2. MachineInv /\ [Next]_vars => [LeavesCallers]_vars
  BY <1>1
<1>3. Spec => [][LeavesCallers]_vars
  BY <1>2, MachineIsSound, PTL DEF Spec
<1> QED
  BY <1>3 DEF CallersKept, LeavesCallers
=============================================================================
