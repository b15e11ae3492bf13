----------------------------- MODULE CoreTable -----------------------------
(***************************************************************************)
(* The table of event cores in the executor (executor/run.c, main_execute: *)
(* MKCORE, COPYCORE, SETCORE, MKTHREAD, ENTRY, STARTIMP, TRANS).           *)
(*                                                                         *)
(* The table is a run of MAXTHREADSIZE words of the machine's global stack *)
(* between the global variables and the state variables.  A state's global *)
(* events occupy the first slots in the order of the program's event table *)
(* and its local events the next ones.  currentBinaryData is the bit set   *)
(* of the global events of the running state: the slot of an event is the  *)
(* number of set bits below its own.  A transition moves the cores of the  *)
(* events both states handle to their new slots and drops the others; the  *)
(* next state's set-up code then fills the empty slots.                    *)
(*                                                                         *)
(* The bytecode of a state is what optimaize.c (case State, STEP2..STEP4)  *)
(* emits for it, given here by a program record.                           *)
(***************************************************************************)
EXTENDS Integers, FiniteSets

CONSTANTS
  States,        \* the states of a program
  FirstState,    \* the one it starts in
  TableSize,     \* global events in the event table (bits in use)
  MaxLocals,     \* bound: local events of one state
  MAXTHREADSIZE, \* slots of the core table (setting.h:22)
  MaxTicks,      \* bound: how far the counter in a core's var runs
  Programs,      \* the programs considered
  nil            \* an empty slot

GlobalIndex == 0 .. TableSize - 1

Global(i) == [scope |-> "global", index |-> i]
Local(k)  == [scope |-> "local",  index |-> k]    \* k-th local handler, from 1
NoEvent   == [scope |-> "none",   index |-> 0]

Events == {Global(i) : i \in GlobalIndex} \cup {Local(k) : k \in 1 .. MaxLocals}

(* A program: the global events each state handles; how many local events  *)
(* it declares and in which order (the handler of the k-th local handler   *)
(* was declared declared[s][k]-th); what entry() may init and where entry()*)
(* and the handlers may go; how many global variables there are.           *)
ProgramShape ==
  [handles     : [States -> SUBSET GlobalIndex],
   locals      : [States -> 0 .. MaxLocals],
   declared    : [States -> [1 .. MaxLocals -> 1 .. MaxLocals]],
   entryInits  : [States -> SUBSET Events],
   entryGoes   : [States -> SUBSET States],
   handlerGoes : [States -> SUBSET States],
   globalVars  : Nat]

ASSUME CoreTableAssumption ==
  /\ FirstState \in States
  /\ TableSize \in Nat /\ MaxLocals \in Nat /\ MAXTHREADSIZE \in Nat \ {0}
  /\ TableSize + MaxLocals <= MAXTHREADSIZE   \* "Event maximam size is 10", run.c:194
  /\ MaxTicks \in Nat
  /\ Programs \subseteq ProgramShape

(* A core: the event whose event function it runs, the event whose var it  *)
(* carries, the counter in that var and the state its threads belong to.   *)
Cores == [func : Events \cup {NoEvent}, var : Events \cup {NoEvent},
          ticks : 0 .. MaxTicks, threads : States \cup {nil}]

ASSUME NilAssumption == nil \notin Cores /\ nil \notin States

Slots == 0 .. MAXTHREADSIZE - 1

(* What copyCore[] yields beyond the words the code may read: it stands for *)
(* no core of the program.                                                 *)
Garbage == [func |-> NoEvent, var |-> NoEvent, ticks |-> 0, threads |-> nil]

VARIABLES
  prog,      \* the loaded program
  state,     \* the state whose bytecode runs
  at,        \* the next instruction of that bytecode
  todo,      \* its events that are still to be set up
  current,   \* currentBinaryData
  GCoreIndex,
  maxCoreSize,
  localCoreSize,
  slots      \* GM->Thread.stack[gmRbp ..]

vars == <<prog, state, at, todo, current, GCoreIndex, maxCoreSize, localCoreSize, slots>>

Instructions == {"MKCORE", "COPYCORE", "SETCORE", "MKTHREAD", "ENTRY", "LOOP"}

----------------------------------------------------------------------------
(* countActiveBit: how many events of the set precede event i. *)
countActiveBit(i, list) == Cardinality({j \in list : j < i})

countActiveCoreSize(list) == Cardinality(list)

(* binaryToIndex of a local event's bit: its place among the declarations. *)
binaryToIndex(k) == prog.declared[state][k] - 1

(* The set-up code of a state: its global events in table order, then its  *)
(* local ones in handler order; local is the next of these.                *)
AllEvents(s) == [globals |-> prog.handles[s], local |-> 1]

NextGlobal == CHOOSE i \in todo.globals : \A j \in todo.globals : i <= j

SetUpFrom(t) ==
  IF t.globals # {} THEN "COPYCORE"
  ELSE IF t.local <= prog.locals[state] THEN "SETCORE" ELSE "ENTRY"

NewCore(e) == [func |-> e, var |-> e, ticks |-> 0, threads |-> nil]

Init ==
  /\ prog \in Programs
  /\ state = FirstState /\ at = "MKCORE" /\ todo = AllEvents(FirstState)
  /\ current = {}
  /\ GCoreIndex = 0 /\ maxCoreSize = 0 /\ localCoreSize = 0
  /\ slots = [k \in Slots |-> nil]                           \* MSET

MkCore ==
  /\ at = "MKCORE"
  /\ at' = SetUpFrom(todo)
  /\ IF at' = "ENTRY" THEN UNCHANGED <<maxCoreSize, GCoreIndex>>   \* no handlers
     ELSE /\ maxCoreSize' = countActiveCoreSize(current)
          /\ GCoreIndex' = 0
  /\ UNCHANGED <<prog, state, todo, current, localCoreSize, slots>>

(* Faulty variants of the definitions below. *)
CopyCoreAlwaysFresh ==                  \* a kept core is not recognised
  /\ at = "COPYCORE"
  /\ GCoreIndex' = countActiveBit(NextGlobal, current)
  /\ current' = current \cup {NextGlobal}
  /\ at' = "SETCORE"
  /\ UNCHANGED <<prog, state, todo, maxCoreSize, localCoreSize, slots>>
MergedLeavingOld(next) ==               \* the place of a new event is not emptied
  LET copyCore(k) == IF k < maxCoreSize THEN slots[k] ELSE Garbage
  IN  [k \in Slots |->
        IF \E i \in next \cap current : countActiveBit(i, next) = k
        THEN copyCore(countActiveBit(CHOOSE i \in next : countActiveBit(i, next) = k, current))
        ELSE IF k < maxCoreSize - prog.globalVars THEN nil ELSE slots[k]]

(* A global event: a core that came over from the last state is kept. *)
CopyCore ==
  /\ at = "COPYCORE"
  /\ GCoreIndex' = countActiveBit(NextGlobal, current)
  /\ current' = current \cup {NextGlobal}
  /\ at' = IF slots[GCoreIndex'] = nil THEN "SETCORE" ELSE "MKTHREAD"
  /\ UNCHANGED <<prog, state, todo, maxCoreSize, localCoreSize, slots>>

SetGlobalCore ==
  /\ at = "SETCORE" /\ todo.globals # {}
  /\ slots' = [slots EXCEPT ![GCoreIndex] = NewCore(Global(NextGlobal))]
  /\ at' = "MKTHREAD"
  /\ UNCHANGED <<prog, state, todo, current, GCoreIndex, maxCoreSize, localCoreSize>>

SetLocalCore ==
  /\ at = "SETCORE" /\ todo.globals = {}
  /\ GCoreIndex' = countActiveCoreSize(current) + localCoreSize
  /\ localCoreSize' = localCoreSize + 1
  /\ slots' = [slots EXCEPT ![GCoreIndex'] = NewCore(Local(todo.local))]
  /\ at' = "MKTHREAD"
  /\ UNCHANGED <<prog, state, todo, current, maxCoreSize>>

(* MKTHREAD and the SETTHREADs after it: one thread per handler. *)
MkThread ==
  /\ at = "MKTHREAD"
  /\ slots' = [slots EXCEPT ![GCoreIndex].threads = state]
  /\ todo' = IF todo.globals # {}
             THEN [todo EXCEPT !.globals = @ \ {NextGlobal}]
             ELSE [todo EXCEPT !.local = @ + 1]
  /\ at' = SetUpFrom(todo')
  /\ UNCHANGED <<prog, state, current, GCoreIndex, maxCoreSize, localCoreSize>>

\* A slip: a global event's number taken for its rank.
EntryInitByNumber(e) ==
  LET isGlobal == e.scope = "global"
      index == IF isGlobal THEN e.index
               ELSE countActiveCoreSize(current) + binaryToIndex(e.index)
  IN  /\ at = "ENTRY"
      /\ current' = IF isGlobal THEN current \cup {e.index} ELSE current
      /\ slots' = IF slots[index] = nil THEN slots
                  ELSE [slots EXCEPT ![index] = [@ EXCEPT !.var = e, !.ticks = 0]]
      /\ UNCHANGED <<prog, state, at, todo, GCoreIndex, maxCoreSize, localCoreSize>>

(* `init e(..)' in entry(): SETCORE of sub_execute.  The slot is found from *)
(* the event's bit, a global event's bit is entered in currentBinaryData,   *)
(* and copyCore hands the new var, nothing else, to the core found there.   *)
EntryInit(e) ==
  LET isGlobal == e.scope = "global"
      index == IF isGlobal THEN countActiveBit(e.index, current)
               ELSE countActiveCoreSize(current) + binaryToIndex(e.index)
  IN  /\ at = "ENTRY"
      /\ current' = IF isGlobal THEN current \cup {e.index} ELSE current
      /\ slots' = IF slots[index] = nil THEN slots      \* nil's own words change
                  ELSE [slots EXCEPT ![index] =
                         [func |-> @.func, var |-> e, ticks |-> 0, threads |-> @.threads]]
      /\ UNCHANGED <<prog, state, at, todo, GCoreIndex, maxCoreSize, localCoreSize>>

(* entry() ends (or there is none) and STARTIMP takes over. *)
StartImp ==
  /\ at = "ENTRY"
  /\ at' = "LOOP"
  /\ maxCoreSize' = countActiveCoreSize(current) + localCoreSize
  /\ UNCHANGED <<prog, state, todo, current, GCoreIndex, localCoreSize, slots>>

(* The event function of core k moves on the value it keeps in var. *)
Tick(k) ==
  /\ at = "LOOP" /\ k < maxCoreSize /\ slots[k] # nil
  /\ slots[k].ticks < MaxTicks
  /\ slots' = [slots EXCEPT ![k].ticks = @ + 1]
  /\ UNCHANGED <<prog, state, at, todo, current, GCoreIndex, maxCoreSize, localCoreSize>>

(* F_TRANS: the table for the state that handles the events of next.  The   *)
(* copy of the old table has maxCoreSize words; the loop that clears the    *)
(* old table compares a stack index with maxCoreSize, so it stops short by  *)
(* the number of global variables.                                          *)
Merged(next) ==
  LET copyCore(k) == IF k < maxCoreSize THEN slots[k] ELSE Garbage
      size == countActiveCoreSize(next)
  IN  [k \in Slots |->
        IF \E i \in next : countActiveBit(i, next) = k
        THEN LET i == CHOOSE j \in next : countActiveBit(j, next) = k
             IN  IF i \in current THEN copyCore(countActiveBit(i, current)) ELSE nil
        ELSE IF k \in size .. size + localCoreSize - 1
                \/ k < maxCoreSize - prog.globalVars
             THEN nil ELSE slots[k]]

(* A faulty variant of the next definition: localCoreSize is not reset. *)
TransKeepingLocals(t) ==
  /\ slots' = Merged(prog.handles[t])
  /\ current' = prog.handles[t]
  /\ state' = t /\ at' = "MKCORE" /\ todo' = AllEvents(t)
  /\ UNCHANGED <<prog, GCoreIndex, maxCoreSize, localCoreSize>>

Trans(t) ==
  /\ slots' = Merged(prog.handles[t])
  /\ current' = prog.handles[t]
  /\ localCoreSize' = 0
  /\ state' = t /\ at' = "MKCORE" /\ todo' = AllEvents(t)
  /\ UNCHANGED <<prog, GCoreIndex, maxCoreSize>>

EntryTrans(t) == at = "ENTRY" /\ t \in prog.entryGoes[state] /\ Trans(t)

HandlerTrans(t) == at = "LOOP" /\ t \in prog.handlerGoes[state] /\ Trans(t)

Next ==
  \/ MkCore \/ CopyCore \/ SetGlobalCore \/ SetLocalCore \/ MkThread
  \/ \E e \in prog.entryInits[state] : EntryInit(e)
  \/ StartImp
  \/ \E k \in Slots : Tick(k)
  \/ \E t \in States : EntryTrans(t) \/ HandlerTrans(t)

Spec == Init /\ [][Next]_vars

----------------------------------------------------------------------------
(* Programs the table is right for: entry() inits only events its state    *)
(* handles, local handlers come in the order of their declarations, and    *)
(* the first state's entry() leaves only for states that share no event    *)
(* with it (its MKCORE ran while currentBinaryData was still empty).       *)
WellFormed(p) ==
  /\ \A s \in States :
       /\ \A e \in p.entryInits[s] :
            IF e.scope = "global" THEN e.index \in p.handles[s]
            ELSE e.index <= p.locals[s]
       /\ \A k \in 1 .. p.locals[s] : p.declared[s][k] = k
  /\ \A t \in p.entryGoes[FirstState] : p.handles[FirstState] \cap p.handles[t] = {}

GlobalsOf(s) == {Global(i) : i \in prog.handles[s]}
LocalsOf(s)  == {Local(k) : k \in 1 .. prog.locals[s]}
Alive == GlobalsOf(state) \cup LocalsOf(state)

(* Where the core of a live event belongs. *)
Place(e) ==
  IF e.scope = "global" THEN countActiveBit(e.index, prog.handles[state])
  ELSE countActiveCoreSize(prog.handles[state]) + e.index - 1

(* Whether the core at that place is this event's yet: a local event's     *)
(* place may hold a core the last state left behind.                       *)
IsUp(e) == IF e.scope = "global" THEN slots[Place(e)] # nil ELSE e.index < todo.local

Value(e) == IF IsUp(e) THEN slots[Place(e)].ticks ELSE 0

(* Type invariant; its last conjuncts say that the bits and counters stay  *)
(* inside the table (setting.h:22, run.c:184-242).                         *)
CoreTypeOK ==
  /\ prog \in Programs /\ state \in States /\ at \in Instructions
  /\ todo \in [globals : SUBSET GlobalIndex, local : 1 .. MaxLocals + 1]
  /\ slots \in [Slots -> Cores \cup {nil}]
  /\ current \subseteq GlobalIndex
  /\ localCoreSize \in 0 .. MaxLocals
  /\ GCoreIndex \in Slots
  /\ maxCoreSize \in 0 .. MAXTHREADSIZE

(* Once a state is set up, and until it is left, currentBinaryData is the  *)
(* set of its global events, the core of every event it handles lies at    *)
(* that event's place, carries that event's own var and runs this state's  *)
(* handlers, and the main loop visits those cores and no other slot: no    *)
(* event is lost, doubled or fed another's arguments by any sequence of    *)
(* transitions between states that share some of their events              *)
(* (run.c:184-266, 301-365, 1275-1312).                                    *)
CoresInPlace ==
  at \in {"ENTRY", "LOOP"} =>
    /\ current = prog.handles[state]
    /\ \A e \in Alive :
         /\ slots[Place(e)] # nil
         /\ slots[Place(e)].func = e /\ slots[Place(e)].var = e
         /\ slots[Place(e)].threads = state
    /\ at = "LOOP" => maxCoreSize = countActiveCoreSize(current) + prog.locals[state]

Phase == CASE at = "ENTRY" -> "entry" [] at = "LOOP" -> "loop" [] OTHER -> "prepared"

Abstract == INSTANCE EventCores WITH
  globals <- [s \in States |-> GlobalsOf(s)],
  locals  <- [s \in States |-> LocalsOf(s)],
  phase   <- Phase,
  ticks   <- [e \in Alive |-> Value(e)]

(* The table implements what a program counts on: a global event both      *)
(* states handle keeps its running value over a transition wherever its    *)
(* core moves, every other event of the new state starts from nothing,     *)
(* nothing that happens to one event changes another's value, and setting  *)
(* up a state is not visible (run.c:184-266, 285-400, 428-536).            *)
RefinesEventCores == Abstract!Spec

(* `init e(..)' puts e's value in e's core: no core runs one event's       *)
(* function on the var of another ("pos of this event func",               *)
(* optimaize.c:858; run.c:1275-1292).                                      *)
InitReachesItsEvent ==
  \A k \in Slots : slots[k] # nil => slots[k].func = slots[k].var
=============================================================================
