------------------------------ MODULE Dispatch ------------------------------
(***************************************************************************)
(* The main loop of a state (executor/run.c, STARTIMP, 285-396): it visits *)
(* the cores in turn; of each it calls the event function, which posts the *)
(* event to the threads whose condition accepts it, and then gives every   *)
(* thread of the core one slice: a running handler goes on to its next     *)
(* call, return or jump, an idle thread with a waiting event takes it.     *)
(*                                                                         *)
(* The queues are the bounded FIFOs that EventQueue refines; what happens  *)
(* to the cores over a transition is CoreTable's subject, here the next    *)
(* state handles the same events.                                          *)
(***************************************************************************)
EXTENDS Integers, Sequences, FiniteSets

CONSTANTS
  NumCores,    \* maxCoreSize
  Kind,        \* what core c waits for: "timer" (or a key, a packet), "loop"
  Size,        \* how many handlers core c has (Core.size)
  Accepts,     \* the firings of its core that a thread's condition accepts
  QUEUE_SIZE,
  Lengths,     \* how often a handler may yield before it ends
  Endless,     \* a handler that never ends
  MaxFires     \* bound: how often an event happens

CoreIndex == 1 .. NumCores
Threads == UNION {{<<c, i>> : i \in 1 .. Size[c]} : c \in CoreIndex}
Firings == 1 .. MaxFires

ASSUME DispatchAssumption ==
  /\ NumCores \in Nat \ {0} /\ QUEUE_SIZE \in Nat \ {0} /\ MaxFires \in Nat
  /\ Kind \in [CoreIndex -> {"timer", "loop"}]
  /\ Size \in [CoreIndex -> Nat \ {0}]      \* MKTHREAD: a handler at least
  /\ Accepts \in [Threads -> SUBSET Firings]
  /\ Lengths \subseteq Nat \cup {Endless} /\ Endless \notin Nat

VARIABLES
  core_i,
  thread_i,    \* 0: the core's event function is due
  flag,        \* 1: the thread's handler is running
  queue,       \* Thread.queue, oldest first
  left,        \* yields the running handler still makes
  fired,       \* how often each event has happened
  base,        \* history: fired when the state was entered
  started,     \* history: the firings each thread's handler ran for, in order
  lost         \* history: the firings its full queue refused

vars == <<core_i, thread_i, flag, queue, left, fired, base, started, lost>>

Here == <<core_i, thread_i>>

(* Faulty variants of the definitions below. *)
NewThreadsOldQueues ==                  \* waiting events outlive their state
  /\ flag' = [t \in Threads |-> 0]
  /\ left' = [t \in Threads |-> 0]
  /\ started' = [t \in Threads |-> <<>>]
  /\ lost' = [t \in Threads |-> {}]
  /\ base' = fired
  /\ UNCHANGED queue
AdvanceSkippingLast ==                  \* the last thread has no turn
  IF thread_i + 1 < Size[core_i]
  THEN core_i' = core_i /\ thread_i' = thread_i + 1
  ELSE core_i' = (core_i % NumCores) + 1 /\ thread_i' = 0
enqueueOneMore(n, T) ==                 \* one datum more than there are slots
  /\ queue' = [t \in Threads |-> IF t \in T /\ Len(queue[t]) <= QUEUE_SIZE
                                 THEN Append(queue[t], n) ELSE queue[t]]
  /\ lost' = [t \in Threads |-> IF t \in T /\ Len(queue[t]) > QUEUE_SIZE
                                THEN lost[t] \cup {n} ELSE lost[t]]

(* The handlers of a state that has just been entered (MKTHREAD, SETTHREAD, *)
(* newThread).                                                              *)
NewThreads ==
  /\ flag' = [t \in Threads |-> 0]
  /\ queue' = [t \in Threads |-> <<>>]
  /\ left' = [t \in Threads |-> 0]
  /\ started' = [t \in Threads |-> <<>>]
  /\ lost' = [t \in Threads |-> {}]
  /\ base' = fired

Init ==
  /\ core_i = 1 /\ thread_i = 0
  /\ flag = [t \in Threads |-> 0]
  /\ queue = [t \in Threads |-> <<>>]
  /\ left = [t \in Threads |-> 0]
  /\ fired = [c \in CoreIndex |-> 0] /\ base = fired
  /\ started = [t \in Threads |-> <<>>]
  /\ lost = [t \in Threads |-> {}]

(* The next turn of the two nested for loops. *)
Advance ==
  IF thread_i < Size[core_i]
  THEN core_i' = core_i /\ thread_i' = thread_i + 1
  ELSE core_i' = (core_i % NumCores) + 1 /\ thread_i' = 0

(* enqueue of datum n for the threads in T; nobody looks at its answer. *)
enqueue(n, T) ==
  /\ queue' = [t \in Threads |-> IF t \in T /\ Len(queue[t]) < QUEUE_SIZE
                                 THEN Append(queue[t], n) ELSE queue[t]]
  /\ lost' = [t \in Threads |-> IF t \in T /\ Len(queue[t]) >= QUEUE_SIZE
                                THEN lost[t] \cup {n} ELSE lost[t]]

(* Faulty variants of the steps below. *)
LoopAlways ==                           \* running handlers get the datum too
  /\ thread_i = 0 /\ Kind[core_i] = "loop"
  /\ enqueue(1, {t \in Threads : t[1] = core_i})
  /\ Advance
  /\ UNCHANGED <<flag, left, fired, base, started>>
YieldStays ==                           \* a handler runs to its end
  /\ thread_i # 0 /\ flag[Here] = 1 /\ left[Here] # 0
  /\ left' = [left EXCEPT ![Here] = IF @ = Endless THEN @ ELSE @ - 1]
  /\ UNCHANGED <<core_i, thread_i, flag, queue, fired, base, started, lost>>
StartAndRun ==                          \* the first slice is not put off
  /\ thread_i # 0 /\ flag[Here] = 0 /\ queue[Here] # <<>>
  /\ NewThreads
  /\ core_i' = 1 /\ thread_i' = 0
  /\ UNCHANGED fired

(* The event has not happened: eve_timer, eve_test, eve_keyget. *)
NothingFired ==
  /\ thread_i = 0 /\ Kind[core_i] = "timer"
  /\ Advance
  /\ UNCHANGED <<flag, queue, left, fired, base, started, lost>>

(* It has: every thread of the core whose condition holds gets it. *)
Fire ==
  /\ thread_i = 0 /\ Kind[core_i] = "timer" /\ fired[core_i] < MaxFires
  /\ fired' = [fired EXCEPT ![core_i] = @ + 1]
  /\ enqueue(fired'[core_i], {t \in Threads : t[1] = core_i /\ fired'[core_i] \in Accepts[t]})
  /\ Advance
  /\ UNCHANGED <<flag, left, base, started>>

(* eve_loop: every idle thread gets the same datum, 1. *)
Loop ==
  /\ thread_i = 0 /\ Kind[core_i] = "loop"
  /\ enqueue(1, {t \in Threads : t[1] = core_i /\ flag[t] = 0})
  /\ Advance
  /\ UNCHANGED <<flag, left, fired, base, started>>

(* sub_execute answers F_NONE or F_EOA. *)
Yield ==
  /\ thread_i # 0 /\ flag[Here] = 1 /\ left[Here] # 0
  /\ left' = [left EXCEPT ![Here] = IF @ = Endless THEN @ ELSE @ - 1]
  /\ Advance
  /\ UNCHANGED <<flag, queue, fired, base, started, lost>>

(* It answers F_EOE. *)
EndOfEvent ==
  /\ thread_i # 0 /\ flag[Here] = 1 /\ left[Here] = 0
  /\ flag' = [flag EXCEPT ![Here] = 0]
  /\ Advance
  /\ UNCHANGED <<queue, left, fired, base, started, lost>>

(* It answers F_TRANS: the loop is left at once, the next state is set up  *)
(* and its loop starts at the first core.                                  *)
Transition ==
  /\ thread_i # 0 /\ flag[Here] = 1 /\ left[Here] = 0
  /\ NewThreads
  /\ core_i' = 1 /\ thread_i' = 0
  /\ UNCHANGED fired

Start ==
  /\ thread_i # 0 /\ flag[Here] = 0 /\ queue[Here] # <<>>
  /\ flag' = [flag EXCEPT ![Here] = 1]
  /\ \E n \in Lengths : left' = [left EXCEPT ![Here] = n]
  /\ started' = IF Kind[core_i] = "loop" THEN started     \* always the same datum
                ELSE [started EXCEPT ![Here] = Append(@, Head(queue[Here]))]
  /\ queue' = [queue EXCEPT ![Here] = Tail(@)]
  /\ Advance
  /\ UNCHANGED <<fired, base, lost>>

Idle ==
  /\ thread_i # 0 /\ flag[Here] = 0 /\ queue[Here] = <<>>
  /\ Advance
  /\ UNCHANGED <<flag, queue, left, fired, base, started, lost>>

Next == \/ NothingFired \/ Fire \/ Loop
        \/ Yield \/ EndOfEvent \/ Transition \/ Start \/ Idle

(* The loop is the virtual machine's only thread of control: no event      *)
(* function waits for its event and a slice ends at the next call or jump, *)
(* so it always takes another step.                                        *)
Spec == Init /\ [][Next]_vars /\ WF_vars(Next)

----------------------------------------------------------------------------
Seen(t) == started[t] \o queue[t]
Delivered(t) == {Seen(t)[k] : k \in 1 .. Len(Seen(t))}

(* The firings since the state was entered that concern thread t. *)
Concern(t) == Accepts[t] \cap (base[t[1]] + 1 .. fired[t[1]])

(* Type invariant; a queue never holds more than its slots. *)
DispatchTypeOK ==
  /\ core_i \in CoreIndex /\ thread_i \in 0 .. Size[core_i]
  /\ flag \in [Threads -> {0, 1}]
  /\ queue \in [Threads -> Seq(Nat)] /\ \A t \in Threads : Len(queue[t]) <= QUEUE_SIZE
  /\ left \in [Threads -> Nat \cup {Endless}]
  /\ fired \in [CoreIndex -> 0 .. MaxFires] /\ base \in [CoreIndex -> 0 .. MaxFires]
  /\ started \in [Threads -> Seq(Nat)]
  /\ lost \in [Threads -> SUBSET Nat]

(* Every firing that the condition of a handler accepts and that happens   *)
(* while its state is active is, exactly once and in the order it          *)
(* happened, taken by the handler, waiting for it, or refused by a full    *)
(* queue: no handler of a core goes without what another one gets, however *)
(* far behind it is, and no event of an earlier state reaches a later one  *)
(* (run.c:293-396, stdlib-execute.c:97-140, object.c:837-902).             *)
ExactlyOnce ==
  \A t \in Threads : Kind[t[1]] = "timer" =>
    /\ \A j, k \in 1 .. Len(Seen(t)) : j < k => Seen(t)[j] < Seen(t)[k]
    /\ Delivered(t) \cup lost[t] = Concern(t) /\ Delivered(t) \cap lost[t] = {}
    /\ lost[t] # {} => Len(Seen(t)) >= QUEUE_SIZE

(* A loop() handler never falls behind: its datum waits only from the call *)
(* of its core's event function to the thread's own turn in the same       *)
(* round, so that the queue of a handler that runs is empty and it is not  *)
(* called again for rounds long gone (stdlib-execute.c:75-93,              *)
(* run.c:385-389).                                                         *)
LoopFresh ==
  \A t \in Threads : Kind[t[1]] = "loop" =>
    /\ lost[t] = {}
    /\ queue[t] # <<>> => /\ core_i = t[1] /\ thread_i \in 1 .. t[2]
                          /\ flag[t] = 0 /\ queue[t] = <<1>>

(* An event that waits for an idle handler is taken, or its state is left: *)
(* no other handler, endless or not, can keep it waiting (run.c:293-396).  *)
Served ==
  \A t \in Threads :
    (flag[t] = 0 /\ queue[t] # <<>>) ~> (flag[t] = 1 \/ queue[t] = <<>>)

(* A handler that has an end reaches it, or its state is left, even while  *)
(* another handler runs for ever: the slices are fair (run.c:298-396,      *)
(* 1124-1153).                                                             *)
Completes ==
  \A t \in Threads : (flag[t] = 1 /\ left[t] # Endless) ~> (flag[t] = 0)

(* The event function of every core is called again and again, whatever    *)
(* the handlers do: even states that are left as soon as they are entered  *)
(* look at all of their events once, because a handler that is taken has   *)
(* its first slice in the next round only (run.c:293-296, 385-392).        *)
Polled == \A c \in CoreIndex : []<>(core_i = c /\ thread_i = 0)
=============================================================================
