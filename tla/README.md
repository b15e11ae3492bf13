# SHICA in TLA+

SHICA (Simple Hybrid Interaction-Control with Agents) is a small language for
programs made of *states* that handle *events*, for single-board computers.
A compiler written in C reads a program and turns it into byte code; a virtual
machine, also in C, runs it; programs of several boards form *groups* over
broadcast UDP.  This directory models all of that way: how a text is read, what
code it becomes, how the machine runs the code, how events are stored,
dispatched to handlers and carried from state to state, and how agents join,
leave and lead a group.

All paths below are relative to `src/source/` unless they start with `src/`.

## The system

| Part | Code | State | Operations | Hard because |
|---|---|---|---|---|
| Event queue | `executor/object.c` `struct Queue`, `newQueue`, `enqueue`, `dequeue` | a five-slot ring, 4-bit `head` and `size` | post, fetch | wrap-around, a full queue refuses silently |
| Table of event cores | `executor/run.c` `MKCORE`, `COPYCORE`, `SETCORE`, `MKTHREAD`, `SETTHREAD`, `ENTRY`, `STARTIMP` prologue, `F_TRANS`; `SETCORE` of `sub_execute` | ten words of the global stack, `currentBinaryData`, `GCoreIndex`, `maxCoreSize`, `localCoreSize` | set up a state, `init`, transition | slots are found by rank in bit sets that change while they are used; cores survive transitions |
| Main loop | `run.c` `STARTIMP` | turn (`core_i`, `thread_i`), per thread `flag`, queue, pc | poll an event function, give a thread a slice, start a handler, end, transition | many handlers interleaved by slices, backlogs, endless handlers, transition in the middle of a round |
| Event functions | `executor/library/stdlib-execute.c` | three words of a timer core | `eve_timer`, `eve_test`, `eve_loop`, `eve_keyget`, set-up | time, tagged integers, late polls |
| Interpreter | `run.c` `main_execute`, `sub_execute` | a stack per thread, global stack, state variables | calls, returns, advice, jumps, stores, transitions | yields inside expressions, frames of nested calls, shared variables |
| Group communication | `executor/library/communicate-execute.c`, `src/RPI0_DEMO/comGroup/main.c` | an agent (reader, member or none), a byte of member bits | join, leave, hand over, trigger | UDP broadcast: loss, duplicates, reordering; ids counted from 0 and from 1; two readers |
| Collector | `executor/lib/msgc.c` (only with `MSGC=1`, which does not compile) | one list of blocks | allocate, mark, sweep | – |
| Parser | `compiler/parser/parser.leg`, `parser.c`, `compiler/preprocess.c` | position, pending actions, variables of the rules, event table | match, give back, do actions, sort a state's handlers | sixteen levels of operators, alternatives that fail halfway, order by event bits |
| Compiler | `compiler/optimaize.c`, `binary.c` | tables of variables, functions, advices, states; code with holes | translate trees, fix jumps, order set-up code | jump distances counted in three places, scopes, loops within loops |
| Byte code | `common/inst.c`, `compiler/code.c` | – | count, write, read an instruction | three switches must agree |
| C-interface generator, device wrappers, other demos | `compiler/generate.c`, `gpiolib`, `roslib`, `src/RPI0_DEMO` | – | – | text output or plain I/O |

How they interact.  The parser hands the compiler one tree per definition, a
state's handlers sorted by their events' bits.  The compiler gives every global
event a bit in its event table, every local event a place in its state's list,
and emits for each state `MKCORE`, then per event
`COPYCORE`/`SETCORE`/`MKTHREAD`/`SETTHREAD`, then `ENTRY`, then `STARTIMP`.  The
machine runs these instructions to fill the table of cores.  `STARTIMP` then
loops for ever over the cores: it calls the core's event function, which may
post an argument array to the queues of the core's threads, and then steps each
thread.  A slice that answers `F_TRANS` rearranges the table for the next
state's events and jumps to that state's `MKCORE`.  Everything in one machine
happens in one thread of control; the concurrency is that of handlers sliced at
calls, returns and jumps, and of the world outside (clock, keys, packets).
Machines of a group run beside each other and meet only in datagrams.

What makes each part correct:

* queue: first in, first out; nothing lost but by refusal;
* table: each event of the running state has exactly one core, at the slot its
  rank names, with its own `var` and the running state's threads; an event both
  states handle keeps its value, all others start afresh;
* main loop: every firing a handler's condition accepts reaches it once and in
  order unless its queue was full; no handler starves; a state that is left
  leaves nothing behind;
* timer: never reports more time than has passed; a whole interval between
  firings;
* parser: a text written with C's rules is read as the program it says, nothing
  of it is passed over, and reading ends;
* compiler and interpreter together: a handler does what its source says;
  frames and arguments balance over calls, loops, breaks and advice;
* group: a reader gives no id twice and lists its members, a trigger means the
  same to everybody it reaches.

## Modules

| Module | What it is |
|---|---|
| `EventFifo` | what a queue promises: a bounded FIFO that refuses the newest |
| `EventQueue` | the ring buffer; `RefinesFifo` maps the ring to the FIFO |
| `EventQueueProofs` | type invariant and refinement, for every capacity |
| `TimerEvent` | `eve_timer` and `TIMERSEC_E` over a clock, with the tagging of integers as modular arithmetic |
| `TimerEventProofs` | type invariant, `Paced` and `NeverAhead` under `ClockFits` |
| `EventCores` | what the table promises: which events are alive in a state and whose value goes on |
| `CoreTable` | the table and the instructions that work on it; `RefinesEventCores` maps it to `EventCores` |
| `CoreTableProofs` | type invariant, places, refinement, for every set of well-formed programs |
| `MCCoreTable` | all small programs, for TLC |
| `Dispatch` | the main loop over bounded FIFOs |
| `DispatchProofs` | type invariant, `ExactlyOnce`, `LoopFresh` |
| `MCDispatch` | two cores and three handlers, for TLC |
| `SyntaxTree` | the trees between parser and compiler, one operator per `newXxx` of `compiler/object.c` |
| `Peg` | what a rule of the generated parser is made of |
| `Grammar` | every rule of the language, one `yy_` definition per generated function |
| `Parser` | matching and backtracking, the actions, `preprocess.c`, the loop that reads a file |
| `Writing` | the reference for it: how a tree is written |
| `Reading`, `MCReading` | a written program, whole or with a chunk lost, and the parser; the programs for TLC |
| `ByteCode` | the instructions, and the three counts of their bytes |
| `Compiler` | `compile()`: what code each kind of tree becomes, and which trees it refuses |
| `Interpreter` | `main_execute` and `sub_execute`, one action per instruction |
| `Verifier` | the conditions on a program's code under which the machine, which tests nothing, goes right |
| `StackMaps` | the map of a code those conditions are stated over, found by following the code |
| `Frames` | what must be true of the machine's stacks, and the inductive invariant behind it |
| `StackProofs` | lemmas on stacks and frames; the three byte counts agree |
| `FramesProofs` | types, frames, operands and callers' words, for all verified programs |
| `Meaning` | the reference for both: what a body of source does to a memory of names |
| `Machine` | what the compiler makes of a program, run by the interpreter; the properties that compare it with `Meaning` |
| `SamplePrograms`, `MCMachine` | programs, for TLC |
| `GroupWire` | the broadcast network, the message format, what reader and member are |
| `GroupAgents` | `wifiGroupReceived`: set-up, event function, `send` |
| `ComGroup` | the demonstration `src/RPI0_DEMO/comGroup`, the only agent that leaves and hands over |
| `Membership` | what a group promises: readers, members, and the tickets that ids are given by |
| `Group`, `MCGroup` | a group of both kinds, its properties; symmetry and targets for TLC |
| `GroupProofs` | `GroupTypeOK`, `SharedIdsWereSharedAnswers`, `MembersListed`, `TriggersAgree`, and that `Group` implements `Membership`, for groups of any size and mix |

Correspondence, module by module:

* **EventQueue.** `elements`, `head`, `size` are the fields; `answer` is the
  latest return value.  Every argument array is a model value.
* **CoreTable.** `at` is the next instruction of the state's set-up code and
  `todo` what that code has still to set up.  `prog` is the loaded program,
  reduced to what the set-up code and the transitions depend on: the events each
  state handles, the order in which its local ones were declared, what `entry()`
  inits, where `entry()` and the handlers may go, and the number of global
  variables (they are what the clearing loop at `run.c:329` counts wrongly, so
  it is in the model as it is in the code).  A core is reduced to whose event
  function it runs, whose `var` it carries, a counter standing for the value in
  that `var`, and the state its threads belong to.  The words `copyCore[]` yields
  beyond the live table are a core of no event (`Garbage`).  `MKTHREAD` and its
  `SETTHREAD`s are one step; a transition is one step, as in the code, where no
  handler runs in between.
* **Dispatch.** `thread_i = 0` means that the core's event function is due.  A
  handler is the number of times it will yield, chosen when it starts; `Endless`
  is a handler that never ends.  A firing is a number, its condition the set of
  numbers a thread accepts.  `started`, `lost` and `base` are history.  The next
  state handles the same events, with new threads.
* **TimerEvent.** The core's three words as `_Integer_value` reads them back;
  `Kept` is the cast to `int`, the shift by two tag bits within a word and the
  shift back.  The clock moves by itself.
* **Peg, Grammar, Parser.** The generated function `yy_name` is the expression
  `yy_name`, and `yyDo`'s replay of the action list is the sequence of actions a
  match collects; both are given back when an alternative fails, as
  `yypos`/`yythunkpos` are, while `begin`/`end` of a `< >` are not, as in the
  code.  A text is a sequence of chunks, a word of letters or one other
  character; words that touch are one identifier.  `Read` is one turn of
  `compile_file`'s loop: match `start`, do the actions, preprocess.
  `Array_put_elements` is modelled with its arithmetic: handlers sorted by event
  bit are laid over the lines of the state from the number of its definitions on.
* **Compiler.** The result of `compile()` is a record of code, type and tables;
  the context holds what the C function gets as arguments and in globals.
  `fatal()` is a pseudo-instruction that makes the program rejected, and the
  jumps of `break` and `continue` are pseudo-instructions until their loop is
  complete, as their places wait on `b_stack` and `c_stack`.  Modelled as they
  are: `if` takes no comparison as its condition; an argument of a call and a
  parameter of a handler are compared with the wrong node and always rejected;
  `kill_assoc` forgets one variable at the end of a block and none of two;
  `++` and `--` as expressions do not store.
* **Interpreter.** `threads[0]` is the thread of `CALL`, `GLOBAL` and `ENTRY`,
  the others are the handlers; `process` is who runs, `turn` whose turn is next.
  A step is one instruction.  Words on a stack are numbers, base points or nil.
  Modelled as they are: the initial values of state variables are cut off by
  `MKCORE` (`run.c:194`), `EOA` leaves the count of arguments behind, `l_GT` and
  `f_GT` compute `<`, a division may kill the machine (`Kills`, after which it is
  `ENDED`) and a shift may have several results (`Shifts`), and `CALL` and `GLOBAL` do not know the flag of a
  transition.
* **Verifier, StackMaps, Frames.** Nothing in the C code looks at an instruction
  before it is executed: `sub_execute` pops, jumps and returns as it is told.
  `Verified` says what it relies on, as a byte code verifier would, instruction by
  instruction over a map of the code (to which body an instruction belongs, how
  many words of its own frame are on the stack at least, which `coreLoc` set-up code
  is reached with).  The map is a field of `image` that the interpreter never
  reads; `StackMap` computes it for a run.  More words than the
  least are no fault, two ways to an instruction may come with different heights;
  only too few are refused.
* **Machine.** `Layout` places instructions by the bytes `CodeWrite` writes, the
  interpreter moves by the bytes it reads, and the compiler's jumps are counted
  by the bytes it adds: a disagreement of the three lands between instructions.
  `begun` is history: the memory a handler began with and whether another
  thread has stored since.
* **GroupWire, GroupAgents, ComGroup.** A byte of member bits is a set of bit
  numbers.  A broadcast reaches any subset of the sockets that are open; what
  waits at a socket is a set, read in any order; a datagram that is read may
  stay for a second time.  `out`, `joining`, `reader`, `member`, ... are what an
  agent's `readerMember` and sockets say.  An agent of either kind may
  stop at any time (`Stop` of a machine, `DemoStop` of a demonstration, which may
  also end in the ways its code has) and be started anew without memory.  `took`, `term`, `left` and `back` are history:
  which answer an id came from, in which reader's time, and which times had a
  leave that took another member's bit.
* **Membership.** The abstract specification of a group, without messages or
  lists.  A *ticket* is an answer of one time of a reader and an id; it is under
  way or held by those that became members with it.  A reader may `Give` a ticket,
  with an id that is on no good ticket of its own, `TakeBack` one, or make a
  `Mistake` over a leave that is under way; an agent may `Build` (or take over) a group,
  `Join` with a ticket under way, or `Leave` or stop; any ticket may get lost.  `Group` maps to it
  by `Reads`, `Holds` and `Open`: a ticket is under way in each copy of the answer
  that says it (`REQUEST_TO_BE_MEMBER`) and of a leave of one who took it.

The modules compose by their specifications: `Dispatch` uses the bounded FIFO
`EventQueue` is proved to implement, and the fresh threads and kept cores that
`CoreTable` is proved to give each state; the counter of a core in `CoreTable`
is the value `TimerEvent` moves.  `Parser` and `Compiler` share `SyntaxTree`;
`Machine` composes `Compiler` with `Interpreter`; `Interpreter` leaves to
`Dispatch` which events happen and to `CoreTable` which cores a state shares.
`Group` composes both kinds of agents over one wire.

## Runs

| Run | Configuration | What it asks | Bounds |
|---|---|---|---|
| `queue` | `MCEventQueue.cfg` | is the ring a bounded FIFO? | the real five slots, two kinds of datum: every head, size and contents |
| `timer` | `MCTimerEvent.cfg` | does a timer keep time and pace? | 12 seconds, intervals 0 (the default), 2 and 3, so late, exact and repeated polls and re-inits happen |
| `slots` | `MCCoreTable.cfg` | do cores stay in place, does `init` reach its event and do shared events go on? | all well-formed programs of two states over two global and one local event with zero or one global variable; values up to one |
| `slots_crossed` | `MCCoreTableCrossed.cfg` | does `init` reach its event when local handlers are in another order than their declarations? | two local events |
| `dispatch` | `MCDispatch.cfg` | is every firing handled once, and does nobody starve? | a loop with one handler, a timer with two, four firings, two slots per queue, handlers of zero, one or endlessly many yields |
| `group` | `MCGroup.cfg` | are ids, lists and triggers right over a network that loses, reorders and repeats? | three machines, each started once and stopped at any time; two bits of members; five broadcasts, one datagram read twice; triggers to nobody, to one and to two; machines symmetric |
| `group_mixed` | `MCGroupMixed.cfg` | does a list stay right when members leave and groups are handed over, and does the group implement `Membership`? | a machine and two demonstrations, each started once and stopped at any time; three bits; six broadcasts, one read twice |
| `group_zero` | `MCGroupZero.cfg` | does a trigger sent to 0 reach the reader? | two machines |
| `group_takeover` | `MCGroupTakeOver.cfg` | does a new reader take its own id out of the list? | two demonstrations |
| `machine` | `MCMachine.cfg` | is compiled code what the proofs ask for, and does it do what its source says, whatever the handlers' turns? | 239 compiled programs and one written by hand that passes an argument; numbers of three bits; a table of two cores; eight rounds of the loop |
| `samples` | `MCMachineSamples.cfg` | does the compiler take the samples of `src/test`? | the samples, byte-wide numbers, a table of ten cores |
| `reading` | `MCReading.cfg` | is a text read as the program it says, never with a piece passed over, and refused if it breaks a rule about events? | 370 texts; three places in the event table |

Why the bounds are enough.  Two states with two global events give every way an
event can be kept, dropped and added, and every change of rank.  The local event
adds the slots behind the global ones.  Transitions cycle without bound.  In
`dispatch` four firings overflow a queue of two while its handler is busy and
leave firings over for the time after a transition.  In `group` two bits fill up
with the second member, so the third agent is turned away; five broadcasts hold
two joins with their answers and a trigger, or two readers that answer the same
request; in `group_mixed` six hold two joins, a leave or a hand-over and what
follows it.  One datagram read twice is what repeats an answer or a leave.  Each
agent starts once in these runs; one that is started again has no memory and is
to the others like one that starts late, but nothing of that is checked by TLC.
The theorems below remove these bounds, that of starts too, from the safety
results.

The programs of `machine` are built, not picked: each of the seventeen binary
operators is computed on nine pairs of operands, which are of both signs and zero,
and a result of each is shifted, so that its high bits are lost; there is a
body for each statement, loops within loops with `break` and `continue` at each
place, calls within calls, every kind of advice between states, two handlers
that share variables and yield between.  Three bits of number overflow in both
directions.  A program runs for eight rounds or until it says `stop`.
Where C says nothing of an operation, the model has every result a build can
give: a division by zero ends the machine, one of the least int by -1 ends it or
wraps around, a shift by less than nothing or by a whole int shifts by any count.
`Meaning` says nothing of a handler that comes to such an operation; the stacks, the
types and the other handlers' turns are checked all the same.

The programs of `reading` pair every operator with one of each level, either way
round; the others hold every unary operator and literal, call, element, type,
statement within statement, and the orders in which a state may name its events.
They are written wide (blanks wherever they may stand) and tight (only where
they must).  The event table has three places instead of 32, so that some programs fill it,
from each place that enters an event and with events seen before, and the
programs of `TooMany` go one event too far on each of these ways.  Others define an event of the library
anew, under its own name or another's, and use it before and after.
`ForbiddenIsRefused` is checked of the 23 programs that break one of four rules: too
many events, an event function that is none, a call of one without `init`, and a
handler, an `init` or a statement for what is no event there.  Four programs, which together hold every construct, also lose one
chunk, each of its chunks in turn.

Expected violations (see `findings` in `PROJECT.json`):

* `slots_crossed`: `init` of a local event finds its core by the place of the
  event's declaration, set-up puts it at the place of its handler
  (`compiler/optimaize.c:858`, `executor/run.c:238`, `1288`).
* `samples`: the condition of an `if` is compiled without a type, and a
  comparison without a type ends the compiler (`compiler/optimaize.c:979`,
  `138`), so `src/test/if-ineq-test.txt` is refused although its directory's
  README lists it.  Of the files in `src/test` only `for-test`,
  `if-number-test` and `while-test` are taken: besides the `if`, the type of an
  argument and of a handler's parameter is compared with a node that never has
  it, so a program that passes an argument to a function of its own, or has a
  handler with a parameter, is refused.  The timers of `TimerEvent` and the conditions of `Dispatch` are
  therefore reached only by byte code not written by this compiler, such as the program in `code.c`.
* `group_zero`: `send(0, value)` is meant for the reader ("0:reader or other:
  member", `communicate-execute.c:516`), but 0 travels as a byte without bits and
  the receiver looks for bit `myID - 1` (line 291).
* `group_takeover`: ids of the demonstration count from 0 and have their own bit,
  but a new reader clears bit `myID - 1` under the comment "remove my id"
  (`src/RPI0_DEMO/comGroup/main.c:346`).

**Well-formed programs.**  `WellFormed` in `CoreTable` names what the table's
correctness depends on and neither the compiler nor the machine checks: local
handlers in declaration order; no `init` of an event the state does not handle;
no transition out of the first state's `entry()` to a state that shares events
with it (its `MKCORE` ran while no event was known, so the copy of the table that
the transition takes has length 0).  The `default` state of the sample in
`src/README.md` breaks the second and the third: it inits events it has no
handler for and leaves at once.  What then happens depends on words the C code
does not own, so such programs are outside the model's claims.

**Exceptions in the properties of a group.**  `SharedIdsWereSharedAnswers` and
`MembersListed` promise nothing where the protocol promises nothing.  An answer
does not say who it is for, so two that wait take one id (`took`).  A leave that is
read twice, by a reader that did not give the id, or by a virtual machine, which
keeps id i at bit i - 1 but clears bit i (`communicate-execute.c:242`), takes
somebody else's bit (`left`); and the leave of one that shares its id takes the
bit of all that share it (`back`).  What the properties say is that nothing else
goes wrong: no loss, order, repetition, restart or second reader does.

**Fairness.**  `Dispatch` assumes `WF_vars(Next)`: the loop always takes another
step.  The code justifies it: there is one thread of control, no event function
waits for its event (`eve_keyget` selects with a zero timeout), and
`sub_execute` returns at the next call, return or jump, so a slice is finite.
Nothing is assumed of handlers; `Completes` is about those that have an end.
`Machine` assumes `WF_mvars(MNext)` for the same reason: one thread of control,
and each instruction ends.  `Group` assumes only that a wait for an answer comes
to its end (`select` with a timeout) and states safety.  The other modules have
no fairness.

**Deadlock** is checked in `queue`, `timer`, `slots`, `slots_crossed` and
`dispatch`.  A program of `machine` ends, a file of `reading` has been read, and
all agents of a group may be down for good.

## Proofs

All proofs are checked by TLAPS for every value of the constants that the named
assumptions allow.

* `EventQueueProofs`: `QueueTypes`, `QueueRefinesFifo`.  The type invariant is
  inductive, since it says that the waiting slots hold posted data; the
  refinement then shows that each operation of the ring appends to, removes from
  or leaves the sequence it stands for.
* `TimerEventProofs`: `TimerTypes`, `TimerPaced`, `TimerNeverAhead`, all from
  `ClockFits`, the condition that all values of the run survive tagging.  It is
  needed: a tagged integer has two bits less than its word
  (`executor/object.c:491`), so where `int` and the word have the same width the
  time of day loses its high bits, the elapsed time is always large and the timer
  fires at each poll.  The invariant is the types with `Paced`,
  `count <= last - born`, from which `NeverAhead` follows.
* `CoreTableProofs`: `CoreTypes`, `CoresStayInPlace`, `TableRefinesCores`, under
  `AllWellFormed`.  First, lemmas about ranks in finite sets of naturals
  (monotone, injective, onto an initial segment, equal for two sets that agree
  below).  `CoresInPlace` speaks of states that are set up only and is not
  inductive; `IInv` adds what holds during set-up: which events are done and
  what `currentBinaryData` holds meanwhile (`SetUpOrder`), where `GCoreIndex`
  points at each instruction (`AtInstruction`), that a core that came over is
  its event's own and that done events are complete (`CoresKept`), and that the
  copy a transition takes reaches all global cores (`CopyReaches`).  The
  refinement follows step by step: set-up is silent, `init` restarts one event,
  a tick moves one, a transition keeps exactly the shared ones.
  `InitsReachTheirEvents` needs `SetUpOrder` too: at the time of an `init` the set
  of known events is exactly the state's, so the rank `init` computes is the rank
  the core was put at.  It is a theorem about programs whose local handlers come in
  the order of their declarations, which is part of `WellFormed`; `slots_crossed`
  shows that it fails for others.
* `DispatchProofs`: `DispatchTypes`, `DispatchExactlyOnce`, `DispatchLoopFresh`.
  The induction is over the sequence a thread has seen (`started` followed by
  its queue): posting appends to it, taking an event does not change it.
* `GroupProofs`: `GroupTypes`, `GroupSharesAnswers`, `GroupListsMembers`,
  `GroupTriggersAgree`, for any set of machines and demonstrations, any number of
  starts, broadcasts and repetitions.  The assumptions are that a byte has room
  for the members (`GroupAssumption`, `MAX_MEMBER_SIZE \in 1 .. 8`) and that
  triggers are sent to bits of a byte (`TargetsAssumption`).  What the
  properties say of members is not inductive, since an id is first in an answer
  under way, then a member's, and perhaps in a leave under way that may be read
  much later.  `GroupInv` calls all three a *claim* of an answer on an id and says:
  claims name answers that were given (`ClaimsKnown`); two answers of one time
  claim different ids (`Unshared`); the reader of that time has the bit of every
  claim in its list (`Listed`); two readers have different times (`OwnTerms`);
  a number stands for one broadcast (`Numbered`); and what was heard is what was
  said, seen with the id of the hearer (`HeardAsSaid`).  Every action of either
  kind of agent is first shown to be a `Change(a)`: an agent keeps its role,
  becomes reader of a new time, takes an answer that waits for it, gives a new
  answer on a bit that was free, takes back a bit, or goes down, while the
  network gains at most one message.  `ChangeKeeps` then proves the invariant
  once, for a `Change`, rather than once for each action.
  `GroupRefinesMembership`: a `Change` is a step of `Membership` as well.  Under
  `Holds` and `Open` a claim of `GroupInv` is a ticket (`TicketsAreClaimed`), so
  `ClaimsChange` says that a step opens at most one; that its id is on no
  good ticket of the reader is `Listed`, since the bit it is given on was free, and
  that it is not one taken back before is `Known`: those name answers already
  sent.  A leave that a reader obeys is the only step that takes back or spoils
  anything (`Marks`).
  `MembershipKeepsIdsApart`: the promise alone gives
  `SharedIdsWereSharedAnswers`, with `Apart` as its invariant (two good tickets of
  one reader differ in their ids), so nothing of the messages is needed for it.

* `StackProofs`, `FramesProofs`: `MachineIsSound`, and from it `MachineIsTyped`,
  `StacksAreFrames`, `OperandsAreOwn` and the action property `CallersAreKept`, all
  of the form `AllVerified => (Spec => ...)`: for every set of programs whose code
  meets `Verified`, of any length, with any number of handlers, nested calls and
  yields, any width of numbers and any size of the core table.  `AllVerified` is
  the hypothesis that keeps the recursion of the compiler out of the proof; the run
  `machine` checks it, as `CodeVerified`, of each program it compiles.
  `FramesSound` is not inductive.  A return finds its way in words that were pushed
  long before, and that they are what a call left there follows only from what
  every instruction in between did.  `MachineSound` therefore says of each frame that
  its words were put there by one call (`Linked`), that the caller's part of the stack is
  as high as the code in front of that call makes it, and that everything between
  two frames is a plain value (`Chained`, `Entering` in front of `MSUB`, `Inside`
  elsewhere, `Finished` between `MPOP` and `EOE`); of the set-up code it says that
  `coreLoc` is what the map knows (`MainSound`), without which a `SETTHREAD`
  could start a handler anywhere; and of the memory that it reaches to the state
  variables (`MemorySound`), so that cutting it off at `MKCORE` leaves a sequence.
  `StackProofs` proves one fact for each way a stack changes (a word more or less on
  top, a variable stored, a frame opened by `MSUB`, closed by `RET`, `EOA` or
  `MPOP`), `FramesProofs` one lemma for each instruction.  The same lemmas, read as
  what an instruction leaves alone, give `CallersKept`.
  `TablesAgree` is about the compiler's count, `CodeWrite`'s count and the machine's
  count of an instruction: one number, for all instructions an image can hold.

Model-checked only:

* liveness, `Served`, `Completes`, `Polled`, `StraightHandlersEnd`: fairness is
  beyond the prover;
* `CodeVerified`, `UndisturbedHandlersFollowSource`, `StoresAreCurrent` and all
  properties of `reading`: trees and texts are recursive, so are the compiler, the
  parser and the reference meaning, and what a recursive definition computes for
  every input needs an induction over data that the provers cannot instantiate.

## What the models show besides

Reading the code closely enough to model it brought up behaviour that is in the
models as it is, and that no document speaks about:

* `interval = 5` is read as `int erval = 5`: a type needs no blank behind it.
* `a -= 2` computes `2 - a`; `>` compares as `<` for the wider types.
* A block that is not finished at the end of a file keeps the compiler busy for
  ever, since an empty line is a statement (`OnlyUnfinishedBlocksHang` says that
  nothing else does).
* A character literal is read as the empty text.
* A definition or an `entry()` written behind a handler is overwritten by the
  handlers sorted into the state's lines.
* `break` and `continue` need a line end directly behind them; `&` and `|` are on
  one level.
* Nothing asks that every way through a function ends in `return`; the one check
  of its body (`compiler/optimaize.c:576`) ends the compiler when the type agrees.
  The code of a function that ends otherwise goes on into whatever was compiled
  next.  `Verifier` refuses such a function, and the programs of the runs have none.
* The condition and the body of an event defined globally appear in no tree.

## Not modelled, and the plan

Left out of parts that are modelled:

* `Parser`: tabs, carriage returns, line numbers, the words of messages; what
  begins with a word and is not it, unless written in two chunks.
* `Compiler`: local events with `init`, whose indexes are those of `CoreTable`;
  arrays and structs.  Where the C code gets lost in these (an argument of an
  event is always refused), nothing follows.
* `Interpreter`: strings, lists, conditions of handlers (`COND`) and numbers wider
  than `int`; no compiled program holds conditions.
* `Dispatch`: which firings a condition accepts is given.  The set-up of
  `keyget`, which waits for an answer its event function never gives
  (`stdlib-execute.c:294`), is not an action.
* `CoreTable`: programs that are not well-formed; the words behind `mainCore` and
  `copyCore`, which loops fill one element too far (`run.c:287`).
* `GroupAgents`: other groups on the same port, whose messages are read and
  dropped; `wifiReceived` and `wifiBrReceived`, which nothing calls.
* `timerSec.reset` and other event methods are unreachable: the list they are
  looked up in (`compiler/optimaize.c:784`) is never filled.

Left out for good:

* the collector `executor/lib/msgc.c`: it is used only with `MSGC=1`, and with it
  `executor/object.c` does not compile (`Core.vd` at line 327, `node` at line
  985).  In the build there is objects come from `calloc` and are never freed;
* `expanded.c`, a preprocessed copy of an older state of the machine;
* the C-interface generator, the code printers and `executor/tool.c` (text
  output), device access in `gpiolib` and `roslib`, and the demonstrations other
  than `comGroup` (stand-alone trials of a pin or a socket).

What would come next: the transition out of the first state's `entry()` and the set-up of `keyget` as runs of their
own; local events in `Compiler`, composed with `CoreTable` in place of its
programs; arrays in `Compiler` and `Interpreter`, with the capacity rule of
`Array_put` (`object.c:621`).
