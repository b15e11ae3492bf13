----------------------------- MODULE EventCores -----------------------------
(***************************************************************************)
(* What the table of event cores promises a program: in each state exactly *)
(* the events the state handles are alive.  A global event that the next   *)
(* state handles too goes on where it was (a timer keeps its seconds); any *)
(* other event starts afresh.  Preparing a state changes nobody's value,   *)
(* `init' in entry() restarts the event it names and no other, and values  *)
(* move on only while the state's main loop runs.                          *)
(***************************************************************************)
EXTENDS Naturals

CONSTANTS
  States,
  FirstState,
  MaxTicks    \* bound on how far an event's counter runs

VARIABLES
  globals,    \* the global events each state handles (fixed by the program)
  locals,     \* the events each state declares itself (fixed too)
  state,      \* the program state
  phase,      \* "prepared" for it, in its "entry" function, in its "loop"
  ticks       \* the running value of every live event

Live(s) == globals[s] \cup locals[s]

Init ==
  /\ state = FirstState
  /\ phase = "prepared"
  /\ ticks = [e \in Live(FirstState) |-> 0]

Enter == phase = "prepared" /\ phase' = "entry" /\ UNCHANGED <<state, ticks>>

Start == phase = "entry" /\ phase' = "loop" /\ UNCHANGED <<state, ticks>>

Restart(e) ==
  /\ phase = "entry"
  /\ ticks' = [ticks EXCEPT ![e] = 0]
  /\ UNCHANGED <<state, phase>>

Tick(e) ==
  /\ phase = "loop" /\ ticks[e] < MaxTicks
  /\ ticks' = [ticks EXCEPT ![e] = @ + 1]
  /\ UNCHANGED <<state, phase>>

Go(t) ==
  /\ phase # "prepared" /\ phase' = "prepared"
  /\ state' = t
  /\ ticks' = [e \in Live(t) |->
                IF e \in globals[state] \cap globals[t] THEN ticks[e] ELSE 0]

Next ==
  /\ \/ Enter \/ Start
     \/ \E e \in Live(state) : Restart(e) \/ Tick(e)
     \/ \E t \in States : Go(t)
  /\ UNCHANGED <<globals, locals>>

Spec == Init /\ [][Next]_<<globals, locals, state, phase, ticks>>
=============================================================================
