---------------------------- MODULE MCCoreTable ----------------------------
(* Two states over a table of three global events and one local event each. *)
(* Every well-formed program of that size is among the instances of the     *)
(* set below, up to what its entry() and handlers choose to do: all of it   *)
(* is allowed, none of it is forced.                                        *)
EXTENDS CoreTable

Handled(p, s) ==
  {Global(i) : i \in p.handles[s]} \cup {Local(k) : k \in 1 .. p.locals[s]}

Program(handles, locals, globalVars) ==
  [handles     |-> handles,
   locals      |-> locals,
   declared    |-> [s \in States |-> [k \in 1 .. MaxLocals |-> k]],
   entryInits  |-> [s \in States |-> Handled([handles |-> handles, locals |-> locals], s)],
   entryGoes   |-> [s \in States |->
                     IF s # FirstState THEN States
                     ELSE {t \in States : handles[s] \cap handles[t] = {}}],
   handlerGoes |-> [s \in States |-> States],
   globalVars  |-> globalVars]

WellFormedPrograms ==
  {Program(h, l, g) : h \in [States -> SUBSET (0 .. TableSize - 1)],
                      l \in [States -> 0 .. MaxLocals], g \in {0, 2}}

(* One state with two local events whose handlers come in the other order. *)
CrossedPrograms ==
  {[handles     |-> [s \in States |-> {}],
    locals      |-> [s \in States |-> 2],
    declared    |-> [s \in States |-> [k \in 1 .. 2 |-> 3 - k]],
    entryInits  |-> [s \in States |-> {Local(1), Local(2)}],
    entryGoes   |-> [s \in States |-> {}],
    handlerGoes |-> [s \in States |-> States],
    globalVars  |-> 0]}
=============================================================================
