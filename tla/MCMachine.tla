----------------------------- MODULE MCMachine -----------------------------
(***************************************************************************)
(* The machine on the programs of SamplePrograms.                          *)
(***************************************************************************)
EXTENDS Machine, SamplePrograms

(* What the compiler could not yet call: a function of one argument, as    *)
(* code.c writes it by hand.                                               *)
WithArgument ==
  LET body == <<InstrI("MSUB", 1), InstrII("MPICK", 3, 0), InstrI("GET", 0), Load("_Integer", 1),
                Calc("_Integer", "ADD"), Instr("RET")>>
      start == 2 * 5
      handler == <<Load("_Integer", 2),
                   InstrII("CALL", 1, start - (start + Bytes(body) + 5 + 5 + 9)),
                   Show("_Integer"), Instr("MPOP"), Instr("EOE")>>
      loc == start + Bytes(body) + 5
      rest == <<InstrI("MKCORE", 1), InstrII("COPYCORE", 1, 18), Load("_Integer", 0),
                InstrIII("SETCORE", 1, 0, 1), InstrI("MKTHREAD", 1),
                InstrII("SETTHREAD", loc - (loc + Bytes(handler) + 5), 0),
                Instr("STARTIMP"), Instr("HALT")>>
      all == Layout(<<InstrI("MSET", 0), InstrI("JUMP", Bytes(body))>> \o body
                      \o <<InstrI("JUMP", Bytes(handler))>> \o handler \o rest)
  IN  [code |-> all, map |-> StackMap(all), env |-> C!NothingDefined.env, accepted |-> TRUE]
Images_ == CompiledPrograms \cup {WithArgument}

SampleImages == {ImageOf(trees) : trees \in Samples}

EventFuncs_ == ("loop" :> [args |-> 0, pins |-> 1])
Primitives_ == ("stop" :> [type |-> "Undefined", args |-> <<"_Integer">>, number |-> EXIT_P]) @@
               ("output" :> [type |-> "Undefined", args |-> <<"_Integer">>, number |-> 1])
Bits_ == ("loop" :> 1)
=============================================================================
