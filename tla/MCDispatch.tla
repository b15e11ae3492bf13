----------------------------- MODULE MCDispatch -----------------------------
(***************************************************************************)
(* Two cores: a loop with one handler, which the loop visits first, and a  *)
(* timer with two handlers, one of them conditional; four firings and      *)
(* queues of two slots, so that a slow handler's queue overflows.          *)
(***************************************************************************)
EXTENDS Dispatch

MCKind == <<"loop", "timer">>
MCSize == <<1, 2>>
MCAccepts == [t \in {<<1, 1>>, <<2, 1>>, <<2, 2>>} |->
               CASE t = <<1, 1>> -> {} [] t = <<2, 1>> -> 1 .. 4 [] t = <<2, 2>> -> {2, 3, 4}]
=============================================================================
