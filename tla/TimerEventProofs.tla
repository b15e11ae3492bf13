------------------------- MODULE TimerEventProofs -------------------------
(***************************************************************************)
(* For every clock range, interval and word width in which the tagging     *)
(* loses nothing (ClockFits), a timer's reports never run ahead of the     *)
(* clock.  The inductive invariant is the type invariant together with     *)
(* Paced: NeverAhead alone is not inductive, since a firing needs to know  *)
(* that the seconds reported so far end at the previous firing.            *)
(***************************************************************************)
EXTENDS TimerEvent, TLAPS

TimerInv == TimerTypeOK /\ Paced

(* The invariant holds of a timer just set up ...                          *)
LEMMA TimerStarts == ClockFits /\ Init => TimerInv
  BY TimerAssumption DEF ClockFits, Init, TimerInv, TimerTypeOK, Paced, Clock

(* A second of the clock, a report and an interval are kept as they are. *)
LEMMA TimerStep == ClockFits /\ TimerInv /\ [Next]_vars => TimerInv'
  <1> SUFFICES ASSUME ClockFits, TimerInv, [Next]_vars
               PROVE  TimerInv'
    OBVIOUS
  <1> USE TimerAssumption DEF TimerInv, TimerTypeOK, Paced, Clock
  <1>1. /\ Kept(now) = now
        /\ Kept(0) = 0
        /\ Kept(1) = 1
        /\ \A arg \in IntervalArgs : arg > 0 => Kept(arg) = arg
    BY DEF ClockFits
  <1>2. CASE eve_timer
    <2>1. count + interval <= now - born
      BY <1>2 DEF eve_timer
    <2>2. Kept(count + interval) = count + interval
      BY <2>1 DEF ClockFits
    <2> QED
      BY <1>1, <1>2, <2>1, <2>2 DEF eve_timer
  <1>3. CASE PassSecond
    BY <1>3 DEF PassSecond
  <1>4. ASSUME NEW arg \in IntervalArgs, SetTimer(arg)
        PROVE  TimerInv'
    BY <1>1, <1>4 DEF SetTimer
  <1>5. CASE UNCHANGED vars
    BY <1>5 DEF vars
  <1> QED
    BY <1>2, <1>3, <1>4, <1>5 DEF Next

(* ... and at every poll.                                                  *)
LEMMA TimerInvariant == ClockFits => (Spec => []TimerInv)
  <1> SUFFICES ASSUME ClockFits PROVE Spec => []TimerInv
    OBVIOUS
  <1>1. Init => TimerInv
    BY TimerStarts
  <1>2. TimerInv /\ [Next]_vars => TimerInv'
    BY TimerStep
  <1> QED
    BY <1>1, <1>2, PTL DEF Spec

(* The words of a timer core mean what eve_timer takes them for. *)
THEOREM TimerTypes == ClockFits => (Spec => []TimerTypeOK)
  <1>1. TimerInv => TimerTypeOK
    BY DEF TimerInv
  <1> QED
    BY <1>1, TimerInvariant, PTL

(* A run of n firings takes at least n intervals: what a timer has         *)
(* reported was over at its latest firing (stdlib-execute.c:100).          *)
THEOREM TimerPaced == ClockFits => (Spec => []Paced)
  <1>1. TimerInv => Paced
    BY DEF TimerInv
  <1> QED
    BY <1>1, TimerInvariant, PTL

(* The seconds reported to handlers never exceed the seconds elapsed since *)
(* the core was made (stdlib-execute.c:97-105).                            *)
THEOREM TimerNeverAhead == ClockFits => (Spec => []NeverAhead)
  <1>1. TimerInv => NeverAhead
    BY TimerAssumption DEF TimerInv, TimerTypeOK, Paced, NeverAhead, Clock
  <1> QED
    BY <1>1, TimerInvariant, PTL
=============================================================================
