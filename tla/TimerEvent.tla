---------------------------- MODULE TimerEvent ----------------------------
(***************************************************************************)
(* The timerSec event function (executor/library/stdlib-execute.c,         *)
(* eve_timer and the TIMERSEC_E case of Event_stdlib).  A timer core keeps *)
(* three tagged integers: the second it last fired, the seconds it has     *)
(* reported so far and its interval.  The main loop polls it whenever its  *)
(* turn comes, which may be often or much later than an interval.          *)
(***************************************************************************)
EXTENDS Integers

CONSTANTS
  StartTime,    \* time(NULL) when the virtual machine starts
  EndTime,      \* bound: the clock stops here
  IntervalArgs, \* what programs pass: `init timerSec(n)', 0 without an init
  IntBits,      \* width of int
  WordBits      \* width of intptr_t, the word a tagged integer lives in

TAGBITS == 2    \* object.c:247

ASSUME TimerAssumption ==
  /\ StartTime \in Nat /\ EndTime \in Nat /\ StartTime <= EndTime
  /\ IntervalArgs \subseteq Int
  /\ IntBits \in Nat \ {0}
  /\ WordBits \in Nat /\ WordBits > TAGBITS

VARIABLES
  now,          \* time(NULL)
  last,         \* elements[0], as _Integer_value reads it back
  count,        \* elements[1]
  interval,     \* elements[2]
  born          \* history: the clock when the core was made

vars == <<now, last, count, interval, born>>

Clock == StartTime .. EndTime

(* What is left of v in a signed field of that many bits. *)
Signed(v, bits) ==
  LET m == v % 2^bits IN IF m < 2^(bits - 1) THEN m ELSE m - 2^bits

(* _Integer_value(_newInteger((int)v)): the value is cast to int, shifted  *)
(* left by the tag bits inside one word and shifted back.                  *)
Kept(v) == Signed(Signed(v, IntBits), WordBits - TAGBITS)

(* Faulty variants of the definitions that follow, each a slip the code    *)
(* could have made; the checks show that the properties notice them.       *)
SetTimerWithoutDefault(arg) ==          \* a zero interval is kept
  /\ last' = Kept(now) /\ count' = Kept(0) /\ interval' = Kept(arg)
  /\ born' = now /\ UNCHANGED now
SetTimerKeepingCount(arg) ==            \* the report is not reset by init
  /\ last' = Kept(now) /\ interval' = IF arg > 0 THEN Kept(arg) ELSE Kept(1)
  /\ born' = now /\ UNCHANGED <<now, count>>
EarlyTimer ==                           \* fires one second early
  /\ now - last >= interval - 1
  /\ last' = Kept(now) /\ count' = Kept(count + interval)
  /\ UNCHANGED <<now, interval, born>>

(* TIMERSEC_E of Event_stdlib: a new core, or a new var for an old core. *)
SetTimer(arg) ==
  /\ last' = Kept(now)
  /\ count' = Kept(0)
  /\ interval' = IF arg > 0 THEN Kept(arg) ELSE Kept(1)
  /\ born' = now
  /\ UNCHANGED now

eve_timer ==
  /\ now - last >= interval
  /\ last' = Kept(now)
  /\ count' = Kept(count + interval)
  /\ UNCHANGED <<now, interval, born>>

PassSecond ==
  /\ now < EndTime
  /\ now' = now + 1
  /\ UNCHANGED <<last, count, interval, born>>

Init ==
  /\ now = StartTime
  /\ last = Kept(StartTime)
  /\ count = Kept(0)
  /\ interval \in {IF arg > 0 THEN Kept(arg) ELSE Kept(1) : arg \in IntervalArgs}
  /\ born = StartTime

Next == eve_timer \/ PassSecond \/ \E arg \in IntervalArgs : SetTimer(arg)

Spec == Init /\ [][Next]_vars

----------------------------------------------------------------------------
(* Type invariant: the timer's words hold what the code means by them, a   *)
(* second that has passed, a report and a positive interval, so that the   *)
(* subtraction in eve_timer is an elapsed time (stdlib-execute.c:97-105).  *)
TimerTypeOK ==
  /\ now \in Clock
  /\ born \in StartTime .. now
  /\ last \in born .. now
  /\ count \in Nat
  /\ interval \in Nat \ {0}

(* The seconds a timer reports to its handlers never run ahead of the      *)
(* clock: however late, early or often the loop polls it, and across       *)
(* `init', the argument of timerSec(s) is at most the seconds since the    *)
(* core was made (stdlib-execute.c:97-105, 272-280).                       *)
NeverAhead == count <= now - born

(* Between two firings a whole interval passes: a run of n firings takes   *)
(* at least n intervals, and the rest since the last firing is not lost to *)
(* the count (README.md:32 "set timer event every 10 sec").                *)
Paced == count <= last - born

(* Every value the clock, the reports and the intervals take survives the  *)
(* tagging: the condition under which the timer keeps time.                *)
ClockFits ==
  /\ \A t \in Clock : Kept(t) = t
  /\ \A n \in 0 .. (EndTime - StartTime) : Kept(n) = n
  /\ \A arg \in IntervalArgs \cup {1} : arg > 0 => Kept(arg) = arg
=============================================================================
