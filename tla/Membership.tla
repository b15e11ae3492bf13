------------------------------ MODULE Membership ------------------------------
(***************************************************************************)
(* What a group promises of membership, whatever its agents say to each    *)
(* other: a reader gives out tickets, each an answer of its time and an    *)
(* id, and who is nothing yet becomes a member by one of them.  A ticket   *)
(* may be had by many, since an answer does not say who it is for, and it  *)
(* may get lost; it is never changed, and no two good tickets of one time  *)
(* have the same id.                                                       *)
(***************************************************************************)
EXTENDS Naturals

CONSTANTS Agents, Ids,
          Numbers   \* what tells the answers of one time apart

VARIABLES
  times,     \* how many times of a reader there have been
  reads,     \* the time an agent is reader in; 0: it is none
  holds,     \* the ticket an agent is a member by; none: it is no member
  open,      \* the tickets under way
  spoilt,    \* times in which a reader mistook one leave for another
  returned   \* answers whose ids a reader has taken back

Ticket(o, i) == [of |-> o, id |-> i]
Good(t) == t.of.term \notin spoilt /\ t.of \notin returned
Nothing(a) == reads[a] = 0 /\ holds[a] = {}

Tickets == open \cup UNION {holds[a] : a \in Agents}

(* A ticket under way may get lost at any time, and a member may say its   *)
(* own.                                                                    *)
Remain == open' \subseteq Tickets

Init ==
  /\ times = 0 /\ reads = [a \in Agents |-> 0]
  /\ holds = [a \in Agents |-> {}] /\ open = {}
  /\ spoilt = {} /\ returned = {}

(* a becomes the reader of a new time: it has built the group, or a reader *)
(* has handed its members over, even to one that is a reader already.      *)
Build(a) ==
  /\ times' = times + 1 /\ reads' = [reads EXCEPT ![a] = times + 1]
  /\ holds' = [holds EXCEPT ![a] = {}]
  /\ Remain /\ UNCHANGED <<spoilt, returned>>

Join(a) ==
  /\ Nothing(a)
  /\ UNCHANGED <<times, reads, spoilt, returned>>
  /\ \E t \in open : holds' = [holds EXCEPT ![a] = {t}]
  /\ Remain

Leave(a) ==
  /\ ~ Nothing(a)
  /\ UNCHANGED <<times, spoilt, returned>>
  /\ reads' = [reads EXCEPT ![a] = 0] /\ holds' = [holds EXCEPT ![a] = {}]
  /\ Remain

(* The id of a new ticket is on no good ticket of the same reader.         *)
Give(a) ==
  /\ reads[a] # 0
  /\ UNCHANGED <<times, reads, holds, spoilt, returned>>
  /\ \E o \in [term : {reads[a]}, no : Numbers], i \in Ids :
       /\ o \notin returned
       /\ \A t \in Tickets :
            /\ t.of # o
            /\ t.of.term = reads[a] /\ Good(t) => t.id # i
       /\ open' \subseteq Tickets \cup {Ticket(o, i)}

(* The reader that gave a ticket takes its id back, once, ...              *)
TakeBack(a) ==
  /\ reads[a] # 0
  /\ UNCHANGED <<times, reads, holds, spoilt>>
  /\ \E t \in open :
       /\ t.of.term = reads[a] /\ t.of \notin returned
       /\ returned' = returned \cup {t.of}
  /\ Remain

(* ... or frees another id by mistake, over a leave that is under way.     *)
Mistake(a) ==
  /\ reads[a] # 0 /\ open # {}
  /\ UNCHANGED <<times, reads, holds, returned>>
  /\ spoilt' = spoilt \cup {reads[a]}
  /\ Remain

Lose == UNCHANGED <<times, reads, holds, spoilt, returned>> /\ Remain

Next ==
  \/ Lose
  \/ \E a \in Agents : Build(a) \/ Join(a) \/ Leave(a) \/ Give(a) \/ TakeBack(a) \/ Mistake(a)

vars == <<times, reads, holds, open, spoilt, returned>>
Spec == Init /\ [][Next]_vars

----------------------------------------------------------------------------
(* What follows: members with the same id of one reader's time are members *)
(* by the same ticket, unless that reader took one of them back or made a  *)
(* mistake.                                                                *)
Exclusive ==
  \A a, b \in Agents : \A t \in holds[a], u \in holds[b] :
    t.of.term = u.of.term /\ t.id = u.id /\ Good(t) /\ Good(u) => t = u
==============================================================================
