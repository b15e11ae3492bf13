------------------------------ MODULE GroupWire ------------------------------
(***************************************************************************)
(* What the agents of one wifi group share: the broadcast network and the  *)
(* format of their messages.  Two programs speak this protocol, the event  *)
(* wifiGroupReceived of the virtual machine (module GroupAgents) and the   *)
(* demonstration RPI0_DEMO/comGroup (module ComGroup).                     *)
(*                                                                         *)
(* UDP may lose, delay, reorder and repeat a datagram: each broadcast      *)
(* reaches some of the sockets that are open, waits there in no particular *)
(* order, and reading it may leave a second copy behind.  A member list of *)
(* eight bits is a set of bit numbers.                                     *)
(***************************************************************************)
EXTENDS Integers, FiniteSets

CONSTANTS Vm,               \* the agents that are virtual machines
          Demo,             \* the agents that run the demonstration
          MAX_MEMBER_SIZE,  \* members of a group; 8 in the code
          MaxStarts,        \* bound: how often an agent is started
          MaxSent,          \* bound: broadcasts of a run
          MaxRepeats        \* bound: datagrams the network repeats

ASSUME GroupAssumption ==
  /\ Vm \cap Demo = {}
  /\ MAX_MEMBER_SIZE \in 1 .. 8      \* a list is a byte
  /\ MaxStarts \in Nat /\ MaxSent \in Nat /\ MaxRepeats \in Nat

VARIABLES role,    \* what an agent is; "out" has no socket
          id,      \* base.myID
          list,    \* reader.sizeOfMember
          inbox,   \* datagrams waiting at an agent's socket
          sent,    \* history: broadcasts so far; numbers the messages
          starts,  \* how often each agent was started
          repeats, \* datagrams the network repeated
          terms,   \* history: readers there have been
          term,    \* history: the number of an agent's time as reader
          took,    \* history: the answer an agent got its id from
          left,    \* history: terms in which a leave took another bit than the sender's
          back     \* history: answers whose ids were given back

wireVars == <<role, id, list, inbox, sent, starts, repeats, terms, term, took, left, back>>

Agents == Vm \cup Demo
Bits == 0 .. MAX_MEMBER_SIZE - 1
AllMembers == Bits
Ids == 0 .. MAX_MEMBER_SIZE
Roles == {"out", "joining", "reader", "member", "rejected", "leaving"}
RequestTypes == {"JOIN", "LEAVE", "TO_BE_MEMBER", "TO_BE_READER", "SUCCESS", "REJECT", "TRIGER"}
None == [term |-> 0, no |-> 0]

\* no and of are history: the number of the message, and the term of the
\* reader that sent it or the answer its sender got its id from.
Message(a, t, sender, memberId, sizeOfMember) ==
  [type |-> t, no |-> sent + 1, of |-> IF took[a] = None THEN [None EXCEPT !.term = term[a]] ELSE took[a],
   id |-> sender, mask |-> memberId, list |-> sizeOfMember]

Listening == {a \in Agents : role[a] \in {"joining", "reader", "member"}}

Without(a, m) == [inbox EXCEPT ![a] = @ \ {m}]

\* a reads m and sends nothing.  A repeated datagram stays for another time.
Receive(a, m) ==
  /\ \/ inbox' = Without(a, m) /\ UNCHANGED repeats
     \/ repeats < MaxRepeats /\ repeats' = repeats + 1 /\ UNCHANGED inbox
  /\ UNCHANGED sent

\* a broadcasts m while the inboxes are box: it reaches some of the others
\* that have a socket, or nobody.  Beyond the bound the network is down.
Broadcast(box, a, m) ==
  IF sent < MaxSent
  THEN /\ sent' = sent + 1
       /\ \E hearers \in SUBSET (Listening \ {a}) :
            inbox' = [b \in Agents |-> IF b \in hearers THEN box[b] \cup {m} ELSE box[b]]
  ELSE UNCHANGED sent /\ inbox' = box

\* a reads m and answers with reply.
Reply(a, m, reply) ==
  \/ Broadcast(Without(a, m), a, reply) /\ UNCHANGED repeats
  \/ repeats < MaxRepeats /\ repeats' = repeats + 1 /\ Broadcast(inbox, a, reply)

\* memberId >> (myID - 1) & 1.  A shift by -1 is undefined: the processor
\* shifts everything out, which leaves the sign bit or nothing.
Addressed(mask, myId) ==
  IF myId > 0 THEN {myId - 1 \in mask} ELSE {FALSE, MAX_MEMBER_SIZE - 1 \in mask}

\* An agent becomes reader with member list l.
BecomeReader(a, myId, l) ==
  /\ role' = [role EXCEPT ![a] = "reader"]
  /\ id' = [id EXCEPT ![a] = myId]
  /\ list' = [list EXCEPT ![a] = l]
  /\ terms' = terms + 1
  /\ term' = [term EXCEPT ![a] = terms + 1]
  /\ took' = [took EXCEPT ![a] = None]

BecomeMember(a, m) ==
  /\ role' = [role EXCEPT ![a] = "member"]
  /\ id' = [id EXCEPT ![a] = m.id]
  /\ took' = [took EXCEPT ![a] = [term |-> m.of.term, no |-> m.no]]
  /\ UNCHANGED <<list, terms, term>>

WireInit ==
  /\ role = [a \in Agents |-> "out"]
  /\ id = [a \in Agents |-> 0]
  /\ list = [a \in Agents |-> {}]
  /\ inbox = [a \in Agents |-> {}]
  /\ sent = 0
  /\ starts = [a \in Agents |-> 0]
  /\ repeats = 0
  /\ terms = 0
  /\ term = [a \in Agents |-> 0]
  /\ took = [a \in Agents |-> None]
  /\ left = {}
  /\ back = {}

\* All an agent knew is gone.
Forget(a, r) ==
  /\ role' = [role EXCEPT ![a] = r]
  /\ id' = [id EXCEPT ![a] = 0]
  /\ list' = [list EXCEPT ![a] = {}]
  /\ term' = [term EXCEPT ![a] = 0]
  /\ took' = [took EXCEPT ![a] = None]

\* The process of an agent ends or its power fails: its sockets are gone, too.
GoDown(a, r) == Forget(a, r) /\ inbox' = [inbox EXCEPT ![a] = {}]
==============================================================================
