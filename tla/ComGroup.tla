------------------------------- MODULE ComGroup -------------------------------
(***************************************************************************)
(* The demonstration RPI0_DEMO/comGroup, which speaks the protocol of      *)
(* GroupAgents and adds what the virtual machine only answers: members     *)
(* leave, and a reader that leaves hands its list over.  Ids count from    *)
(* zero; the bit of id i in a member list is i.                            *)
(***************************************************************************)
EXTENDS GroupWire

VARIABLES loop,     \* the loop main() is in: "groupManage" or "triWifiReceive"
          flag      \* Flag: was the program started with -d?

\* The program knows nothing any more and starts as it did the first time.
DemoForget(a, r) ==
  /\ Forget(a, r)
  /\ loop' = [loop EXCEPT ![a] = "groupManage"]
  /\ flag' = [flag EXCEPT ![a] = FALSE]
  /\ UNCHANGED <<starts, repeats, terms, left, back>>

\* Its process ends; it may be started anew.
DemoGone(a) ==
  /\ DemoForget(a, "out")
  /\ inbox' = [inbox EXCEPT ![a] = {}]
  /\ UNCHANGED sent

\* If the request cannot be sent main() prints an agent it has not got, and ends.
DemoJoin(a) ==
  /\ a \in Demo /\ role[a] = "out" /\ starts[a] < MaxStarts
  /\ starts' = [starts EXCEPT ![a] = @ + 1]
  /\ \/ /\ role' = [role EXCEPT ![a] = "joining"]
        /\ \E d \in BOOLEAN : flag' = [flag EXCEPT ![a] = d]
        /\ Broadcast(inbox, a, Message(a, "JOIN", 0, {}, {0}))
     \/ UNCHANGED <<role, flag, inbox, sent>>
  /\ UNCHANGED <<id, list, repeats, terms, term, took, left, back, loop>>

\* A slip: a member takes an answer meant for another for its own.
DemoJoinedAgain(a, m) ==
  /\ a \in Demo /\ role[a] \in {"joining", "member"} /\ m \in inbox[a]
  /\ m.type = "TO_BE_MEMBER"
  /\ BecomeMember(a, m)
  /\ loop' = [loop EXCEPT ![a] = "triWifiReceive"]
  /\ Receive(a, m)
  /\ UNCHANGED <<starts, left, back, flag>>

\* The first message of the group decides here, too.
DemoJoined(a, m) ==
  /\ a \in Demo /\ role[a] = "joining" /\ m \in inbox[a]
  /\ m.type = "TO_BE_MEMBER"
  /\ BecomeMember(a, m)
  /\ loop' = [loop EXCEPT ![a] = "triWifiReceive"]
  /\ Receive(a, m)
  /\ UNCHANGED <<starts, left, back, flag>>

\* So it does here.
DemoRejected(a, m) ==
  /\ a \in Demo /\ role[a] = "joining" /\ m \in inbox[a]
  /\ m.type = "REJECT"
  /\ DemoGone(a)

\* The time is over, or any other message of the group came first.
DemoBuild(a) ==
  /\ a \in Demo /\ role[a] = "joining"
  /\ BecomeReader(a, 0, {0})
  /\ loop' = [loop EXCEPT ![a] = "groupManage"]
  /\ \/ UNCHANGED <<inbox, sent, repeats>>
     \/ \E m \in inbox[a] : m.type \notin {"TO_BE_MEMBER", "REJECT"} /\ Receive(a, m)
  /\ UNCHANGED <<starts, left, back, flag>>

Runs(a, l, m) ==
  a \in Demo /\ role[a] \in {"reader", "member"} /\ loop[a] = l /\ m \in inbox[a]

FreeNumber(l) == CHOOSE i \in 0 .. MAX_MEMBER_SIZE :
                   i \notin l /\ \A j \in 0 .. i - 1 : j \in l

groupManage_Join(a, m) ==
  /\ Runs(a, "groupManage", m) /\ m.type = "JOIN"
  /\ LET newId == FreeNumber(list[a])
         l == list[a] \cup {newId}
     IN  IF newId = MAX_MEMBER_SIZE
         THEN /\ Reply(a, m, Message(a, "REJECT", m.id, m.mask, m.list))
              /\ UNCHANGED list
         ELSE /\ list' = [list EXCEPT ![a] = l]
              /\ Reply(a, m, Message(a, "TO_BE_MEMBER", newId, {newId}, l))
  /\ UNCHANGED <<role, id, starts, terms, term, took, left, back, loop, flag>>

\* A slip: the bit before the sender's.
groupManage_LeaveShifted(a, m) ==
  /\ Runs(a, "groupManage", m) /\ m.type = "LEAVE" /\ m.of.term = term[a]
  /\ list' = [list EXCEPT ![a] = @ \ {m.id - 1}]
  /\ back' = back \cup {m.of}
  /\ Reply(a, m, Message(a, "SUCCESS", id[a], m.mask, m.list))
  /\ UNCHANGED <<role, id, starts, terms, term, took, left, loop, flag>>

groupManage_Leave(a, m) ==
  /\ Runs(a, "groupManage", m) /\ m.type = "LEAVE"
  /\ list' = [list EXCEPT ![a] = @ \ {m.id}]
  /\ IF m.of.term = term[a] /\ m.of \notin back
     THEN back' = back \cup {m.of} /\ UNCHANGED left
     ELSE left' = left \cup {term[a]} /\ UNCHANGED back
  /\ Reply(a, m, Message(a, "SUCCESS", id[a], m.mask, m.list))
  /\ UNCHANGED <<role, id, starts, terms, term, took, loop, flag>>

\* The list comes without the bit before the agent's own.  With -d a member
\* stays in its loop.
DemoTakeOver(a, m) ==
  /\ Runs(a, "triWifiReceive", m) /\ m.type = "TO_BE_READER"
  /\ TRUE \in Addressed(m.mask, id[a])
  /\ BecomeReader(a, 0, m.list \ {id[a] - 1})
  /\ loop' = [loop EXCEPT ![a] = IF flag[a] THEN @ ELSE "groupManage"]
  /\ Reply(a, m, Message(a, "SUCCESS", id[a], m.mask, m.list))
  /\ UNCHANGED <<starts, left, back, flag>>

DemoUnsupported(a, m) ==
  /\ \/ Runs(a, "groupManage", m) /\ m.type \notin {"JOIN", "LEAVE"}
     \/ /\ Runs(a, "triWifiReceive", m)
        /\ m.type = "TO_BE_READER" => FALSE \in Addressed(m.mask, id[a])
  /\ Receive(a, m)
  /\ UNCHANGED <<role, id, list, starts, terms, term, took, left, back, loop, flag>>

\* Ten seconds after its start: with -d in the loop of a member, without it
\* in the loop of a reader.
Due(a) == loop[a] = IF flag[a] THEN "triWifiReceive" ELSE "groupManage"

\* The place of the lowest bit, counted from one, sent as it is: the bits of
\* that number name the ones addressed.
NextReaderId(l) == CHOOSE n \in 1 .. MAX_MEMBER_SIZE :
                     n - 1 \in l /\ \A j \in 0 .. n - 2 : j \notin l
BitsOf(n) == {b \in 0 .. 7 : (n \div 2 ^ b) % 2 = 1}

LeaveRequest(a) ==
  IF role[a] = "member" THEN Message(a, "LEAVE", id[a], {}, {})
  ELSE Message(a, "TO_BE_READER", id[a], BitsOf(NextReaderId(list[a])), list[a])

\* From now on the agent only waits for its end, and whatever it reads brings
\* it about: what it knew and what waits at its socket matter no more.
DemoLeave(a) ==
  /\ a \in Demo /\ role[a] \in {"reader", "member"} /\ Due(a)
  /\ role[a] = "reader" => list[a] # {}
  /\ Broadcast([inbox EXCEPT ![a] = {}], a, LeaveRequest(a))
  /\ DemoForget(a, "leaving")

\* SUCCESS, any other message or two seconds: main() ends in each case, and at once
\* when a reader has nobody to hand its list to.
DemoEnd(a) ==
  /\ a \in Demo
  /\ \/ role[a] = "leaving"
     \/ role[a] = "reader" /\ Due(a) /\ list[a] = {}
  /\ DemoGone(a)

\* Power fails, or somebody kills it: nobody is told.
DemoStop(a) ==
  /\ a \in Demo /\ role[a] \in {"joining", "reader", "member"}
  /\ DemoGone(a)

DemoInit ==
  /\ loop = [a \in Agents |-> "groupManage"]
  /\ flag = [a \in Agents |-> FALSE]

DemoStep(a) ==
  \/ DemoJoin(a) \/ DemoBuild(a)
  \/ DemoLeave(a) \/ DemoEnd(a) \/ DemoStop(a)
  \/ \E m \in inbox[a] : \/ DemoJoined(a, m)
                         \/ DemoRejected(a, m)
                         \/ groupManage_Join(a, m)
                         \/ groupManage_Leave(a, m)
                         \/ DemoTakeOver(a, m)
                         \/ DemoUnsupported(a, m)
==============================================================================
