----------------------------- MODULE GroupAgents -----------------------------
(***************************************************************************)
(* The group of the event wifiGroupReceived: set-up (join or build), the   *)
(* event function, which answers requests and posts triggers, and send().  *)
(* Ids count from one; the bit of id i in a member list is i - 1.          *)
(***************************************************************************)
EXTENDS GroupWire

CONSTANTS Targets   \* the lists send() is called with

ASSUME TargetsAssumption == Targets \subseteq SUBSET (0 .. 7)

VARIABLE heard      \* history: triggers each agent's handlers were given

Triggers == [no : Nat, scope : {"all", "myself", "other"}, as : Ids, mask : SUBSET (0 .. 7)]

\* init_eve_wifi_receive opens the sockets and asks to join.  A failed send
\* reaches nobody.
SendJoin(a) ==
  /\ a \in Vm /\ role[a] = "out" /\ starts[a] < MaxStarts
  /\ starts' = [starts EXCEPT ![a] = @ + 1]
  /\ role' = [role EXCEPT ![a] = "joining"]
  /\ Broadcast(inbox, a, Message(a, "JOIN", 0, {}, {0}))
  /\ UNCHANGED <<id, list, repeats, terms, term, took, left, back, heard>>

\* The first message of the group decides, whoever it is for.
JoinAnswered(a, m) ==
  /\ a \in Vm /\ role[a] = "joining" /\ m \in inbox[a]
  /\ m.type = "TO_BE_MEMBER"
  /\ BecomeMember(a, m)
  /\ Receive(a, m)
  /\ UNCHANGED <<starts, left, back, heard>>

\* The sockets are closed; the core is left without an agent.
JoinRejected(a, m) ==
  /\ a \in Vm /\ role[a] = "joining" /\ m \in inbox[a]
  /\ m.type = "REJECT"
  /\ GoDown(a, "rejected")
  /\ UNCHANGED <<sent, starts, repeats, terms, left, back, heard>>

\* Any other message of the group ends the wait as well.
JoinDisturbed(a, m) ==
  /\ a \in Vm /\ role[a] = "joining" /\ m \in inbox[a]
  /\ m.type \notin {"TO_BE_MEMBER", "REJECT"}
  /\ BecomeReader(a, 1, {0})
  /\ Receive(a, m)
  /\ UNCHANGED <<starts, left, back, heard>>

JoinTimeout(a) ==
  /\ a \in Vm /\ role[a] = "joining"
  /\ BecomeReader(a, 1, {0})
  /\ UNCHANGED <<inbox, sent, starts, repeats, left, back, heard>>

\* eve_wifi_receive has a message for an agent that belongs to the group.
Polls(a, m) == a \in Vm /\ role[a] \in {"reader", "member"} /\ m \in inbox[a]

\* A slip: the count of members for the first free number.
NewIdByCount(l) == IF l = {} THEN 1 ELSE Cardinality(l)

\* The lowest number not in the list; one more than it can hold when it is full.
NewId(l) == CHOOSE i \in 1 .. MAX_MEMBER_SIZE + 1 :
              i - 1 \notin l /\ \A j \in 1 .. i - 1 : j - 1 \in l

\* Slips: the list is assigned and not extended; nobody is turned away.
AnswerJoinAssigning(a, m) ==
  /\ Polls(a, m) /\ m.type = "JOIN" /\ role[a] = "reader"
  /\ NewId(list[a]) <= MAX_MEMBER_SIZE
  /\ list' = [list EXCEPT ![a] = {NewId(list[a]) - 1}]
  /\ Reply(a, m, Message(a, "TO_BE_MEMBER", NewId(list[a]), {}, list'[a]))
  /\ UNCHANGED <<role, id, starts, terms, term, took, left, back, heard>>
AnswerJoinAlways(a, m) ==
  /\ Polls(a, m) /\ m.type = "JOIN" /\ role[a] = "reader"
  /\ list' = [list EXCEPT ![a] = @ \cup {NewId(@) - 1}]
  /\ Reply(a, m, Message(a, "TO_BE_MEMBER", NewId(list[a]), {}, list'[a]))
  /\ UNCHANGED <<role, id, starts, terms, term, took, left, back, heard>>
AnswerJoin(a, m) ==
  /\ Polls(a, m) /\ m.type = "JOIN" /\ role[a] = "reader"
  /\ LET newId == NewId(list[a])
         l == list[a] \cup {newId - 1}
     IN  IF newId > MAX_MEMBER_SIZE
         THEN /\ Reply(a, m, Message(a, "REJECT", m.id, m.mask, m.list))
              /\ UNCHANGED list
         ELSE /\ list' = [list EXCEPT ![a] = l]
              /\ Reply(a, m, Message(a, "TO_BE_MEMBER", newId, {newId - 1}, l))
  /\ UNCHANGED <<role, id, starts, terms, term, took, left, back, heard>>

\* The bit that is cleared is the sender's id, not its id less one.
ObeyLeave(a, m) ==
  /\ Polls(a, m) /\ m.type = "LEAVE" /\ role[a] = "reader"
  /\ list' = [list EXCEPT ![a] = @ \ {m.id}]
  /\ left' = left \cup {term[a]}
  /\ Reply(a, m, Message(a, "SUCCESS", id[a], m.mask, m.list))
  /\ UNCHANGED <<role, id, starts, terms, term, took, back, heard>>

TakeOver(a, m) ==
  /\ Polls(a, m) /\ m.type = "TO_BE_READER" /\ role[a] = "member"
  /\ TRUE \in Addressed(m.mask, id[a])
  /\ BecomeReader(a, 0, m.list \ {id[a] - 1})
  /\ Reply(a, m, Message(a, "SUCCESS", id[a], m.mask, m.list))
  /\ UNCHANGED <<starts, left, back, heard>>

\* A slip: the bit of an id taken for the id.
ScopeUnshifted(mask, myId) ==
  CASE mask = AllMembers -> "all"
    [] mask # AllMembers /\ mask = {myId} -> "myself"
    [] OTHER -> "other"

Scope(mask, myId) ==
  CASE mask = AllMembers -> "all"
    [] mask # AllMembers /\ mask = {myId - 1} -> "myself"
    [] OTHER -> "other"

\* The handlers whose condition accepts the three arguments get them.
Trigger(a, m) ==
  /\ Polls(a, m) /\ m.type = "TRIGER"
  /\ TRUE \in Addressed(m.mask, id[a])
  /\ heard' = [heard EXCEPT ![a] = @ \cup
       {[no |-> m.no, scope |-> Scope(m.mask, id[a]), as |-> id[a], mask |-> m.mask]}]
  /\ Receive(a, m)
  /\ UNCHANGED <<role, id, list, starts, terms, term, took, left, back>>

\* Everything else is read and forgotten.
Unsupported(a, m) ==
  /\ Polls(a, m)
  /\ \/ m.type \in {"TO_BE_MEMBER", "SUCCESS", "REJECT"}
     \/ m.type \in {"JOIN", "LEAVE"} /\ role[a] = "member"
     \/ m.type = "TO_BE_READER"
        /\ (role[a] = "reader" \/ FALSE \in Addressed(m.mask, id[a]))
     \/ m.type = "TRIGER" /\ FALSE \in Addressed(m.mask, id[a])
  /\ Receive(a, m)
  /\ UNCHANGED <<role, id, list, starts, terms, term, took, left, back, heard>>

\* communicate_wifi_group_send: a negative number is everybody, any other
\* is the list of those meant.
SendTrigger(a, to) ==
  /\ a \in Vm /\ role[a] \in {"reader", "member"}
  /\ sent < MaxSent
  /\ Broadcast(inbox, a, Message(a, "TRIGER", id[a], to, {0}))
  /\ UNCHANGED <<role, id, list, starts, repeats, terms, term, took, left, back, heard>>

\* init once more finds the port taken by its own first socket, a poll or a
\* send without an agent has nothing to work on, and power fails: the machine
\* stops and is started anew, without its state.
Stop(a) ==
  /\ a \in Vm /\ role[a] \in {"joining", "reader", "member", "rejected"}
  /\ GoDown(a, "out")
  /\ UNCHANGED <<sent, starts, repeats, terms, left, back, heard>>

AgentInit == heard = [a \in Agents |-> {}]

AgentStep(a) ==
  \/ SendJoin(a)
  \/ JoinTimeout(a)
  \/ Stop(a)
  \/ \E to \in Targets : SendTrigger(a, to)
  \/ \E m \in inbox[a] : \/ JoinAnswered(a, m)
                         \/ JoinRejected(a, m)
                         \/ JoinDisturbed(a, m)
                         \/ AnswerJoin(a, m)
                         \/ ObeyLeave(a, m)
                         \/ TakeOver(a, m)
                         \/ Trigger(a, m)
                         \/ Unsupported(a, m)
==============================================================================
