----------------------------- MODULE GroupProofs -----------------------------
(***************************************************************************)
(* The properties of a group for any number of machines and                *)
(* demonstrations, starts, broadcasts and repeated datagrams.              *)
(***************************************************************************)
EXTENDS Group, TLAPS

------------------------------------------------------------------------------
(* What a step may do to the network.                                      *)
Boxes == [Agents -> SUBSET Messages]
Quiet == sent' = sent /\ \A b \in Agents : inbox'[b] \subseteq inbox[b]
Says(m) == /\ sent < MaxSent /\ sent' = sent + 1
           /\ \A b \in Agents : inbox'[b] \subseteq inbox[b] \cup {m}
Net == /\ inbox' = [b \in Agents |-> inbox'[b]]
       /\ repeats \in 0 .. MaxRepeats => repeats' \in 0 .. MaxRepeats

(* Reading a datagram says nothing.                                        *)
LEMMA ReceiveIsQuiet ==
  ASSUME GroupTypeOK, NEW a \in Agents, NEW m, Receive(a, m)
  PROVE  Quiet /\ Net
  BY GroupAssumption DEF Receive, Without, Quiet, Net, GroupTypeOK

(* A broadcast adds one message of its sender's to what may arrive, or is  *)
(* beyond the bound.                                                       *)
LEMMA BroadcastSays ==
  ASSUME GroupTypeOK, NEW a \in Agents, NEW m, NEW box,
         box = [b \in Agents |-> box[b]],
         \A b \in Agents : box[b] \subseteq inbox[b],
         Broadcast(box, a, m)
  PROVE  (Quiet \/ Says(m)) /\ inbox' = [b \in Agents |-> inbox'[b]]
<1>1. CASE sent < MaxSent
  <2>1. PICK hearers \in SUBSET (Listening \ {a}) :
          inbox' = [b \in Agents |-> IF b \in hearers THEN box[b] \cup {m} ELSE box[b]]
    BY <1>1 DEF Broadcast
  <2>2. sent' = sent + 1
    BY <1>1 DEF Broadcast
  <2> QED
    BY <1>1, <2>1, <2>2 DEF Says
<1>2. CASE ~ (sent < MaxSent)
  BY <1>2 DEF Broadcast, Quiet
<1> QED
  BY <1>1, <1>2

(* So does an answer to a request ...                                      *)
LEMMA ReplySays ==
  ASSUME GroupTypeOK, NEW a \in Agents, NEW m, NEW reply, Reply(a, m, reply)
  PROVE  (Quiet \/ Says(reply)) /\ Net
<1>1. inbox = [b \in Agents |-> inbox[b]] /\ repeats \in Nat
  BY GroupAssumption DEF GroupTypeOK
<1>2. CASE Broadcast(Without(a, m), a, reply) /\ UNCHANGED repeats
  <2> DEFINE box == Without(a, m)
  <2>1. box = [b \in Agents |-> box[b]] /\ \A b \in Agents : box[b] \subseteq inbox[b]
    BY <1>1 DEF Without
  <2> HIDE DEF box
  <2>2. (Quiet \/ Says(reply)) /\ inbox' = [b \in Agents |-> inbox'[b]]
    BY <1>2, <2>1, BroadcastSays DEF box
  <2> QED
    BY <1>2, <2>2 DEF Net
<1>3. CASE /\ repeats < MaxRepeats /\ repeats' = repeats + 1
           /\ Broadcast(inbox, a, reply)
  <2>1. (Quiet \/ Says(reply)) /\ inbox' = [b \in Agents |-> inbox'[b]]
    BY <1>1, <1>3, BroadcastSays
  <2> QED
    BY <1>1, <1>3, <2>1, GroupAssumption DEF Net
<1> QED
  BY <1>2, <1>3 DEF Reply

(* ... and a broadcast nobody asked for.                                   *)
LEMMA BroadcastReply ==
  ASSUME GroupTypeOK, NEW a \in Agents, NEW m, Broadcast(inbox, a, m), UNCHANGED repeats
  PROVE  (Quiet \/ Says(m)) /\ Net
<1>1. inbox = [b \in Agents |-> inbox[b]]
  BY DEF GroupTypeOK
<1> QED
  BY <1>1, BroadcastSays DEF Net

(* Nor does one that goes down say anything, ... *)
LEMMA DownIsQuiet ==
  ASSUME GroupTypeOK, NEW a \in Agents, inbox' = [inbox EXCEPT ![a] = {}], UNCHANGED <<sent, repeats>>
  PROVE  Quiet /\ Net
  BY DEF Quiet, Net, GroupTypeOK

(* ... but one that says good-bye does.                                    *)
LEMMA LastWordSays ==
  ASSUME GroupTypeOK, NEW a \in Agents, NEW m,
         Broadcast([inbox EXCEPT ![a] = {}], a, m), UNCHANGED repeats
  PROVE  (Quiet \/ Says(m)) /\ Net
<1> DEFINE box == [inbox EXCEPT ![a] = {}]
<1>1. box = [b \in Agents |-> box[b]] /\ \A b \in Agents : box[b] \subseteq inbox[b]
  BY DEF GroupTypeOK
<1> HIDE DEF box
<1> QED
  BY <1>1, BroadcastSays DEF Net, box

------------------------------------------------------------------------------
(* What any step of an agent may do, whatever its program: the claims on   *)
(* ids, the times of readers and the triggers heard change in few ways.    *)
Same(b) == role'[b] = role[b] /\ id'[b] = id[b] /\ took'[b] = took[b] /\ term'[b] = term[b]
Idle(b) == role'[b] \notin {"reader", "member"}
NewReader(b) ==
  /\ role'[b] = "reader" /\ took'[b] = None
  /\ terms' = terms + 1 /\ term'[b] = terms + 1
NewMember(b) ==
  /\ role[b] = "joining" /\ role'[b] = "member"
  /\ \E m \in inbox[b] :
       /\ m.type = "TO_BE_MEMBER"
       /\ took'[b] = [term |-> m.of.term, no |-> m.no] /\ id'[b] = m.id
SaidBy(a, m) ==
  /\ m.no = sent + 1
  /\ m.type = "LEAVE" => role[a] = "member" /\ m.of = took[a] /\ m.id = id[a]
  /\ m.type = "TO_BE_MEMBER" =>
       /\ role[a] = "reader" /\ Same(a) /\ m.of.term = term[a]
       /\ BitOf(a, m.id) \notin list[a] /\ list'[a] = list[a] \cup {BitOf(a, m.id)}
Spoke(a) == Quiet \/ \E m \in Messages : Says(m) /\ SaidBy(a, m)
Forgets(a) ==
  \/ list[a] \subseteq list'[a]
  \/ term[a] \in left'
  \/ \E m \in inbox[a] :
       /\ m.type = "LEAVE" /\ m.of.term = term[a] /\ m.of \in back' \ back
       /\ \A i \in list[a] : i # BitOf(a, m.id) => i \in list'[a]
Marks(a) ==
  \/ UNCHANGED <<left, back>>
  \/ /\ role[a] = "reader" /\ Same(a) /\ list'[a] \subseteq list[a]
     /\ \E m \in inbox[a] :
          /\ m.type = "LEAVE"
          /\ \/ left' = left \cup {term[a]} /\ back' = back
             \/ /\ m.of.term = term[a] /\ m.of \notin back
                /\ left' = left /\ back' = back \cup {m.of}
Hears(a) ==
  \A h \in heard'[a] : h \in heard[a] \/ \E m \in inbox[a] :
    /\ h.no = m.no /\ h.mask = m.mask
    /\ h.scope = Scope(h.mask, h.as) /\ TRUE \in Addressed(h.mask, h.as)
MemberLoop == \A b \in Demo : role[b] = "member" => loop[b] = "triWifiReceive"
Change(a) ==
  /\ \A b \in Agents \ {a} : Same(b) /\ list'[b] = list[b] /\ heard'[b] = heard[b]
  /\ \/ (Same(a) \/ Idle(a) \/ NewMember(a)) /\ terms' = terms
     \/ NewReader(a)
  /\ Spoke(a)
  /\ left \subseteq left' /\ back \subseteq back' /\ Marks(a)
  /\ role[a] = "reader" /\ Same(a) => Forgets(a)
  /\ Hears(a)
  /\ MemberLoop'

(* What the type invariant needs to be inductive: a reader has a time of   *)
(* its own and no id it was given, a member and a leave name an answer, a  *)
(* demonstration is in the loop of what it is.                             *)
Known ==
  /\ \A a \in Agents :
       /\ role[a] = "reader" => took[a] = None /\ term[a] \in 1 .. terms
       /\ role[a] = "member" => took[a].no \in 1 .. sent
  /\ \A a \in Agents : \A m \in inbox[a] :
       m.no <= sent /\ (m.type = "LEAVE" => m.of.no \in 1 .. sent)
  /\ \A o \in back : o.no \in 1 .. sent
  /\ MemberLoop

------------------------------------------------------------------------------
(* Types.                                                                  *)
FieldsOK ==
  /\ role \in [Agents -> Roles]
  /\ id \in [Agents -> Ids]
  /\ list \in [Agents -> SUBSET Bits]
  /\ starts \in [Agents -> 0 .. MaxStarts]
  /\ terms \in Nat /\ term \in [Agents -> 0 .. terms] /\ left \subseteq 1 .. terms
  /\ \A o \in back : o.term \in 1 .. terms /\ o.no \in 1 .. MaxSent
  /\ took \in [Agents -> [term : 0 .. terms, no : 0 .. MaxSent]]
  /\ heard \in [Agents -> SUBSET Triggers]
  /\ loop \in [Agents -> {"groupManage", "triWifiReceive"}]
  /\ flag \in [Agents -> BOOLEAN]
NetOK ==
  /\ inbox \in Boxes
  /\ sent \in 0 .. MaxSent /\ repeats \in 0 .. MaxRepeats

(* The type invariant, the agents' fields and the network apart.           *)
LEMMA TwoTypes == GroupTypeOK <=> FieldsOK /\ NetOK
  BY DEF GroupTypeOK, FieldsOK, NetOK, Boxes

(* With more terms there are more messages, and none less.                 *)
LEMMA MessagesGrow ==
  ASSUME terms \in Nat, terms' \in Nat, terms <= terms'
  PROVE  Messages \subseteq Messages'
<1>1. 0 .. terms \subseteq 0 .. terms'
  OBVIOUS
<1>2. [term : 0 .. terms, no : 0 .. MaxSent] \subseteq [term : 0 .. terms', no : 0 .. MaxSent]
  BY <1>1
<1> QED
  BY <1>2 DEF Messages

(* What an agent sends is a message.                                       *)
LEMMA MessageTyped ==
  ASSUME GroupTypeOK, NEW a \in Agents, sent < MaxSent,
         NEW t \in RequestTypes, NEW i \in Ids, NEW mask \in SUBSET (0 .. 7), NEW l \in SUBSET Bits
  PROVE  Message(a, t, i, mask, l) \in Messages
<1>1. sent + 1 \in 1 .. MaxSent
  BY GroupAssumption DEF GroupTypeOK
<1>2. took[a] \in [term : 0 .. terms, no : 0 .. MaxSent] /\ term[a] \in 0 .. terms
  BY DEF GroupTypeOK
<1>3. [None EXCEPT !.term = term[a]] \in [term : 0 .. terms, no : 0 .. MaxSent]
  BY <1>2, GroupAssumption DEF None
<1> QED
  BY <1>1, <1>2, <1>3 DEF Message, Messages

(* Inboxes stay sets of messages.                                          *)
LEMMA NetTyped ==
  ASSUME GroupTypeOK, Net, terms' \in Nat, terms <= terms',
         Quiet \/ \E m \in Messages : Says(m)
  PROVE  NetOK'
<1>1. Messages \subseteq Messages'
  BY MessagesGrow DEF GroupTypeOK
<1>2. \A b \in Agents : inbox[b] \subseteq Messages
  BY DEF GroupTypeOK
<1>3. \A b \in Agents : inbox'[b] \in SUBSET Messages'
  BY <1>1, <1>2 DEF Quiet, Says
<1>4. inbox' \in Boxes'
  BY <1>3 DEF Net, Boxes, Agents
<1>5. sent' \in 0 .. MaxSent
  BY GroupAssumption DEF GroupTypeOK, Quiet, Says
<1> QED
  BY <1>4, <1>5 DEF NetOK, Net, GroupTypeOK

(* What an agent that hears the reader's answer becomes. *)
LEMMA BecomeReaderTyped ==
  ASSUME GroupTypeOK, NEW a \in Agents, NEW i \in Ids, NEW l \in SUBSET Bits,
         BecomeReader(a, i, l), UNCHANGED <<starts, left, back, heard>>,
         loop' \in [Agents -> {"groupManage", "triWifiReceive"}], UNCHANGED flag
  PROVE  FieldsOK' /\ terms' \in Nat /\ terms <= terms'
<1>1. terms' = terms + 1 /\ terms \in Nat
  BY DEF BecomeReader, GroupTypeOK
<1>2. term' \in [Agents -> 0 .. terms']
  BY <1>1 DEF BecomeReader, GroupTypeOK
<1>3. took' \in [Agents -> [term : 0 .. terms', no : 0 .. MaxSent]]
  <2>1. None \in [term : 0 .. terms', no : 0 .. MaxSent]
    BY <1>1, GroupAssumption DEF None
  <2>2. [term : 0 .. terms, no : 0 .. MaxSent] \subseteq [term : 0 .. terms', no : 0 .. MaxSent]
    BY <1>1
  <2> QED
    BY <2>1, <2>2 DEF BecomeReader, GroupTypeOK
<1>4. left' \subseteq 1 .. terms' /\ \A o \in back' : o.term \in 1 .. terms' /\ o.no \in 1 .. MaxSent
  BY <1>1 DEF GroupTypeOK
<1>5. role' \in [Agents -> Roles] /\ id' \in [Agents -> Ids] /\ list' \in [Agents -> SUBSET Bits]
  BY DEF BecomeReader, GroupTypeOK, Roles
<1> QED
  BY <1>1, <1>2, <1>3, <1>4, <1>5 DEF FieldsOK, GroupTypeOK, Agents, Bits, Ids, Triggers

(* A member's fields have their types, ...                                 *)
LEMMA BecomeMemberTyped ==
  ASSUME GroupTypeOK, NEW a \in Agents, NEW m \in Messages,
         BecomeMember(a, m), UNCHANGED <<starts, left, back, heard, flag>>,
         loop' \in [Agents -> {"groupManage", "triWifiReceive"}]
  PROVE  FieldsOK' /\ terms' \in Nat /\ terms <= terms'
<1>1. terms' = terms /\ terms \in Nat
  BY DEF BecomeMember, GroupTypeOK
<1>2. [term |-> m.of.term, no |-> m.no] \in [term : 0 .. terms, no : 0 .. MaxSent] /\ m.id \in Ids
  BY GroupAssumption DEF Messages
<1>3. took' \in [Agents -> [term : 0 .. terms', no : 0 .. MaxSent]]
  BY <1>1, <1>2 DEF BecomeMember, GroupTypeOK
<1>4. role' \in [Agents -> Roles] /\ id' \in [Agents -> Ids]
  BY <1>2 DEF BecomeMember, GroupTypeOK, Roles
<1> QED
  BY <1>1, <1>3, <1>4 DEF BecomeMember, FieldsOK, GroupTypeOK

(* ... and so have those of an agent that forgets all it knew.             *)
LEMMA ForgetTyped ==
  ASSUME GroupTypeOK, NEW a \in Agents, NEW r \in Roles, Forget(a, r),
         UNCHANGED <<starts, terms, left, back, heard>>,
         loop' \in [Agents -> {"groupManage", "triWifiReceive"}], flag' \in [Agents -> BOOLEAN]
  PROVE  FieldsOK' /\ terms' \in Nat /\ terms <= terms'
<1>1. terms \in Nat /\ terms' = terms
  BY DEF GroupTypeOK
<1>2. took' \in [Agents -> [term : 0 .. terms', no : 0 .. MaxSent]]
  <2>1. None \in [term : 0 .. terms', no : 0 .. MaxSent]
    BY <1>1, GroupAssumption DEF None
  <2> QED
    BY <2>1 DEF Forget, GroupTypeOK
<1>3. /\ role' \in [Agents -> Roles] /\ id' \in [Agents -> Ids]
      /\ list' \in [Agents -> SUBSET Bits] /\ term' \in [Agents -> 0 .. terms']
  <2>1. 0 \in Ids /\ 0 \in 0 .. terms
    BY GroupAssumption DEF Ids, GroupTypeOK
  <2> QED
    BY <2>1 DEF Forget, GroupTypeOK
<1> QED
  BY <1>1, <1>2, <1>3 DEF FieldsOK, GroupTypeOK

------------------------------------------------------------------------------
(* A list of eight bits has a lowest bit that is free, or it is full.      *)
LEMMA FreeNumberExists ==
  ASSUME NEW l \in SUBSET Bits
  PROVE  \E i \in 0 .. MAX_MEMBER_SIZE : i \notin l /\ \A j \in 0 .. i - 1 : j \in l
<1> DEFINE Free(i) == i \notin l /\ \A j \in 0 .. i - 1 : j \in l
<1> SUFFICES ASSUME \A i \in 0 .. MAX_MEMBER_SIZE : ~ Free(i)
             PROVE  FALSE
  OBVIOUS
<1>0. \A i \in 0 .. MAX_MEMBER_SIZE : (\A j \in 0 .. i - 1 : j \in l) => i \in l
  OBVIOUS
<1> HIDE DEF Free
<1>1. MAX_MEMBER_SIZE \in 1 .. 8 /\ MAX_MEMBER_SIZE \notin l
  BY GroupAssumption DEF Bits
<1>2. 0 \in l
  BY <1>0, <1>1
<1>3. 1 <= MAX_MEMBER_SIZE => 1 \in l
  BY <1>0, <1>1, <1>2
<1>4. 2 <= MAX_MEMBER_SIZE => 2 \in l
  BY <1>0, <1>1, <1>2, <1>3
<1>5. 3 <= MAX_MEMBER_SIZE => 3 \in l
  BY <1>0, <1>1, <1>2, <1>3, <1>4
<1>6. 4 <= MAX_MEMBER_SIZE => 4 \in l
  BY <1>0, <1>1, <1>2, <1>3, <1>4, <1>5
<1>7. 5 <= MAX_MEMBER_SIZE => 5 \in l
  BY <1>0, <1>1, <1>2, <1>3, <1>4, <1>5, <1>6
<1>8. 6 <= MAX_MEMBER_SIZE => 6 \in l
  BY <1>0, <1>1, <1>2, <1>3, <1>4, <1>5, <1>6, <1>7
<1>9. 7 <= MAX_MEMBER_SIZE => 7 \in l
  BY <1>0, <1>1, <1>2, <1>3, <1>4, <1>5, <1>6, <1>7, <1>8
<1>10. 8 <= MAX_MEMBER_SIZE => 8 \in l
  BY <1>0, <1>1, <1>2, <1>3, <1>4, <1>5, <1>6, <1>7, <1>8, <1>9
<1> QED
  BY <1>1, <1>3, <1>4, <1>5, <1>6, <1>7, <1>8, <1>9, <1>10

(* The id a demonstration gives is one no bit stands for, ...              *)
LEMMA FreeNumberIs ==
  ASSUME NEW l \in SUBSET Bits
  PROVE  /\ FreeNumber(l) \in 0 .. MAX_MEMBER_SIZE
         /\ FreeNumber(l) \notin l
  BY FreeNumberExists DEF FreeNumber

(* ... and so is the one a virtual machine gives.                          *)
LEMMA NewIdIs ==
  ASSUME NEW l \in SUBSET Bits
  PROVE  /\ NewId(l) \in 1 .. MAX_MEMBER_SIZE + 1
         /\ NewId(l) - 1 \notin l
<1> DEFINE n == FreeNumber(l)
<1>1. n \in 0 .. MAX_MEMBER_SIZE /\ n \notin l /\ \A j \in 0 .. n - 1 : j \in l
  <2>1. \E i \in 0 .. MAX_MEMBER_SIZE : i \notin l /\ \A j \in 0 .. i - 1 : j \in l
    BY FreeNumberExists
  <2> QED
    BY <2>1 DEF FreeNumber
<1> HIDE DEF n
<1>2. n + 1 \in 1 .. MAX_MEMBER_SIZE + 1 /\ (n + 1) - 1 = n
  BY <1>1, GroupAssumption
<1>3. \A j \in 1 .. (n + 1) - 1 : j - 1 \in l
  BY <1>1
<1>4. \E i \in 1 .. MAX_MEMBER_SIZE + 1 : i - 1 \notin l /\ \A j \in 1 .. i - 1 : j - 1 \in l
  BY <1>1, <1>2, <1>3
<1> QED
  BY <1>4 DEF NewId

------------------------------------------------------------------------------
(* Every step keeps the types.                                             *)
LEMMA StepTyped ==
  ASSUME GroupTypeOK, Net, NEW a \in Agents, Spoke(a), FieldsOK', terms' \in Nat, terms <= terms'
  PROVE  GroupTypeOK'
<1>1. NetOK'
  BY NetTyped DEF Spoke
<1> QED
  BY <1>1, TwoTypes, PTL

(* Most messages make no claim on an id. *)
LEMMA PlainIsSpoken ==
  ASSUME GroupTypeOK, NEW a \in Agents,
         NEW t \in RequestTypes \ {"LEAVE", "TO_BE_MEMBER"},
         NEW i \in Ids, NEW mask \in SUBSET (0 .. 7), NEW l \in SUBSET Bits,
         Quiet \/ Says(Message(a, t, i, mask, l))
  PROVE  Spoke(a)
<1>1. CASE Quiet
  BY <1>1 DEF Spoke
<1>2. CASE Says(Message(a, t, i, mask, l))
  <2> DEFINE m == Message(a, t, i, mask, l)
  <2>1. m \in Messages
    BY <1>2, MessageTyped DEF Says
  <2>2. m.no = sent + 1 /\ m.type = t
    BY DEF Message
  <2>3. SaidBy(a, m)
    BY <2>2 DEF SaidBy
  <2> QED
    BY <1>2, <2>1, <2>3 DEF Spoke
<1> QED
  BY <1>1, <1>2

(* To forget all is a change the invariant allows, ... *)
LEMMA ForgetIsChange ==
  ASSUME GroupTypeOK, MemberLoop, NEW a \in Agents, NEW r \in Roles \ {"reader", "member"},
         Forget(a, r), Net, Spoke(a), UNCHANGED <<starts, terms, left, back, heard>>,
         \A b \in Agents \ {a} : loop'[b] = loop[b],
         loop' \in [Agents -> {"groupManage", "triWifiReceive"}], flag' \in [Agents -> BOOLEAN]
  PROVE  GroupTypeOK' /\ Change(a)
<1>1. GroupTypeOK'
  BY ForgetTyped, StepTyped
<1>2. \A b \in Agents \ {a} : Same(b) /\ list'[b] = list[b] /\ heard'[b] = heard[b]
  BY DEF Forget, Same, GroupTypeOK
<1>3. Idle(a) /\ ~ (role[a] = "reader" /\ Same(a))
  BY DEF Forget, Idle, Same, GroupTypeOK
<1>4. MemberLoop'
  BY DEF Forget, MemberLoop, GroupTypeOK, Agents
<1> QED
  BY <1>1, <1>2, <1>3, <1>4 DEF Change, Marks, Hears

(* ... going down is one, ... *)
LEMMA DownIsChange ==
  ASSUME GroupTypeOK, MemberLoop, NEW a \in Agents, NEW r \in Roles \ {"reader", "member"},
         GoDown(a, r), UNCHANGED <<sent, starts, repeats, terms, left, back, heard>>,
         \A b \in Agents \ {a} : loop'[b] = loop[b],
         loop' \in [Agents -> {"groupManage", "triWifiReceive"}], flag' \in [Agents -> BOOLEAN]
  PROVE  GroupTypeOK' /\ Change(a)
<1>1. Spoke(a) /\ Net
  BY DownIsQuiet DEF GoDown, Spoke
<1> QED
  BY <1>1, ForgetIsChange DEF GoDown

(* ... becoming a reader is one ...                                        *)
LEMMA ReaderIsChange ==
  ASSUME GroupTypeOK, NEW a \in Agents, NEW i \in Ids, NEW l \in SUBSET Bits, Known,
         BecomeReader(a, i, l), Net, Spoke(a), UNCHANGED <<starts, left, back, heard>>,
         \A b \in Agents \ {a} : loop'[b] = loop[b],
         loop' \in [Agents -> {"groupManage", "triWifiReceive"}], UNCHANGED flag
  PROVE  GroupTypeOK' /\ Change(a)
<1>1. GroupTypeOK'
  BY BecomeReaderTyped, StepTyped
<1>2. \A b \in Agents \ {a} : Same(b) /\ list'[b] = list[b] /\ heard'[b] = heard[b]
  BY DEF BecomeReader, Same, GroupTypeOK
<1>3. NewReader(a)
  BY DEF BecomeReader, NewReader, GroupTypeOK
<1>4. ~ (role[a] = "reader" /\ Same(a))
  BY <1>3 DEF NewReader, Same, Known, GroupTypeOK
<1>5. MemberLoop'
  BY DEF BecomeReader, Known, MemberLoop, GroupTypeOK, Agents
<1> QED
  BY <1>1, <1>2, <1>3, <1>4, <1>5 DEF Change, Marks, Hears

(* ... and becoming a member with what a reader has answered.              *)
LEMMA MemberIsChange ==
  ASSUME GroupTypeOK, MemberLoop, NEW a \in Agents, NEW m \in inbox[a], role[a] = "joining",
         m.type = "TO_BE_MEMBER", BecomeMember(a, m), Receive(a, m),
         UNCHANGED <<starts, left, back, heard, flag>>,
         \A b \in Agents \ {a} : loop'[b] = loop[b], a \in Demo => loop'[a] = "triWifiReceive",
         loop' \in [Agents -> {"groupManage", "triWifiReceive"}]
  PROVE  GroupTypeOK' /\ Change(a)
<1>1. Quiet /\ Net
  BY ReceiveIsQuiet
<1>2. m \in Messages
  BY DEF GroupTypeOK
<1>3. GroupTypeOK'
  BY <1>1, <1>2, BecomeMemberTyped, StepTyped DEF Spoke
<1>4. \A b \in Agents \ {a} : Same(b) /\ list'[b] = list[b] /\ heard'[b] = heard[b]
  BY DEF BecomeMember, Same, GroupTypeOK
<1>5. NewMember(a) /\ terms' = terms
  BY DEF BecomeMember, NewMember, GroupTypeOK
<1>6. MemberLoop'
  BY DEF BecomeMember, MemberLoop, GroupTypeOK, Agents
<1> QED
  BY <1>1, <1>3, <1>4, <1>5, <1>6 DEF Change, Marks, Hears, Spoke

(* An agent that stays what it is and says nothing of ids. *)
LEMMA PlainIsChange ==
  ASSUME GroupTypeOK, MemberLoop, NEW a \in Agents, Net, Spoke(a),
         UNCHANGED <<role, id, list, starts, terms, term, took, left, back, heard, loop, flag>>
  PROVE  GroupTypeOK' /\ Change(a)
<1>1. FieldsOK' /\ terms' \in Nat /\ terms <= terms'
  BY DEF FieldsOK, GroupTypeOK
<1>2. GroupTypeOK'
  BY <1>1, StepTyped
<1> QED
  BY <1>2 DEF Change, Same, Forgets, Marks, Hears, MemberLoop

(* An agent that asks to join, or fails to. *)
LEMMA WaitingIsChange ==
  ASSUME GroupTypeOK, MemberLoop, NEW a \in Agents, NEW r \in Roles \ {"reader", "member"},
         Net, Spoke(a),
         role' = [role EXCEPT ![a] = r], starts' \in [Agents -> 0 .. MaxStarts],
         flag' \in [Agents -> BOOLEAN],
         UNCHANGED <<id, list, terms, term, took, left, back, heard, loop>>
  PROVE  GroupTypeOK' /\ Change(a)
<1>0. role' \in [Agents -> Roles]
  BY DEF GroupTypeOK
<1>1. FieldsOK' /\ terms' \in Nat /\ terms <= terms'
  BY <1>0 DEF FieldsOK, GroupTypeOK
<1>2. GroupTypeOK'
  BY <1>1, StepTyped
<1>3. Idle(a) /\ ~ (role[a] = "reader" /\ Same(a))
  BY DEF Idle, Same, GroupTypeOK
<1>4. \A b \in Agents \ {a} : Same(b)
  BY DEF Same, GroupTypeOK
<1>5. MemberLoop'
  BY DEF MemberLoop, GroupTypeOK, Agents
<1> QED
  BY <1>2, <1>3, <1>4, <1>5 DEF Change, Marks, Hears

(* A reader has a term of its own and took nobody's answer.                *)
LEMMA KnownReader ==
  ASSUME Known, NEW a \in Agents, role[a] = "reader"
  PROVE  took[a] = None /\ term[a] \in 1 .. terms
  BY DEF Known

(* A leave names an answer that was sent.                                  *)
LEMMA KnownLeave ==
  ASSUME Known, NEW a \in Agents, NEW m \in inbox[a], m.type = "LEAVE"
  PROVE  m.of.no \in 1 .. sent
  BY DEF Known

------------------------------------------------------------------------------
(* A reader that answers a request to join with the free id i, whose bit   *)
(* is i - 1 at a machine and i at a demonstration.                         *)
LEMMA AnswerIsChange ==
  ASSUME GroupTypeOK, NEW a \in Agents, NEW m \in inbox[a], role[a] = "reader",
         NEW i \in Ids, BitOf(a, i) \in Bits \ list[a], Known,
         list' = [list EXCEPT ![a] = @ \cup {BitOf(a, i)}],
         Reply(a, m, Message(a, "TO_BE_MEMBER", i, {BitOf(a, i)}, list[a] \cup {BitOf(a, i)})),
         UNCHANGED <<role, id, starts, terms, term, took, left, back, heard, loop, flag>>
  PROVE  GroupTypeOK' /\ Change(a)
<1> DEFINE b == BitOf(a, i)
           l == list[a] \cup {b}
           yes == Message(a, "TO_BE_MEMBER", i, {b}, l)
<1>1. list[a] \in SUBSET Bits /\ l \in SUBSET Bits /\ {b} \in SUBSET (0 .. 7)
  <2>1. Bits \subseteq 0 .. 7
    BY GroupAssumption DEF Bits
  <2>2. list[a] \in SUBSET Bits
    BY DEF GroupTypeOK
  <2>3. b \in Bits
    OBVIOUS
  <2> HIDE DEF b
  <2> QED
    BY <2>1, <2>2, <2>3
<1>2. list' = [list EXCEPT ![a] = l] /\ b \in l /\ b \notin list[a]
  OBVIOUS
<1>3. (Quiet \/ Says(yes)) /\ Net
  BY ReplySays
<1> HIDE DEF b
<1>4. list'[a] = l /\ (\A c \in Agents \ {a} : list'[c] = list[c]) /\ list' \in [Agents -> SUBSET Bits]
  BY <1>1, <1>2 DEF GroupTypeOK
<1>5. Spoke(a)
  <2>1. CASE Says(yes)
    <3>1. yes \in Messages
      BY <1>1, <2>1, MessageTyped DEF Says, RequestTypes
    <3>2. yes.no = sent + 1 /\ yes.type = "TO_BE_MEMBER" /\ yes.id = i /\ yes.of.term = term[a]
      <4>1. took[a] = None
        BY KnownReader
      <4> QED
        BY <4>1 DEF Message, None
    <3>3. BitOf(a, yes.id) \notin list[a] /\ list'[a] = list[a] \cup {BitOf(a, yes.id)} /\ Same(a)
      BY <1>2, <1>4, <3>2 DEF Same, b
    <3>4. SaidBy(a, yes)
      BY <3>2, <3>3 DEF SaidBy
    <3> QED
      BY <2>1, <3>1, <3>4 DEF Spoke
  <2> QED
    BY <1>3, <2>1 DEF Spoke
<1>6. FieldsOK' /\ terms' \in Nat /\ terms <= terms'
  BY <1>4 DEF FieldsOK, GroupTypeOK
<1>7. GroupTypeOK'
  BY <1>3, <1>5, <1>6, StepTyped
<1>8. MemberLoop'
  BY DEF Known, MemberLoop
<1> QED
  BY <1>4, <1>5, <1>7, <1>8 DEF Change, Same, Forgets, Marks, Hears

(* A reader that takes a bit out of its list. *)
LEMMA LeaveIsChange ==
  ASSUME GroupTypeOK, Known, NEW a \in Agents, NEW m \in inbox[a], role[a] = "reader",
         m.type = "LEAVE", list' = [list EXCEPT ![a] = @ \ {m.id}],
         Reply(a, m, Message(a, "SUCCESS", id[a], m.mask, m.list)),
         \/ left' = left \cup {term[a]} /\ UNCHANGED back
         \/ /\ m.of.term = term[a] /\ m.of \notin back /\ back' = back \cup {m.of}
            /\ UNCHANGED left /\ a \in Demo,
         UNCHANGED <<role, id, starts, terms, term, took, heard, loop, flag>>
  PROVE  GroupTypeOK' /\ Change(a)
<1>1. m \in Messages /\ id[a] \in Ids
  BY DEF GroupTypeOK
<1>2. Spoke(a) /\ Net
  BY <1>1, ReplySays, PlainIsSpoken DEF Messages, RequestTypes
<1>3. (\A c \in Agents \ {a} : list'[c] = list[c]) /\ list' \in [Agents -> SUBSET Bits]
  BY DEF GroupTypeOK
<1>4. left' \subseteq 1 .. terms' /\ left \subseteq left'
  BY KnownReader DEF GroupTypeOK
<1>5. (\A o \in back' : o.term \in 1 .. terms' /\ o.no \in 1 .. MaxSent) /\ back \subseteq back'
  <2>1. CASE UNCHANGED back
    BY <2>1 DEF GroupTypeOK
  <2>2. CASE m.of.term = term[a] /\ back' = back \cup {m.of}
    <3>1. term[a] \in 1 .. terms /\ m.of.no \in 1 .. sent /\ sent \in 0 .. MaxSent
      BY KnownReader, KnownLeave DEF GroupTypeOK
    <3>2. m.of.no \in 1 .. MaxSent
      BY <3>1, GroupAssumption
    <3> QED
      BY <2>2, <3>1, <3>2 DEF GroupTypeOK
  <2> QED
    BY <2>1, <2>2
<1>6. FieldsOK' /\ terms' \in Nat /\ terms <= terms'
  BY <1>3, <1>4, <1>5 DEF FieldsOK, GroupTypeOK
<1>7. GroupTypeOK'
  BY <1>2, <1>6, StepTyped
<1>8. Forgets(a)
  <2>1. CASE left' = left \cup {term[a]}
    BY <2>1 DEF Forgets
  <2>2. CASE m.of.term = term[a] /\ m.of \notin back /\ back' = back \cup {m.of} /\ a \in Demo
    <3>1. BitOf(a, m.id) = m.id
      BY <2>2, GroupAssumption DEF BitOf
    <3>2. list'[a] = list[a] \ {m.id}
      BY DEF GroupTypeOK
    <3> QED
      BY <2>2, <3>1, <3>2 DEF Forgets
  <2> QED
    BY <2>1, <2>2
<1>9. MemberLoop'
  BY DEF Known, MemberLoop
<1>10. Marks(a)
  <2>1. list'[a] \subseteq list[a] /\ Same(a)
    BY DEF Same, GroupTypeOK
  <2> QED
    BY <2>1 DEF Marks
<1> QED
  BY <1>2, <1>3, <1>4, <1>5, <1>7, <1>8, <1>9, <1>10 DEF Change, Same, Hears

------------------------------------------------------------------------------
(* Every step of a virtual machine is such a change, ...                   *)
LEMMA MachineStep ==
  ASSUME GroupTypeOK, Known, NEW a \in Vm, AgentStep(a), UNCHANGED <<loop, flag>>
  PROVE  GroupTypeOK' /\ Change(a)
<1>0. /\ a \in Agents /\ terms \in Nat /\ 0 \in Ids /\ 1 \in Ids
      /\ {0} \in SUBSET Bits /\ {} \in SUBSET (0 .. 7)
      /\ loop' \in [Agents -> {"groupManage", "triWifiReceive"}] /\ flag' \in [Agents -> BOOLEAN]
      /\ loop' = loop /\ MemberLoop /\ a \notin Demo
      /\ id[a] \in Ids /\ list[a] \in SUBSET Bits
      /\ \A m \in inbox[a] : m \in Messages /\ m.id \in Ids /\ m.mask \in SUBSET (0 .. 7)
                             /\ m.list \in SUBSET Bits
  BY GroupAssumption DEF Agents, GroupTypeOK, Ids, Bits, Messages, Known
<1>1. ASSUME SendJoin(a) PROVE GroupTypeOK' /\ Change(a)
  <2>1. Spoke(a) /\ Net
    BY <1>0, <1>1, BroadcastReply, PlainIsSpoken DEF SendJoin, RequestTypes
  <2>2. starts' \in [Agents -> 0 .. MaxStarts]
    <3>1. starts[a] + 1 \in 0 .. MaxStarts
      BY <1>0, <1>1, GroupAssumption DEF SendJoin, GroupTypeOK
    <3> QED
      BY <1>1, <3>1 DEF SendJoin, GroupTypeOK
  <2> QED
    BY <1>0, <1>1, <2>1, <2>2, WaitingIsChange DEF SendJoin, Roles, GroupTypeOK
<1>2. ASSUME NEW m \in inbox[a], JoinAnswered(a, m) PROVE GroupTypeOK' /\ Change(a)
  BY <1>0, <1>2, MemberIsChange DEF JoinAnswered
<1>3. ASSUME NEW m \in inbox[a], JoinRejected(a, m) PROVE GroupTypeOK' /\ Change(a)
  BY <1>0, <1>3, DownIsChange DEF JoinRejected, Roles
<1>4. ASSUME NEW m \in inbox[a], JoinDisturbed(a, m) PROVE GroupTypeOK' /\ Change(a)
  <2>1. Spoke(a) /\ Net
    BY <1>0, <1>4, ReceiveIsQuiet DEF JoinDisturbed, Spoke
  <2> QED
    BY <1>0, <1>4, <2>1, ReaderIsChange DEF JoinDisturbed
<1>5. ASSUME JoinTimeout(a) PROVE GroupTypeOK' /\ Change(a)
  <2>1. Spoke(a) /\ Net
    BY <1>5 DEF JoinTimeout, Quiet, Net, GroupTypeOK, Spoke
  <2> QED
    BY <1>0, <1>5, <2>1, ReaderIsChange DEF JoinTimeout
<1>6. ASSUME NEW m \in inbox[a], AnswerJoin(a, m) PROVE GroupTypeOK' /\ Change(a)
  <2> DEFINE n == NewId(list[a])
  <2>2. n \in 1 .. MAX_MEMBER_SIZE + 1 /\ n - 1 \notin list[a]
    BY <1>0, NewIdIs
  <2>4. CASE n > MAX_MEMBER_SIZE
    <3>1. Spoke(a) /\ Net /\ UNCHANGED list
      BY <1>0, <1>6, <2>4, ReplySays, PlainIsSpoken DEF AnswerJoin, RequestTypes
    <3> QED
      BY <1>0, <1>6, <3>1, PlainIsChange DEF AnswerJoin
  <2>5. CASE ~ (n > MAX_MEMBER_SIZE)
    <3>1. n \in Ids /\ BitOf(a, n) = n - 1 /\ n - 1 \in Bits
      BY <2>2, <2>5, GroupAssumption DEF Ids, Bits, BitOf
    <3> HIDE DEF n
    <3>2. /\ list' = [list EXCEPT ![a] = @ \cup {n - 1}]
          /\ Reply(a, m, Message(a, "TO_BE_MEMBER", n, {n - 1}, list[a] \cup {n - 1}))
          /\ role[a] = "reader"
          /\ UNCHANGED <<role, id, starts, terms, term, took, left, back, heard>>
      BY <1>6, <2>5 DEF AnswerJoin, n
    <3> QED
      BY <1>0, <2>2, <3>1, <3>2, AnswerIsChange
  <2> QED
    BY <2>4, <2>5
<1>7. ASSUME NEW m \in inbox[a], ObeyLeave(a, m) PROVE GroupTypeOK' /\ Change(a)
  BY <1>0, <1>7, LeaveIsChange DEF ObeyLeave
<1>8. ASSUME NEW m \in inbox[a], TakeOver(a, m) PROVE GroupTypeOK' /\ Change(a)
  <2>1. Spoke(a) /\ Net
    BY <1>0, <1>8, ReplySays, PlainIsSpoken DEF TakeOver, RequestTypes
  <2> QED
    BY <1>0, <1>8, <2>1, ReaderIsChange DEF TakeOver
<1>9. ASSUME NEW m \in inbox[a], Trigger(a, m) PROVE GroupTypeOK' /\ Change(a)
  <2> DEFINE h == [no |-> m.no, scope |-> Scope(m.mask, id[a]), as |-> id[a], mask |-> m.mask]
  <2>1. Spoke(a) /\ Net
    BY <1>0, <1>9, ReceiveIsQuiet DEF Trigger, Spoke
  <2>2. h \in Triggers
    <3>1. m.no \in Nat
      BY <1>0, GroupAssumption DEF Messages
    <3>2. Scope(m.mask, id[a]) \in {"all", "myself", "other"}
      BY DEF Scope
    <3> QED
      BY <1>0, <3>1, <3>2 DEF Triggers
  <2>3. heard' = [heard EXCEPT ![a] = @ \cup {h}] /\ TRUE \in Addressed(h.mask, h.as)
        /\ h.no = m.no /\ h.mask = m.mask /\ h.scope = Scope(h.mask, h.as)
    BY <1>9 DEF Trigger
  <2> HIDE DEF h
  <2>4. heard' \in [Agents -> SUBSET Triggers] /\ \A b \in Agents \ {a} : heard'[b] = heard[b]
    BY <2>2, <2>3 DEF GroupTypeOK
  <2>5. Hears(a)
    BY <1>0, <2>3 DEF Hears, GroupTypeOK
  <2>6. FieldsOK' /\ terms' \in Nat /\ terms <= terms'
    BY <1>9, <2>4 DEF Trigger, FieldsOK, GroupTypeOK
  <2>7. GroupTypeOK'
    BY <1>0, <2>1, <2>6, StepTyped
  <2> QED
    BY <1>0, <1>9, <2>1, <2>4, <2>5, <2>7 DEF Trigger, Change, Same, Forgets, Marks, MemberLoop
<1>10. ASSUME NEW m \in inbox[a], Unsupported(a, m) PROVE GroupTypeOK' /\ Change(a)
  <2>1. Spoke(a) /\ Net
    BY <1>0, <1>10, ReceiveIsQuiet DEF Unsupported, Spoke
  <2> QED
    BY <1>0, <1>10, <2>1, PlainIsChange DEF Unsupported
<1>11. ASSUME NEW to \in Targets, SendTrigger(a, to) PROVE GroupTypeOK' /\ Change(a)
  <2>1. Spoke(a) /\ Net
    BY <1>0, <1>11, TargetsAssumption, BroadcastReply, PlainIsSpoken DEF SendTrigger, RequestTypes
  <2> QED
    BY <1>0, <1>11, <2>1, PlainIsChange DEF SendTrigger
<1>12. ASSUME Stop(a) PROVE GroupTypeOK' /\ Change(a)
  BY <1>0, <1>12, DownIsChange DEF Stop, Roles
<1> QED
  BY <1>1, <1>2, <1>3, <1>4, <1>5, <1>6, <1>7, <1>8, <1>9, <1>10, <1>11, <1>12 DEF AgentStep

(* ... and every step of a demonstration.                                  *)
LEMMA DemoStepIs ==
  ASSUME GroupTypeOK, Known, NEW a \in Demo, DemoStep(a), UNCHANGED heard
  PROVE  GroupTypeOK' /\ Change(a)
<1>0. /\ a \in Agents /\ terms \in Nat /\ 0 \in Ids /\ 1 \in Ids
      /\ {0} \in SUBSET Bits /\ {} \in SUBSET (0 .. 7) /\ {} \in SUBSET Bits
      /\ loop \in [Agents -> {"groupManage", "triWifiReceive"}] /\ flag \in [Agents -> BOOLEAN]
      /\ starts \in [Agents -> 0 .. MaxStarts] /\ MemberLoop
      /\ id[a] \in Ids /\ list[a] \in SUBSET Bits
      /\ \A m \in inbox[a] : m \in Messages /\ m.id \in Ids /\ m.mask \in SUBSET (0 .. 7)
                             /\ m.list \in SUBSET Bits
  BY GroupAssumption DEF Agents, GroupTypeOK, Ids, Bits, Messages, Known
<1>n. UNCHANGED <<inbox, sent, repeats>> => Quiet /\ Net
  BY DEF Quiet, Net, GroupTypeOK
<1>1. ASSUME DemoJoin(a) PROVE GroupTypeOK' /\ Change(a)
  <2>1. starts' \in [Agents -> 0 .. MaxStarts]
    <3>1. starts[a] + 1 \in 0 .. MaxStarts
      BY <1>0, <1>1, GroupAssumption DEF DemoJoin
    <3> QED
      BY <1>0, <1>1, <3>1 DEF DemoJoin
  <2>2. flag' \in [Agents -> BOOLEAN]
    <3>1. CASE \E d \in BOOLEAN : flag' = [flag EXCEPT ![a] = d]
      BY <1>0, <3>1
    <3>2. CASE UNCHANGED flag
      BY <1>0, <3>2
    <3> QED
      BY <1>1, <3>1, <3>2 DEF DemoJoin
  <2>3. CASE role' = [role EXCEPT ![a] = "joining"] /\ Broadcast(inbox, a, Message(a, "JOIN", 0, {}, {0}))
    <3>1. Spoke(a) /\ Net
      BY <1>0, <1>1, <2>3, BroadcastReply, PlainIsSpoken DEF DemoJoin, RequestTypes
    <3> QED
      BY <1>0, <1>1, <2>1, <2>2, <2>3, <3>1, WaitingIsChange DEF DemoJoin, Roles
  <2>4. CASE UNCHANGED <<role, inbox, sent>>
    <3>1. Spoke(a) /\ Net
      BY <1>1, <1>n, <2>4 DEF DemoJoin, Spoke
    <3>2. role' = [role EXCEPT ![a] = "out"]
      BY <1>1, <2>4 DEF DemoJoin, GroupTypeOK
    <3> QED
      BY <1>0, <1>1, <2>1, <2>2, <3>1, <3>2, WaitingIsChange DEF DemoJoin, Roles
  <2> QED
    BY <1>1, <2>3, <2>4 DEF DemoJoin
<1>2. ASSUME NEW m \in inbox[a], DemoJoined(a, m) PROVE GroupTypeOK' /\ Change(a)
  <2>1. /\ loop' \in [Agents -> {"groupManage", "triWifiReceive"}]
        /\ loop'[a] = "triWifiReceive" /\ \A b \in Agents \ {a} : loop'[b] = loop[b]
    BY <1>0, <1>2 DEF DemoJoined
  <2> QED
    BY <1>0, <1>2, <2>1, MemberIsChange DEF DemoJoined
<1>g. ASSUME DemoGone(a) PROVE GroupTypeOK' /\ Change(a)
  <2>1. GoDown(a, "out") /\ UNCHANGED <<sent, starts, repeats, terms, left, back>>
    BY <1>g DEF DemoGone, DemoForget, GoDown
  <2>2. /\ loop' \in [Agents -> {"groupManage", "triWifiReceive"}] /\ flag' \in [Agents -> BOOLEAN]
        /\ \A b \in Agents \ {a} : loop'[b] = loop[b]
    BY <1>0, <1>g DEF DemoGone, DemoForget
  <2> QED
    BY <1>0, <2>1, <2>2, DownIsChange DEF Roles
<1>3. ASSUME NEW m \in inbox[a], DemoRejected(a, m) PROVE GroupTypeOK' /\ Change(a)
  BY <1>3, <1>g DEF DemoRejected
<1>4. ASSUME DemoBuild(a) PROVE GroupTypeOK' /\ Change(a)
  <2>1. Spoke(a) /\ Net
    <3>1. CASE UNCHANGED <<inbox, sent, repeats>>
      BY <1>n, <3>1 DEF Spoke
    <3>2. ASSUME NEW m \in inbox[a], Receive(a, m) PROVE Spoke(a) /\ Net
      BY <1>0, <3>2, ReceiveIsQuiet DEF Spoke
    <3> QED
      BY <1>4, <3>1, <3>2 DEF DemoBuild
  <2>2. /\ loop' \in [Agents -> {"groupManage", "triWifiReceive"}]
        /\ \A b \in Agents \ {a} : loop'[b] = loop[b]
    BY <1>0, <1>4 DEF DemoBuild
  <2> QED
    BY <1>0, <1>4, <2>1, <2>2, ReaderIsChange DEF DemoBuild
<1>5. ASSUME NEW m \in inbox[a], groupManage_Join(a, m) PROVE GroupTypeOK' /\ Change(a)
  <2> DEFINE n == FreeNumber(list[a])
  <2>1. n \in 0 .. MAX_MEMBER_SIZE /\ n \notin list[a]
    BY <1>0, FreeNumberIs
  <2>2. role[a] = "reader"
    BY <1>0, <1>5 DEF groupManage_Join, Runs, MemberLoop
  <2>3. CASE n = MAX_MEMBER_SIZE
    <3>1. Spoke(a) /\ Net /\ UNCHANGED list
      BY <1>0, <1>5, <2>3, ReplySays, PlainIsSpoken DEF groupManage_Join, RequestTypes
    <3> QED
      BY <1>0, <1>5, <3>1, PlainIsChange DEF groupManage_Join
  <2>4. CASE n # MAX_MEMBER_SIZE
    <3>1. n \in Ids /\ BitOf(a, n) = n /\ n \in Bits
      BY <2>1, <2>4, GroupAssumption DEF Ids, Bits, BitOf
    <3> HIDE DEF n
    <3>2. /\ list' = [list EXCEPT ![a] = @ \cup {n}]
          /\ Reply(a, m, Message(a, "TO_BE_MEMBER", n, {n}, list[a] \cup {n}))
          /\ UNCHANGED <<role, id, starts, terms, term, took, left, back, loop, flag>>
      BY <1>5, <2>4 DEF groupManage_Join, n
    <3> QED
      BY <1>0, <2>1, <2>2, <3>1, <3>2, AnswerIsChange
  <2> QED
    BY <2>3, <2>4
<1>6. ASSUME NEW m \in inbox[a], groupManage_Leave(a, m) PROVE GroupTypeOK' /\ Change(a)
  <2>1. role[a] = "reader"
    BY <1>0, <1>6 DEF groupManage_Leave, Runs, MemberLoop
  <2>2. \/ left' = left \cup {term[a]} /\ UNCHANGED back
        \/ /\ m.of.term = term[a] /\ m.of \notin back /\ back' = back \cup {m.of}
           /\ UNCHANGED left /\ a \in Demo
    BY <1>6 DEF groupManage_Leave
  <2> QED
    BY <1>0, <1>6, <2>1, <2>2, LeaveIsChange DEF groupManage_Leave
<1>7. ASSUME NEW m \in inbox[a], DemoTakeOver(a, m) PROVE GroupTypeOK' /\ Change(a)
  <2>1. Spoke(a) /\ Net
    BY <1>0, <1>7, ReplySays, PlainIsSpoken DEF DemoTakeOver, RequestTypes
  <2>2. /\ loop' \in [Agents -> {"groupManage", "triWifiReceive"}]
        /\ \A b \in Agents \ {a} : loop'[b] = loop[b]
    BY <1>0, <1>7 DEF DemoTakeOver
  <2>3. m.list \ {id[a] - 1} \in SUBSET Bits
    BY <1>0
  <2> QED
    BY <1>0, <1>7, <2>1, <2>2, <2>3, ReaderIsChange DEF DemoTakeOver
<1>8. ASSUME NEW m \in inbox[a], DemoUnsupported(a, m) PROVE GroupTypeOK' /\ Change(a)
  <2>1. Spoke(a) /\ Net
    BY <1>0, <1>8, ReceiveIsQuiet DEF DemoUnsupported, Spoke
  <2> QED
    BY <1>0, <1>8, <2>1, PlainIsChange DEF DemoUnsupported
<1>9. ASSUME DemoLeave(a) PROVE GroupTypeOK' /\ Change(a)
  <2> DEFINE m == LeaveRequest(a)
  <2>1. (Quiet \/ Says(m)) /\ Net
    BY <1>0, <1>9, LastWordSays DEF DemoLeave, DemoForget
  <2>2. ASSUME Says(m) PROVE m \in Messages /\ SaidBy(a, m)
    <3>1. CASE role[a] = "member"
      <4>1. m = Message(a, "LEAVE", id[a], {}, {})
        BY <3>1 DEF LeaveRequest
      <4>2. took[a] # None
        BY <1>0, <3>1 DEF Known, None
      <4> HIDE DEF m
      <4>3. m \in Messages
        BY <1>0, <2>2, <4>1, MessageTyped DEF Says, RequestTypes
      <4>4. m.no = sent + 1 /\ m.type = "LEAVE" /\ m.of = took[a] /\ m.id = id[a]
        BY <4>1, <4>2 DEF Message
      <4> QED
        BY <3>1, <4>3, <4>4 DEF SaidBy
    <3>2. CASE role[a] # "member"
      <4> DEFINE bits == BitsOf(NextReaderId(list[a]))
      <4>1. m = Message(a, "TO_BE_READER", id[a], bits, list[a])
        BY <3>2 DEF LeaveRequest
      <4>2. bits \in SUBSET (0 .. 7)
        BY DEF BitsOf
      <4> HIDE DEF m, bits
      <4>3. m \in Messages
        BY <1>0, <2>2, <4>1, <4>2, MessageTyped DEF Says, RequestTypes
      <4>4. m.no = sent + 1 /\ m.type = "TO_BE_READER"
        BY <4>1 DEF Message
      <4> QED
        BY <4>3, <4>4 DEF SaidBy
    <3> QED
      BY <3>1, <3>2
  <2> HIDE DEF m
  <2>3. Spoke(a) /\ Net
    BY <2>1, <2>2 DEF Spoke
  <2>4. Forget(a, "leaving") /\ UNCHANGED <<starts, terms, left, back>>
    BY <1>9 DEF DemoLeave, DemoForget
  <2>5. /\ loop' \in [Agents -> {"groupManage", "triWifiReceive"}] /\ flag' \in [Agents -> BOOLEAN]
        /\ \A b \in Agents \ {a} : loop'[b] = loop[b]
    BY <1>0, <1>9 DEF DemoLeave, DemoForget
  <2> QED
    BY <1>0, <2>3, <2>4, <2>5, ForgetIsChange DEF Roles
<1>10. ASSUME DemoEnd(a) PROVE GroupTypeOK' /\ Change(a)
  BY <1>10, <1>g DEF DemoEnd
<1>11. ASSUME DemoStop(a) PROVE GroupTypeOK' /\ Change(a)
  BY <1>11, <1>g DEF DemoStop
<1> QED
  BY <1>1, <1>2, <1>3, <1>4, <1>5, <1>6, <1>7, <1>8, <1>9, <1>10, <1>11 DEF DemoStep

------------------------------------------------------------------------------
(* Who may have which id: an answer o that is under way, a leave that will *)
(* return it and a member that took it all claim the id i of the answer.   *)
AnswerClaim(o, i) ==
  \E a \in Agents : \E m \in inbox[a] :
    m.type = "TO_BE_MEMBER" /\ o = [term |-> m.of.term, no |-> m.no] /\ i = m.id
LeaveClaim(o, i) ==
  \E a \in Agents : \E m \in inbox[a] : m.type = "LEAVE" /\ o = m.of /\ i = m.id
MemberClaim(o, i) == \E a \in Agents : role[a] = "member" /\ o = took[a] /\ i = id[a]
Claim(o, i) == AnswerClaim(o, i) \/ LeaveClaim(o, i) \/ MemberClaim(o, i)
Held(o) == o.term \notin left /\ o \notin back

ClaimsKnown ==
  \A o, i : Claim(o, i) => o \in [term : 0 .. terms, no : 1 .. sent] /\ i \in Ids
Unshared ==
  \A o, p, i : (Claim(o, i) /\ Claim(p, i) /\ o.term = p.term /\ Held(o) /\ Held(p)) => o = p
Listed ==
  \A r \in Agents : \A o, i :
    (role[r] = "reader" /\ Claim(o, i) /\ o.term = term[r] /\ Held(o)) => BitOf(r, i) \in list[r]
OwnTerms ==
  \A a, b \in Agents :
    (role[a] = "reader" /\ role[b] = "reader" /\ term[a] = term[b]) => a = b

(* A number is that of one message, and triggers are heard as they were said. *)
Numbered ==
  \A a, b \in Agents : \A m \in inbox[a] : \A n \in inbox[b] : m.no = n.no => m = n
HeardAsSaid ==
  \A a \in Agents : \A h \in heard[a] :
    /\ h.no <= sent
    /\ h.scope = Scope(h.mask, h.as) /\ TRUE \in Addressed(h.mask, h.as)
    /\ \A b \in Agents :
         /\ \A m \in inbox[b] : h.no = m.no => h.mask = m.mask
         /\ \A k \in heard[b] : h.no = k.no => h.mask = k.mask

GroupInv ==
  /\ GroupTypeOK /\ Known
  /\ ClaimsKnown /\ Unshared /\ Listed /\ OwnTerms
  /\ Numbered /\ HeardAsSaid

(* A claim is an old one or the reader's new answer. *)
NewClaim(a, o, i) ==
  /\ role[a] = "reader" /\ Same(a) /\ sent' = sent + 1
  /\ o = [term |-> term[a], no |-> sent + 1]
  /\ i \in Ids /\ BitOf(a, i) \notin list[a] /\ list'[a] = list[a] \cup {BitOf(a, i)}

(* What is claimed after a change was claimed before, or is new.           *)
LEMMA ClaimsChange ==
  ASSUME GroupInv, NEW a \in Agents, Change(a), NEW o, NEW i, Claim(o, i)'
  PROVE  Claim(o, i) \/ NewClaim(a, o, i)
<1>0. \A b \in Agents : \A m \in inbox'[b] :
        m \in inbox[b] \/ (sent' = sent + 1 /\ m \in Messages /\ SaidBy(a, m))
  BY DEF Change, Spoke, Quiet, Says
<1>1. CASE AnswerClaim(o, i)'
  <2>0. PICK b \in Agents : \E m \in inbox'[b] :
          m.type = "TO_BE_MEMBER" /\ o = [term |-> m.of.term, no |-> m.no] /\ i = m.id
    BY <1>1 DEF AnswerClaim, Agents
  <2>1. PICK m \in inbox'[b] :
          m.type = "TO_BE_MEMBER" /\ o = [term |-> m.of.term, no |-> m.no] /\ i = m.id
    BY <2>0
  <2>2. CASE m \in inbox[b]
    BY <2>1, <2>2 DEF Claim, AnswerClaim
  <2>3. CASE sent' = sent + 1 /\ m \in Messages /\ SaidBy(a, m)
    <3>1. m.id \in Ids
      BY <2>3 DEF Messages
    <3> QED
      BY <2>1, <2>3, <3>1 DEF SaidBy, NewClaim
  <2> QED
    BY <1>0, <2>2, <2>3
<1>2. CASE LeaveClaim(o, i)'
  <2>0. PICK b \in Agents : \E m \in inbox'[b] : m.type = "LEAVE" /\ o = m.of /\ i = m.id
    BY <1>2 DEF LeaveClaim, Agents
  <2>1. PICK m \in inbox'[b] : m.type = "LEAVE" /\ o = m.of /\ i = m.id
    BY <2>0
  <2>2. CASE m \in inbox[b]
    BY <2>1, <2>2 DEF Claim, LeaveClaim
  <2>3. CASE SaidBy(a, m)
    BY <2>1, <2>3 DEF SaidBy, Claim, MemberClaim
  <2> QED
    BY <1>0, <2>2, <2>3
<1>3. CASE MemberClaim(o, i)'
  <2>1. PICK b \in Agents : role'[b] = "member" /\ o = took'[b] /\ i = id'[b]
    BY <1>3 DEF MemberClaim, Agents
  <2>2. CASE Same(b)
    BY <2>1, <2>2 DEF Same, Claim, MemberClaim
  <2>3. CASE NewMember(b)
    BY <2>1, <2>3 DEF NewMember, Claim, AnswerClaim
  <2> QED
    BY <2>1, <2>2, <2>3 DEF Change, Idle, NewReader
<1> QED
  BY <1>1, <1>2, <1>3 DEF Claim

------------------------------------------------------------------------------
(* Every change keeps the invariant.                                       *)
LEMMA NumbersStay ==
  ASSUME GroupInv, NEW a \in Agents, Change(a), GroupTypeOK'
  PROVE  Known' /\ OwnTerms' /\ Numbered'
<1>1. /\ sent \in Nat /\ sent' \in Nat /\ sent <= sent' /\ terms \in Nat /\ terms' \in Nat
      /\ terms <= terms' /\ MaxSent \in Nat
  BY GroupAssumption DEF GroupInv, GroupTypeOK, Change, Spoke, Quiet, Says, NewReader
<1>2. \A b \in Agents : \A m \in inbox'[b] :
        m \in inbox[b] \/ (sent' = sent + 1 /\ m \in Messages /\ SaidBy(a, m))
  BY DEF Change, Spoke, Quiet, Says
<1>3. \A b \in Agents : \A m \in inbox[b] : m \in Messages /\ m.no \in 1 .. sent
  BY <1>1 DEF GroupInv, GroupTypeOK, Known, Messages
<1>4. \A b \in Agents : role'[b] = "reader" =>
        \/ Same(b) /\ role[b] = "reader"
        \/ b = a /\ NewReader(a)
  BY DEF Change, Same, Idle, NewMember
<1>5. \A b \in Agents : role[b] = "reader" => took[b] = None /\ term[b] \in 1 .. terms
  BY DEF GroupInv, Known
<1>6. ASSUME NEW b \in Agents, role'[b] = "reader"
      PROVE  took'[b] = None /\ term'[b] \in 1 .. terms'
  <2>1. CASE Same(b) /\ role[b] = "reader"
    BY <1>1, <1>5, <2>1 DEF Same
  <2>2. CASE b = a /\ NewReader(a)
    BY <1>1, <2>2 DEF NewReader
  <2> QED
    BY <1>4, <1>6, <2>1, <2>2
<1>7. ASSUME NEW b \in Agents, role'[b] = "member"
      PROVE  took'[b].no \in 1 .. sent'
  <2>1. CASE Same(b)
    <3>1. took[b].no \in 1 .. sent
      BY <1>7, <2>1 DEF Same, GroupInv, Known
    <3> QED
      BY <1>1, <2>1, <3>1 DEF Same
  <2>2. CASE NewMember(b)
    <3>1. PICK m \in inbox[b] : took'[b] = [term |-> m.of.term, no |-> m.no]
      BY <2>2 DEF NewMember
    <3> QED
      BY <1>1, <1>3, <3>1
  <2> QED
    BY <1>7, <2>1, <2>2 DEF Change, Idle, NewReader
<1>8. ASSUME NEW b \in Agents, NEW m \in inbox'[b]
      PROVE  m.no <= sent' /\ (m.type = "LEAVE" => m.of.no \in 1 .. sent')
  <2>1. CASE m \in inbox[b]
    <3>1. m.no \in 1 .. sent /\ (m.type = "LEAVE" => m.of.no \in 1 .. sent)
      BY <1>3, <2>1 DEF GroupInv, Known
    <3> QED
      BY <1>1, <3>1
  <2>2. CASE sent' = sent + 1 /\ SaidBy(a, m)
    <3>1. m.no = sent + 1
      BY <2>2 DEF SaidBy
    <3>2. m.type = "LEAVE" => m.of.no \in 1 .. sent
      BY <2>2 DEF SaidBy, GroupInv, Known
    <3> QED
      BY <1>1, <2>2, <3>1, <3>2
  <2> QED
    BY <1>2, <2>1, <2>2
<1>9. Known'
  <2>1. ASSUME NEW o \in back'
        PROVE  o.no \in 1 .. sent'
    <3>1. o.no \in 1 .. sent
      BY <1>3 DEF Change, Marks, GroupInv, Known
    <3> QED
      BY <1>1, <3>1
  <2> QED
    BY <1>6, <1>7, <1>8, <2>1 DEF Change, Known, Agents
<1>10. OwnTerms'
  <2> SUFFICES ASSUME NEW b \in Agents, NEW c \in Agents,
                      role'[b] = "reader", role'[c] = "reader", term'[b] = term'[c]
               PROVE  b = c
    BY DEF OwnTerms, Agents
  <2>1. CASE Same(b) /\ role[b] = "reader" /\ Same(c) /\ role[c] = "reader"
    BY <2>1 DEF Same, GroupInv, OwnTerms
  <2>2. ASSUME NEW d \in Agents, Same(d), role[d] = "reader", NewReader(a)
        PROVE  term'[d] # term'[a]
    <3>1. term[d] \in 1 .. terms
      BY <1>5, <2>2
    <3>2. term'[d] = term[d] /\ term'[a] = terms + 1
      BY <2>2 DEF Same, NewReader
    <3> QED
      BY <1>1, <3>1, <3>2
  <2> QED
    BY <1>4, <2>1, <2>2
<1>11. Numbered'
  <2> SUFFICES ASSUME NEW b \in Agents, NEW c \in Agents, NEW m \in inbox'[b], NEW n \in inbox'[c],
                      m.no = n.no
               PROVE  m = n
    BY DEF Numbered, Agents
  <2>1. CASE m \in inbox[b] /\ n \in inbox[c]
    BY <2>1 DEF GroupInv, Numbered
  <2>2. CASE ~ (m \in inbox[b] /\ n \in inbox[c])
    <3>1. PICK x \in Messages : Says(x) /\ SaidBy(a, x)
      BY <1>2, <2>2 DEF Change, Spoke, Quiet
    <3>2. (m \in inbox[b] \/ m = x) /\ (n \in inbox[c] \/ n = x) /\ x.no = sent + 1
      BY <3>1 DEF Says, SaidBy
    <3> QED
      BY <1>1, <1>3, <2>2, <3>2
  <2> QED
    BY <2>1, <2>2
<1> QED
  BY <1>9, <1>10, <1>11

(* After a change, too, handlers have heard what was said.                 *)
LEMMA HeardStays ==
  ASSUME GroupInv, NEW a \in Agents, Change(a), GroupTypeOK'
  PROVE  HeardAsSaid'
<1>1. sent \in Nat /\ sent' \in Nat /\ sent <= sent'
  BY GroupAssumption DEF GroupInv, GroupTypeOK, Change, Spoke, Quiet, Says
<1>2. \A b \in Agents : \A m \in inbox'[b] : m \in inbox[b] \/ m.no = sent + 1
  BY DEF Change, Spoke, Quiet, Says, SaidBy
<1>3. \A b \in Agents : \A m \in inbox[b] : m.no \in Nat /\ m.no <= sent
  BY <1>1 DEF GroupInv, GroupTypeOK, Known, Messages
(* What was heard is what was heard before, or a message that had come.    *)
<1>4. \A b \in Agents : \A h \in heard'[b] :
        \/ h \in heard[b]
        \/ /\ \E m \in inbox[a] : h.no = m.no /\ h.mask = m.mask
           /\ h.scope = Scope(h.mask, h.as) /\ TRUE \in Addressed(h.mask, h.as)
  BY DEF Change, Hears
<1>5. \A b \in Agents : \A h \in heard'[b] :
        /\ h.no \in Nat /\ h.no <= sent
        /\ h.scope = Scope(h.mask, h.as) /\ TRUE \in Addressed(h.mask, h.as)
  <2>1. \A b \in Agents : \A h \in heard'[b] : h.no \in Nat
    BY DEF GroupTypeOK, Triggers, Agents
  <2> QED
    BY <1>3, <1>4, <2>1 DEF GroupInv, HeardAsSaid
<1>0. \A b, c \in Agents : \A h \in heard[b] :
        /\ \A m \in inbox[c] : h.no = m.no => h.mask = m.mask
        /\ \A k \in heard[c] : h.no = k.no => h.mask = k.mask
  BY DEF GroupInv, HeardAsSaid
<1>6. ASSUME NEW b \in Agents, NEW h \in heard'[b], NEW c \in Agents, NEW m \in inbox'[c],
             h.no = m.no
      PROVE  h.mask = m.mask
  <2>1. m \in inbox[c]
    <3>1. h.no \in Nat /\ h.no <= sent
      BY <1>5
    <3>2. m.no # sent + 1
      BY <1>1, <1>6, <3>1
    <3> QED
      BY <1>2, <3>2
  <2>2. CASE h \in heard[b]
    BY <1>6, <2>1, <2>2 DEF GroupInv, HeardAsSaid
  <2>3. CASE \E n \in inbox[a] : h.no = n.no /\ h.mask = n.mask
    BY <1>6, <2>1, <2>3 DEF GroupInv, Numbered
  <2> QED
    BY <1>4, <2>2, <2>3
<1>7. ASSUME NEW b \in Agents, NEW h \in heard'[b], NEW c \in Agents, NEW k \in heard'[c],
             h.no = k.no
      PROVE  h.mask = k.mask
  <2>1. CASE h \in heard[b] /\ k \in heard[c]
    BY <1>0, <1>7, <2>1
  <2>2. ASSUME h \in heard[b], NEW n \in inbox[a], k.no = n.no, k.mask = n.mask
        PROVE  h.mask = k.mask
    BY <1>0, <1>7, <2>2
  <2>3. ASSUME k \in heard[c], NEW n \in inbox[a], h.no = n.no, h.mask = n.mask
        PROVE  h.mask = k.mask
    <3>1. k.no = n.no
      BY <1>7, <2>3
    <3>2. k.mask = n.mask
      BY <1>0, <2>3, <3>1
    <3> QED
      BY <2>3, <3>2
  <2>4. ASSUME NEW n \in inbox[a], h.no = n.no, h.mask = n.mask,
               NEW l \in inbox[a], k.no = l.no, k.mask = l.mask
        PROVE  h.mask = k.mask
    BY <1>7, <2>4 DEF GroupInv, Numbered
  <2>5. h \in heard[b] \/ \E n \in inbox[a] : h.no = n.no /\ h.mask = n.mask
    BY <1>4
  <2>6. k \in heard[c] \/ \E n \in inbox[a] : k.no = n.no /\ k.mask = n.mask
    BY <1>4
  <2> QED
    BY <2>1, <2>2, <2>3, <2>4, <2>5, <2>6
<1>8. ASSUME NEW b \in Agents, NEW h \in heard'[b]
      PROVE  h.no <= sent'
  <2>1. h.no \in Nat /\ h.no <= sent
    BY <1>5
  <2> QED
    BY <1>1, <2>1
<1> QED
  BY <1>5, <1>6, <1>7, <1>8 DEF HeardAsSaid, Agents

(* After a change, too, claims are known, unshared and listed.             *)
LEMMA ClaimsStay ==
  ASSUME GroupInv, NEW a \in Agents, Change(a), GroupTypeOK'
  PROVE  ClaimsKnown' /\ Unshared' /\ Listed'
<1>1. /\ sent \in Nat /\ sent' \in Nat /\ sent <= sent' /\ terms \in Nat /\ terms' \in Nat
      /\ terms <= terms'
  BY GroupAssumption DEF GroupInv, GroupTypeOK, Change, Spoke, Quiet, Says, NewReader
<1>2. \A o, i : Claim(o, i)' => Claim(o, i) \/ NewClaim(a, o, i)
  BY ClaimsChange
<1>3. \A o : Held(o)' => Held(o)
  BY DEF Held, Change
<1>4. \A o, i : Claim(o, i) =>
        o \in [term : 0 .. terms, no : 1 .. sent] /\ o.term \in 0 .. terms /\ o.no \in 1 .. sent
        /\ i \in Ids /\ i \in Int
  BY GroupAssumption DEF GroupInv, ClaimsKnown, Ids
<1>5. \A o, i : NewClaim(a, o, i) =>
        /\ o.term = term[a] /\ o.no = sent + 1 /\ o \in [term : 0 .. terms', no : 1 .. sent']
        /\ i \in Ids /\ role[a] = "reader"
  <2>1. term[a] \in 0 .. terms'
    BY <1>1 DEF GroupInv, GroupTypeOK
  <2> QED
    BY <1>1, <2>1 DEF NewClaim
<1>6. ClaimsKnown'
  <2> SUFFICES ASSUME NEW o, NEW i, Claim(o, i)'
               PROVE  o \in [term : 0 .. terms', no : 1 .. sent'] /\ i \in Ids
    BY DEF ClaimsKnown, Ids
  <2>1. [term : 0 .. terms, no : 1 .. sent] \subseteq [term : 0 .. terms', no : 1 .. sent']
    BY <1>1
  <2> QED
    BY <1>2, <1>4, <1>5, <2>1
<1>7. Unshared'
  <2> SUFFICES ASSUME NEW o, NEW p, NEW i, Claim(o, i)', Claim(p, i)', o.term = p.term,
                      Held(o)', Held(p)'
               PROVE  o = p
    BY DEF Unshared
  <2>1. Held(o) /\ Held(p)
    BY <1>3
  <2>2. CASE Claim(o, i) /\ Claim(p, i)
    BY <2>1, <2>2 DEF GroupInv, Unshared
  <2>3. CASE NewClaim(a, o, i) /\ NewClaim(a, p, i)
    BY <2>3 DEF NewClaim
  <2>4. CASE Claim(o, i) /\ NewClaim(a, p, i)
    BY <1>5, <2>1, <2>4 DEF GroupInv, Listed, NewClaim
  <2>5. CASE NewClaim(a, o, i) /\ Claim(p, i)
    BY <1>5, <2>1, <2>5 DEF GroupInv, Listed, NewClaim
  <2> QED
    BY <1>2, <2>2, <2>3, <2>4, <2>5
<1>8. Listed'
  <2> SUFFICES ASSUME NEW r \in Agents, NEW o, NEW i, role'[r] = "reader", Claim(o, i)',
                      o.term = term'[r], Held(o)'
               PROVE  BitOf(r, i) \in list'[r]
    BY DEF Listed, Agents, BitOf
  <2>1. Held(o)
    BY <1>3
  <2>2. CASE r # a
    <3>1. Same(r) /\ list'[r] = list[r]
      BY <2>2 DEF Change
    <3>2. CASE Claim(o, i)
      BY <2>1, <3>1, <3>2 DEF Same, GroupInv, Listed
    <3>3. ~ NewClaim(a, o, i)
      BY <1>5, <2>2, <3>1 DEF Same, GroupInv, OwnTerms
    <3> QED
      BY <1>2, <3>2, <3>3
  <2>3. CASE r = a /\ Same(a)
    <3>1. role[a] = "reader" /\ o.term = term[a]
      BY <2>3 DEF Same
    <3>2. CASE NewClaim(a, o, i)
      BY <2>3, <3>2 DEF NewClaim
    <3>3. CASE Claim(o, i)
      <4>1. BitOf(a, i) \in list[a]
        BY <2>1, <3>1, <3>3 DEF GroupInv, Listed
      <4>2. Forgets(a)
        BY <2>3, <3>1 DEF Change
      <4>3. term[a] \notin left'
        BY <3>1 DEF Held
      <4>4. ASSUME NEW m \in inbox[a], m.type = "LEAVE", m.of.term = term[a], m.of \in back' \ back,
                   \A j \in list[a] : j # BitOf(a, m.id) => j \in list'[a]
            PROVE  BitOf(a, i) \in list'[a]
        <5>1. Claim(m.of, m.id)
          BY <4>4 DEF Claim, LeaveClaim
        <5>2. Held(m.of)
          BY <2>1, <3>1, <4>4 DEF Held
        <5>3. m.id # i
          <6>1. o # m.of
            BY <4>4 DEF Held
          <6> QED
            BY <2>1, <3>1, <3>3, <4>4, <5>1, <5>2, <6>1 DEF GroupInv, Unshared
        <5>4. BitOf(a, i) # BitOf(a, m.id)
          BY <1>4, <3>3, <5>1, <5>3 DEF BitOf
        <5> QED
          BY <4>1, <4>4, <5>4
      <4> QED
        BY <2>3, <4>1, <4>2, <4>3, <4>4 DEF Forgets
    <3> QED
      BY <1>2, <3>2, <3>3
  <2>4. CASE r = a /\ ~ Same(a)
    <3>1. NewReader(a)
      BY <2>4 DEF Change, Idle, NewMember
    <3>2. o.term = terms + 1
      BY <2>4, <3>1 DEF NewReader
    <3>3. ~ Claim(o, i)
      BY <1>1, <1>4, <3>2
    <3>4. ~ NewClaim(a, o, i)
      BY <2>4 DEF NewClaim
    <3> QED
      BY <1>2, <3>3, <3>4
  <2> QED
    BY <2>2, <2>3, <2>4
<1> QED
  BY <1>6, <1>7, <1>8

------------------------------------------------------------------------------
(* A change preserves the whole invariant.                                 *)
LEMMA ChangeKeeps ==
  ASSUME GroupInv, NEW a \in Agents, Change(a), GroupTypeOK'
  PROVE  GroupInv'
  BY NumbersStay, HeardStays, ClaimsStay DEF GroupInv

(* So does a step that changes nothing.                                    *)
LEMMA StutterKeeps ==
  ASSUME GroupInv, UNCHANGED vars
  PROVE  GroupInv'
<1>1. /\ UNCHANGED <<role, id, list, inbox, sent, starts, repeats, terms, term, took, left, back>>
      /\ UNCHANGED <<heard, loop, flag>>
  BY DEF vars, wireVars
<1>2. GroupTypeOK' /\ Known'
  BY <1>1 DEF GroupInv, GroupTypeOK, Messages, Known, MemberLoop
<1>3. ClaimsKnown' /\ Unshared' /\ Listed' /\ OwnTerms'
  BY <1>1 DEF GroupInv, ClaimsKnown, Unshared, Listed, OwnTerms, Claim, AnswerClaim, LeaveClaim,
              MemberClaim, Held
<1>4. Numbered'
  BY <1>1 DEF GroupInv, Numbered
<1>5. HeardAsSaid'
  BY <1>1, Zenon DEF GroupInv, HeardAsSaid
<1> QED
  BY <1>2, <1>3, <1>4, <1>5 DEF GroupInv

(* The invariant holds of a group nobody has joined.                       *)
LEMMA GroupStarts == Init => GroupInv
<1> SUFFICES ASSUME Init PROVE GroupInv
  OBVIOUS
<1> USE DEF Init, WireInit, AgentInit, DemoInit
<1>1. GroupTypeOK
  <2>1. 0 \in Ids /\ 0 \in 0 .. MaxStarts /\ None \in [term : 0 .. 0, no : 0 .. MaxSent]
    BY GroupAssumption DEF Ids, None
  <2>3. took \in [Agents -> [term : 0 .. terms, no : 0 .. MaxSent]]
    BY <2>1
  <2>4. role \in [Agents -> Roles] /\ id \in [Agents -> Ids] /\ list \in [Agents -> SUBSET Bits]
    BY <2>1 DEF Roles
  <2>5. heard \in [Agents -> SUBSET Triggers] /\ starts \in [Agents -> 0 .. MaxStarts]
    BY <2>1
  <2>6. FieldsOK
    BY <2>3, <2>4, <2>5 DEF FieldsOK
  <2>2. NetOK
    BY GroupAssumption DEF NetOK, Boxes
  <2> QED
    BY <2>2, <2>6, TwoTypes
<1>2. Known
  BY DEF Known, MemberLoop, Agents
<1>3. \A o, i : ~ Claim(o, i)
  BY DEF Claim, AnswerClaim, LeaveClaim, MemberClaim
<1>4. ClaimsKnown /\ Unshared /\ Listed
  BY <1>3 DEF ClaimsKnown, Unshared, Listed
<1>5. OwnTerms /\ Numbered /\ HeardAsSaid
  BY DEF OwnTerms, Numbered, HeardAsSaid
<1> QED
  BY <1>1, <1>2, <1>4, <1>5 DEF GroupInv

(* The invariant holds for ever.                                           *)
LEMMA GroupInvariant == Spec => []GroupInv
<1>1. ASSUME GroupInv, Next PROVE GroupInv'
  <2>1. ASSUME NEW a \in Vm, AgentStep(a), UNCHANGED <<loop, flag>> PROVE GroupInv'
    BY <1>1, <2>1, MachineStep, ChangeKeeps DEF GroupInv, Agents
  <2>2. ASSUME NEW a \in Demo, DemoStep(a), UNCHANGED heard PROVE GroupInv'
    BY <1>1, <2>2, DemoStepIs, ChangeKeeps DEF GroupInv, Agents
  <2> QED
    BY <1>1, <2>1, <2>2 DEF Next
<1>2. GroupInv /\ [Next]_vars => GroupInv'
  BY <1>1, StutterKeeps
<1> QED
  BY <1>2, GroupStarts, PTL DEF Spec

(* Ids, lists and messages fit the bytes they are sent in, in every group  *)
(* of machines and demonstrations, whatever the network does               *)
(* (communicate-execute.c, RPI0_DEMO/comGroup/main.c).                     *)
THEOREM GroupTypes == Spec => []GroupTypeOK
<1>1. GroupInv => GroupTypeOK
  BY DEF GroupInv
<1> QED
  BY <1>1, GroupInvariant, PTL

(* Two members that have the same id of one reader took it from the same   *)
(* datagram (communicate-execute.c:125, 205).                              *)
THEOREM GroupSharesAnswers == Spec => []SharedIdsWereSharedAnswers
<1>1. GroupInv => SharedIdsWereSharedAnswers
  <2> SUFFICES ASSUME GroupInv, NEW a \in Agents, NEW b \in Agents,
                      role[a] = "member", role[b] = "member", took[a].term = took[b].term,
                      took[a].term \notin left, {took[a], took[b]} \cap back = {}, id[a] = id[b]
               PROVE  took[a] = took[b]
    BY DEF SharedIdsWereSharedAnswers
  <2>1. Claim(took[a], id[a]) /\ Claim(took[b], id[a])
    BY DEF Claim, MemberClaim
  <2>2. Held(took[a]) /\ Held(took[b])
    BY DEF Held
  <2> QED
    BY <2>1, <2>2 DEF GroupInv, Unshared
<1> QED
  BY <1>1, GroupInvariant, PTL

(* A reader lists its members, so that it gives their ids to nobody else   *)
(* (communicate-execute.c:205-215, RPI0_DEMO/comGroup/main.c:274).         *)
THEOREM GroupListsMembers == Spec => []MembersListed
<1>1. GroupInv => MembersListed
  <2> SUFFICES ASSUME GroupInv, NEW r \in Agents, NEW a \in Agents,
                      role[r] = "reader", role[a] = "member", took[a].term = term[r],
                      term[r] \notin left, took[a] \notin back
               PROVE  BitOf(r, id[a]) \in list[r]
    BY DEF MembersListed
  <2>1. Claim(took[a], id[a]) /\ Held(took[a])
    BY DEF Claim, MemberClaim, Held
  <2> QED
    BY <2>1 DEF GroupInv, Listed
<1> QED
  BY <1>1, GroupInvariant, PTL

(* One trigger is told to all that hear it as the same kind of trigger     *)
(* (communicate-execute.c:291-307).                                        *)
THEOREM GroupTriggersAgree == Spec => []TriggersAgree
<1>1. GroupInv => TriggersAgree
  <2> SUFFICES ASSUME GroupInv, NEW a \in Vm, NEW b \in Vm,
                      NEW h \in heard[a], NEW k \in heard[b], h.no = k.no
               PROVE  /\ h.scope = "all" <=> k.scope = "all"
                      /\ (h.scope = "myself" /\ k.as # 0) => (h.as = k.as /\ k.scope = "myself")
                      /\ h.scope = "other" => h.mask # {h.as - 1}
    BY DEF TriggersAgree
  <2>1. h \in Triggers /\ k \in Triggers
    BY DEF GroupInv, GroupTypeOK, Agents
  <2>2. h.as \in Nat /\ k.as \in Nat
    BY <2>1, GroupAssumption DEF Triggers, Ids
  <2>3. h.mask = k.mask
    BY DEF GroupInv, HeardAsSaid, Agents
  <2>4. h.scope = Scope(h.mask, h.as) /\ k.scope = Scope(k.mask, k.as) /\ TRUE \in Addressed(k.mask, k.as)
    BY DEF GroupInv, HeardAsSaid, Agents
  <2>5. h.scope = "all" <=> h.mask = AllMembers
    BY <2>4 DEF Scope
  <2>6. k.scope = "all" <=> k.mask = AllMembers
    BY <2>4 DEF Scope
  <2>7. h.scope = "other" => h.mask # {h.as - 1}
    BY <2>4 DEF Scope
  <2>8. ASSUME h.scope = "myself", k.as # 0 PROVE h.as = k.as /\ k.scope = "myself"
    <3>1. h.mask # AllMembers /\ h.mask = {h.as - 1}
      BY <2>4, <2>8 DEF Scope
    <3>2. k.as - 1 \in k.mask
      <4>1. k.as > 0
        BY <2>2, <2>8
      <4>2. Addressed(k.mask, k.as) = {k.as - 1 \in k.mask}
        BY <4>1 DEF Addressed
      <4> QED
        BY <2>4, <4>2, Zenon
    <3>3. h.as = k.as
      BY <2>2, <2>3, <3>1, <3>2
    <3> QED
      BY <2>3, <2>4, <3>1, <3>3 DEF Scope
  <2> QED
    BY <2>3, <2>5, <2>6, <2>7, <2>8
<1> QED
  BY <1>1, GroupInvariant, PTL

------------------------------------------------------------------------------
(* The promise of membership.  Tickets under way are claims of messages ... *)
LEMMA OpenIsClaimed ==
  ASSUME NEW t
  PROVE  t \in Open <=> \E o, i : (AnswerClaim(o, i) \/ LeaveClaim(o, i)) /\ t = TicketOf(o, i)
<1> DEFINE said(a) ==
             {TicketIn(m) : m \in {x \in inbox[a] : x.type \in {"TO_BE_MEMBER", "LEAVE"}}}
<1>1. t \in Open <=> \E a \in Agents : t \in said(a)
  <2>1. Open = UNION {said(a) : a \in Agents}
    BY DEF Open
  <2> HIDE DEF said
  <2> QED
    BY <2>1
<1>2. \A a : t \in said(a) <=>
        \/ \E m \in inbox[a] : m.type = "TO_BE_MEMBER" /\ t = TicketOf([term |-> m.of.term, no |-> m.no], m.id)
        \/ \E m \in inbox[a] : m.type = "LEAVE" /\ t = TicketOf(m.of, m.id)
  BY DEF TicketIn
<1> HIDE DEF said
<1>3. (\E a \in Agents : \E m \in inbox[a] :
         m.type = "TO_BE_MEMBER" /\ t = TicketOf([term |-> m.of.term, no |-> m.no], m.id))
      <=> \E o, i : AnswerClaim(o, i) /\ t = TicketOf(o, i)
  BY DEF AnswerClaim
<1>4. (\E a \in Agents : \E m \in inbox[a] : m.type = "LEAVE" /\ t = TicketOf(m.of, m.id))
      <=> \E o, i : LeaveClaim(o, i) /\ t = TicketOf(o, i)
  BY DEF LeaveClaim
<1> QED
  BY <1>1, <1>2, <1>3, <1>4

(* ... and all tickets are claims.                                         *)
LEMMA TicketsAreClaimed ==
  ASSUME NEW t
  PROVE  t \in Promise!Tickets <=> \E o, i : Claim(o, i) /\ t = TicketOf(o, i)
<1>1. t \in UNION {Holds[a] : a \in Agents} <=> \E a \in Agents : t \in Holds[a]
  OBVIOUS
<1>2. \A a \in Agents : t \in Holds[a] <=> role[a] = "member" /\ t = TicketOf(took[a], id[a])
  BY DEF Holds
<1>3. (\E a \in Agents : t \in Holds[a]) <=> \E o, i : MemberClaim(o, i) /\ t = TicketOf(o, i)
  BY <1>2 DEF MemberClaim
<1>4. t \in Promise!Tickets <=> t \in Open \/ \E a \in Agents : t \in Holds[a]
  BY <1>1 DEF Promise!Tickets
<1> QED
  BY <1>3, <1>4, OpenIsClaimed DEF Claim

(* A step opens at most one ticket.                                        *)
LEMMA OpenChanges ==
  ASSUME GroupInv, NEW a \in Agents, Change(a)
  PROVE  \/ Promise!Remain
         \/ \E o, i : NewClaim(a, o, i) /\ Open' \subseteq Promise!Tickets \cup {TicketOf(o, i)}
<1>1. \A o, i : Claim(o, i)' => Claim(o, i) \/ NewClaim(a, o, i)
  BY ClaimsChange
<1>2. \A t \in Open' : \E o, i : Claim(o, i)' /\ t = TicketOf(o, i)
  <2>1. ASSUME NEW t
        PROVE  (t \in Open <=> \E o, i : (AnswerClaim(o, i) \/ LeaveClaim(o, i)) /\ t = TicketOf(o, i))'
    BY OpenIsClaimed, PTL
  <2> QED
    BY <2>1 DEF Claim
<1>3. \A t \in Open' : t \in Promise!Tickets \/ \E o, i : NewClaim(a, o, i) /\ t = TicketOf(o, i)
  BY <1>1, <1>2, TicketsAreClaimed
<1>4. \A o, i, p, j : NewClaim(a, o, i) /\ NewClaim(a, p, j) => o = p /\ i = j
  <2> SUFFICES ASSUME NEW o, NEW i, NEW p, NEW j, NewClaim(a, o, i), NewClaim(a, p, j)
               PROVE  o = p /\ i = j
    OBVIOUS
  <2>1. BitOf(a, i) = BitOf(a, j)
    BY DEF NewClaim
  <2>2. i \in Int /\ j \in Int
    BY GroupAssumption DEF NewClaim, Ids
  <2> QED
    BY <2>1, <2>2 DEF BitOf, NewClaim
<1> QED
  BY <1>3, <1>4 DEF Promise!Remain

(* What an agent reads and holds, before and after a step.                 *)
LEMMA OthersReadAndHold ==
  ASSUME NEW a \in Agents, Change(a)
  PROVE  /\ Reads' = [Reads EXCEPT ![a] = Reads'[a]]
         /\ Holds' = [Holds EXCEPT ![a] = Holds'[a]]
<1>1. \A b \in Agents \ {a} : Reads'[b] = Reads[b] /\ Holds'[b] = Holds[b]
  BY DEF Change, Same, Reads, Holds, Agents
<1>2. Reads' = [b \in Agents |-> Reads'[b]] /\ Holds' = [b \in Agents |-> Holds'[b]]
  BY DEF Reads, Holds, Agents
<1>3. Reads = [b \in Agents |-> Reads[b]] /\ Holds = [b \in Agents |-> Holds[b]]
  BY DEF Reads, Holds
<1> QED
  BY <1>1, <1>2, <1>3

LEMMA ReadAndHoldAsBefore ==
  ASSUME NEW a \in Agents, Change(a), Reads'[a] = Reads[a], Holds'[a] = Holds[a]
  PROVE  UNCHANGED <<Reads, Holds>>
<1>1. Reads' = [Reads EXCEPT ![a] = Reads[a]] /\ Holds' = [Holds EXCEPT ![a] = Holds[a]]
  BY OthersReadAndHold
<1>2. Reads = [b \in Agents |-> Reads[b]] /\ Holds = [b \in Agents |-> Holds[b]]
  BY DEF Reads, Holds
<1> HIDE DEF Reads, Holds
<1> QED
  BY <1>1, <1>2

(* A reader gives an id that is on no good ticket of its own.              *)
LEMMA GivesATicket ==
  ASSUME GroupInv, NEW a \in Agents, Change(a), GroupTypeOK', NEW o, NEW i,
         NewClaim(a, o, i), Open' \subseteq Promise!Tickets \cup {TicketOf(o, i)}
  PROVE  Promise!Give(a)
<1>1. /\ role[a] = "reader" /\ Same(a) /\ sent' = sent + 1 /\ i \in Ids
      /\ o = [term |-> term[a], no |-> sent + 1]
      /\ list'[a] = list[a] \cup {BitOf(a, i)} /\ BitOf(a, i) \notin list[a]
  BY DEF NewClaim
<1>2. term[a] \in 1 .. terms /\ terms \in Nat /\ sent \in Nat
  BY <1>1, GroupAssumption DEF GroupInv, Known, GroupTypeOK
<1>3. Reads[a] = term[a] /\ Reads[a] # 0
  BY <1>1, <1>2 DEF Reads
<1>4. sent + 1 \in 1 .. MaxSent
  BY <1>1, <1>2, GroupAssumption DEF GroupTypeOK
<1>5. o \notin back
  <2>1. \A p \in back : p.no \in 1 .. sent
    BY DEF GroupInv, Known
  <2> QED
    BY <1>1, <1>2, <2>1
<1>6. ASSUME NEW t \in Promise!Tickets
      PROVE  /\ t.of # o
             /\ t.of.term = Reads[a] /\ Promise!Good(t) => t.id # i
  <2>1. PICK p, j : Claim(p, j) /\ t = TicketOf(p, j)
    BY TicketsAreClaimed
  <2>2. p.no \in 1 .. sent /\ t.of = p /\ t.id = j
    BY <2>1 DEF GroupInv, ClaimsKnown, TicketOf
  <2>3. t.of # o
    BY <1>1, <1>2, <2>2
  <2>4. ASSUME p.term = term[a], Held(p) PROVE j # i
    BY <1>1, <2>1, <2>4 DEF GroupInv, Listed
  <2> QED
    BY <1>3, <2>2, <2>3, <2>4 DEF Promise!Good, Held
<1>7. Open' \subseteq Promise!Tickets \cup {Promise!Ticket(o, i)}
  BY DEF TicketOf, Promise!Ticket
<1>8. UNCHANGED <<terms, Reads, Holds, left, back>>
  <2>1. terms' = terms /\ ~ Idle(a) /\ ~ NewMember(a) /\ ~ NewReader(a)
    BY <1>1, <1>2 DEF Change, Same, Idle, NewMember, NewReader
  <2>2. Reads'[a] = Reads[a] /\ Holds'[a] = Holds[a]
    BY <1>1 DEF Same, Reads, Holds, Agents
  <2>3. Reads' = Reads /\ Holds' = Holds
    BY <2>2, ReadAndHoldAsBefore
  <2>4. UNCHANGED <<left, back>>
    BY <1>1 DEF Change, Marks
  <2> QED
    BY <2>1, <2>3, <2>4
<1>9. o \in [term : {Reads[a]}, no : 1 .. MaxSent]
  BY <1>1, <1>3, <1>4
<1> QED
  BY <1>1, <1>3, <1>5, <1>6, <1>7, <1>8, <1>9 DEF Promise!Give, Ids

(* A leave that a reader obeys is a ticket it takes back or a mistake.     *)
LEMMA MarksATicket ==
  ASSUME GroupInv, NEW a \in Agents, Change(a), Promise!Remain, ~ UNCHANGED <<left, back>>
  PROVE  Promise!TakeBack(a) \/ Promise!Mistake(a)
<1>1. role[a] = "reader" /\ Same(a)
  BY DEF Change, Marks
<1>2. PICK m \in inbox[a] :
        /\ m.type = "LEAVE"
        /\ \/ left' = left \cup {term[a]} /\ back' = back
           \/ /\ m.of.term = term[a] /\ m.of \notin back
              /\ left' = left /\ back' = back \cup {m.of}
  BY DEF Change, Marks
<1>3. Reads[a] = term[a] /\ Reads[a] # 0
  BY <1>1 DEF Reads, GroupInv, Known
<1>4. UNCHANGED <<terms, Reads, Holds>>
  <2>1. terms' = terms
    <3>1. term[a] \in 1 .. terms /\ terms \in Nat
      BY <1>1 DEF GroupInv, Known, GroupTypeOK
    <3> QED
      BY <1>1, <3>1 DEF Change, Same, NewReader
  <2>2. Reads'[a] = Reads[a] /\ Holds'[a] = Holds[a]
    BY <1>1 DEF Same, Reads, Holds, Agents
  <2>3. Reads' = Reads /\ Holds' = Holds
    BY <2>2, ReadAndHoldAsBefore
  <2> QED
    BY <2>1, <2>3
<1>5. TicketOf(m.of, m.id) \in Open
  <2>1. LeaveClaim(m.of, m.id)
    BY <1>2 DEF LeaveClaim
  <2> QED
    BY <2>1, OpenIsClaimed
<1>7. CASE left' = left \cup {term[a]} /\ back' = back
  BY <1>3, <1>4, <1>5, <1>7 DEF Promise!Mistake
<1>8. CASE /\ m.of.term = term[a] /\ m.of \notin back
           /\ left' = left /\ back' = back \cup {m.of}
  <2>1. TicketOf(m.of, m.id).of = m.of
    BY DEF TicketOf
  <2> QED
    BY <1>3, <1>4, <1>5, <1>8, <2>1 DEF Promise!TakeBack
<1> QED
  BY <1>2, <1>7, <1>8

(* Every change of a group is a step the promise allows.                   *)
LEMMA ChangeRefines ==
  ASSUME GroupInv, NEW a \in Agents, Change(a), GroupTypeOK'
  PROVE  [Promise!Next]_(Promise!vars)
<1>0. term[a] \in Nat /\ terms \in Nat /\ (role[a] = "reader" => term[a] \in 1 .. terms)
  BY DEF GroupInv, Known, GroupTypeOK
<1>1. /\ Reads' = [Reads EXCEPT ![a] = Reads'[a]]
      /\ Holds' = [Holds EXCEPT ![a] = Holds'[a]]
  BY OthersReadAndHold
<1>2. /\ Reads[a] = IF role[a] = "reader" THEN term[a] ELSE 0
      /\ Reads'[a] = IF role'[a] = "reader" THEN term'[a] ELSE 0
      /\ Holds[a] = IF role[a] = "member" THEN {TicketOf(took[a], id[a])} ELSE {}
      /\ Holds'[a] = IF role'[a] = "member" THEN {TicketOf(took'[a], id'[a])} ELSE {}
  BY DEF Reads, Holds, Agents
<1>3. \/ Promise!Remain
      \/ \E o, i : NewClaim(a, o, i) /\ Open' \subseteq Promise!Tickets \cup {TicketOf(o, i)}
  BY OpenChanges
<1>4. ASSUME NEW o, NEW i, NewClaim(a, o, i), Open' \subseteq Promise!Tickets \cup {TicketOf(o, i)}
      PROVE  Promise!Next
  BY <1>4, GivesATicket DEF Promise!Next
<1>5. CASE Promise!Remain
  <2>1. CASE ~ UNCHANGED <<left, back>>
    BY <1>5, <2>1, MarksATicket DEF Promise!Next
  <2>2. CASE UNCHANGED <<left, back>> /\ NewReader(a)
    <3>1. Reads'[a] = terms + 1 /\ Holds'[a] = {} /\ terms' = terms + 1
      BY <1>2, <2>2 DEF NewReader
    <3>2. Promise!Build(a)
      BY <1>1, <1>5, <2>2, <3>1 DEF Promise!Build
    <3> QED
      BY <3>2 DEF Promise!Next
  <2>3. CASE UNCHANGED <<left, back>> /\ NewMember(a) /\ terms' = terms
    <3>1. Promise!Nothing(a) /\ Reads'[a] = Reads[a]
      BY <1>2, <2>3 DEF NewMember, Promise!Nothing
    <3>2. PICK m \in inbox[a] :
            /\ m.type = "TO_BE_MEMBER"
            /\ took'[a] = [term |-> m.of.term, no |-> m.no] /\ id'[a] = m.id
      BY <2>3 DEF NewMember
    <3>3. AnswerClaim(took'[a], id'[a])
      BY <3>2 DEF AnswerClaim
    <3>4. TicketOf(took'[a], id'[a]) \in Open /\ Holds'[a] = {TicketOf(took'[a], id'[a])}
      BY <1>2, <2>3, <3>3, OpenIsClaimed DEF NewMember
    <3>5. Reads' = Reads
      BY <1>1, <3>1 DEF Reads
    <3>6. Promise!Join(a)
      BY <1>1, <1>5, <2>3, <3>1, <3>4, <3>5 DEF Promise!Join
    <3> QED
      BY <3>6 DEF Promise!Next
  <2>4. CASE UNCHANGED <<left, back>> /\ Idle(a) /\ terms' = terms
    <3>1. Reads'[a] = 0 /\ Holds'[a] = {}
      BY <1>2, <2>4 DEF Idle
    <3>2. CASE Promise!Nothing(a)
      <4>1. Reads' = Reads /\ Holds' = Holds
        BY <3>1, <3>2, ReadAndHoldAsBefore DEF Promise!Nothing
      <4> QED
        BY <1>5, <2>4, <4>1 DEF Promise!Next, Promise!Lose
    <3>3. CASE ~ Promise!Nothing(a)
      <4>1. Promise!Leave(a)
        BY <1>1, <1>5, <2>4, <3>1, <3>3 DEF Promise!Leave
      <4> QED
        BY <4>1 DEF Promise!Next
    <3> QED
      BY <3>2, <3>3
  <2>5. CASE UNCHANGED <<left, back>> /\ Same(a) /\ terms' = terms
    <3>1. Reads'[a] = Reads[a] /\ Holds'[a] = Holds[a]
      BY <1>2, <2>5 DEF Same
    <3>2. Reads' = Reads /\ Holds' = Holds
      BY <3>1, ReadAndHoldAsBefore
    <3> QED
      BY <1>5, <2>5, <3>2 DEF Promise!Next, Promise!Lose
  <2> QED
    BY <2>1, <2>2, <2>3, <2>4, <2>5 DEF Change
<1> QED
  BY <1>3, <1>4, <1>5

(* A group in which nobody has joined has no tickets, ...                  *)
LEMMA PromiseStarts == Init => Promise!Init
<1> SUFFICES ASSUME Init PROVE Promise!Init
  OBVIOUS
<1> USE DEF Init, WireInit, AgentInit, DemoInit
<1>1. Reads = [a \in Agents |-> 0] /\ Holds = [a \in Agents |-> {}]
  BY DEF Reads, Holds
<1>2. Open = {}
  <2>1. \A o, i : ~ AnswerClaim(o, i) /\ ~ LeaveClaim(o, i)
    BY DEF AnswerClaim, LeaveClaim
  <2> QED
    BY <2>1, OpenIsClaimed
<1> QED
  BY <1>1, <1>2 DEF Promise!Init

(* ... and nothing happens to its tickets while nothing happens to it.     *)
LEMMA PromiseStutters == UNCHANGED vars => UNCHANGED Promise!vars
<1> SUFFICES ASSUME UNCHANGED vars PROVE UNCHANGED Promise!vars
  OBVIOUS
<1>1. UNCHANGED <<role, id, inbox, terms, term, took, left, back>>
  BY DEF vars, wireVars
<1>2. Reads' = Reads /\ Holds' = Holds
  BY <1>1 DEF Reads, Holds, Agents
<1>3. Open' = Open
  BY <1>1, <1>2 DEF Open, Agents
<1> QED
  BY <1>1, <1>2, <1>3 DEF Promise!vars

(* Every group keeps the promise of module Membership, whatever its network*)
(* does and whoever stops, leaves or takes over: an id is put on a new     *)
(* ticket only when no good ticket of the same reader bears it             *)
(* (communicate-execute.c:125-260, RPI0_DEMO/comGroup/main.c:101-362).     *)
THEOREM GroupRefinesMembership == Spec => RefinesMembership
<1>1. ASSUME GroupInv, Next PROVE [Promise!Next]_(Promise!vars)
  <2>1. ASSUME NEW a \in Vm, AgentStep(a), UNCHANGED <<loop, flag>>
        PROVE  [Promise!Next]_(Promise!vars)
    BY <1>1, <2>1, MachineStep, ChangeRefines DEF GroupInv, Agents
  <2>2. ASSUME NEW a \in Demo, DemoStep(a), UNCHANGED heard
        PROVE  [Promise!Next]_(Promise!vars)
    BY <1>1, <2>2, DemoStepIs, ChangeRefines DEF GroupInv, Agents
  <2> QED
    BY <1>1, <2>1, <2>2 DEF Next
<1>2. GroupInv /\ [Next]_vars => [Promise!Next]_(Promise!vars)
  BY <1>1, PromiseStutters
<1> QED
  BY <1>2, PromiseStarts, GroupInvariant, PTL DEF Spec, RefinesMembership, Promise!Spec

------------------------------------------------------------------------------
(* What the promise is worth: good tickets of one reader have ids of their *)
(* own.                                                                    *)
Apart ==
  \A t, u \in Promise!Tickets :
    t.of.term = u.of.term /\ t.id = u.id /\ Promise!Good(t) /\ Promise!Good(u) => t = u

(* Losing tickets leaves the others apart.                                 *)
LEMMA FewerStayApart ==
  ASSUME Apart, Promise!Tickets' \subseteq Promise!Tickets, left \subseteq left', back \subseteq back'
  PROVE  Apart'
BY DEF Apart, Promise!Good

(* A new ticket is apart from the good ones.                               *)
LEMMA NewIsApart ==
  ASSUME Apart, NEW a \in Agents, Promise!Give(a)
  PROVE  Apart'
<1>1. PICK o \in [term : {Reads[a]}, no : 1 .. MaxSent], i \in Ids :
        /\ \A t \in Promise!Tickets : t.of.term = Reads[a] /\ Promise!Good(t) => t.id # i
        /\ Open' \subseteq Promise!Tickets \cup {Promise!Ticket(o, i)}
  BY DEF Promise!Give
<1>2. UNCHANGED <<Holds, left, back>>
  BY DEF Promise!Give
<1> DEFINE n == Promise!Ticket(o, i)
<1>4. n.of.term = Reads[a] /\ n.id = i
  BY DEF Promise!Ticket
<1>5. \A t \in Promise!Tickets' : t \in Promise!Tickets \/ t = n
  BY <1>1, <1>2 DEF Promise!Tickets, Agents
<1> HIDE DEF n
<1> QED
  BY <1>1, <1>2, <1>4, <1>5 DEF Apart, Promise!Good

(* The other steps of an agent open no ticket.                             *)
LEMMA OthersOpenNone ==
  ASSUME NEW a \in Agents, Promise!Build(a) \/ Promise!Join(a) \/ Promise!Leave(a)
                           \/ Promise!TakeBack(a) \/ Promise!Mistake(a)
  PROVE  /\ Promise!Tickets' \subseteq Promise!Tickets
         /\ left \subseteq left' /\ back \subseteq back'
<1>1. Open' \subseteq Promise!Tickets
  BY DEF Promise!Build, Promise!Join, Promise!Leave, Promise!TakeBack, Promise!Mistake,
         Promise!Remain
<1>2. Holds = [b \in Agents |-> Holds[b]]
  BY DEF Holds
<1>3. \A b \in Agents : Holds'[b] \subseteq Promise!Tickets
  <2>1. \A b \in Agents : Holds[b] \subseteq Promise!Tickets
    BY DEF Promise!Tickets
  <2>2. Open \subseteq Promise!Tickets
    BY DEF Promise!Tickets
  <2>3. ASSUME NEW t \in Open, Holds' = [Holds EXCEPT ![a] = {t}]
        PROVE  \A b \in Agents : Holds'[b] \subseteq Promise!Tickets
    BY <1>2, <2>1, <2>2, <2>3
  <2>4. CASE Holds' = [Holds EXCEPT ![a] = {}]
    BY <1>2, <2>1, <2>4
  <2>5. CASE Holds' = Holds
    BY <2>1, <2>5
  <2> QED
    BY <2>3, <2>4, <2>5
       DEF Promise!Build, Promise!Join, Promise!Leave, Promise!TakeBack, Promise!Mistake
<1>4. left \subseteq left' /\ back \subseteq back'
  BY DEF Promise!Build, Promise!Join, Promise!Leave, Promise!TakeBack, Promise!Mistake
<1> QED
  BY <1>1, <1>3, <1>4 DEF Promise!Tickets, Agents

(* From the promise alone, whatever the agents say to each other: members  *)
(* with the same id of one reader took it from the same datagram           *)
(* (communicate-execute.c:125, 205).                                       *)
THEOREM MembershipKeepsIdsApart == RefinesMembership => []SharedIdsWereSharedAnswers
<1>1. Promise!Init => Apart
  BY DEF Promise!Init, Promise!Tickets, Apart
<1>2. ASSUME Apart, Promise!Next PROVE Apart'
  <2>1. ASSUME NEW a \in Agents, Promise!Build(a) \/ Promise!Join(a) \/ Promise!Leave(a)
                                 \/ Promise!TakeBack(a) \/ Promise!Mistake(a)
        PROVE  Apart'
    BY <1>2, <2>1, OthersOpenNone, FewerStayApart
  <2>2. ASSUME NEW a \in Agents, Promise!Give(a) PROVE Apart'
    BY <1>2, <2>2, NewIsApart
  <2>3. CASE Promise!Lose
    BY <1>2, <2>3, FewerStayApart DEF Promise!Lose, Promise!Remain, Promise!Tickets, Agents
  <2> QED
    BY <1>2, <2>1, <2>2, <2>3 DEF Promise!Next
<1>3. ASSUME Apart, UNCHANGED Promise!vars PROVE Apart'
  BY <1>3 DEF Promise!vars, Apart, Promise!Tickets, Promise!Good, Agents
<1>4. Apart /\ [Promise!Next]_(Promise!vars) => Apart'
  BY <1>2, <1>3
<1>5. Apart => Promise!Exclusive
  BY DEF Apart, Promise!Tickets, Promise!Exclusive
<1>6. Promise!Exclusive => SharedIdsWereSharedAnswers
  <2> SUFFICES ASSUME Promise!Exclusive, NEW a \in Agents, NEW b \in Agents,
                      role[a] = "member", role[b] = "member", took[a].term = took[b].term,
                      took[a].term \notin left, {took[a], took[b]} \cap back = {}, id[a] = id[b]
               PROVE  took[a] = took[b]
    BY DEF SharedIdsWereSharedAnswers
  <2> DEFINE t == TicketOf(took[a], id[a])
             u == TicketOf(took[b], id[b])
  <2>1. t \in Holds[a] /\ u \in Holds[b]
    BY DEF Holds
  <2>2. /\ t.of = took[a] /\ u.of = took[b] /\ t.id = u.id
        /\ Promise!Good(t) /\ Promise!Good(u)
    BY DEF TicketOf, Promise!Good
  <2> QED
    BY <2>1, <2>2 DEF Promise!Exclusive
<1> QED
  BY <1>1, <1>4, <1>5, <1>6, PTL DEF RefinesMembership, Promise!Spec
==============================================================================
