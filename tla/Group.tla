-------------------------------- MODULE Group --------------------------------
(***************************************************************************)
(* One wifi group of virtual machines and demonstrations.                  *)
(***************************************************************************)
EXTENDS GroupAgents, ComGroup

vars == <<wireVars, heard, loop, flag>>

Init == WireInit /\ AgentInit /\ DemoInit

Next ==
  \/ \E a \in Vm : AgentStep(a) /\ UNCHANGED <<loop, flag>>
  \/ \E a \in Demo : DemoStep(a) /\ UNCHANGED heard

\* Time passes, so the wait for an answer comes to its end; nothing else is
\* certain to happen.
Spec ==
  /\ Init /\ [][Next]_vars
  /\ \A a \in Vm : WF_vars(JoinTimeout(a) /\ UNCHANGED <<loop, flag>>)
  /\ \A a \in Demo : WF_vars(DemoBuild(a) /\ UNCHANGED heard)

------------------------------------------------------------------------------
Messages == [type : RequestTypes, no : 1 .. MaxSent, of : [term : 0 .. terms, no : 0 .. MaxSent],
             id : Ids, mask : SUBSET (0 .. 7), list : SUBSET Bits]

\* The fields have the values the code gives them: ids and lists fit their
\* eight bits although reader and member count from different numbers.
GroupTypeOK ==
  /\ role \in [Agents -> Roles]
  /\ id \in [Agents -> Ids]
  /\ list \in [Agents -> SUBSET Bits]
  /\ inbox \in [Agents -> SUBSET Messages]
  /\ sent \in 0 .. MaxSent /\ repeats \in 0 .. MaxRepeats
  /\ starts \in [Agents -> 0 .. MaxStarts]
  /\ terms \in Nat /\ term \in [Agents -> 0 .. terms] /\ left \subseteq 1 .. terms
  /\ \A o \in back : o.term \in 1 .. terms /\ o.no \in 1 .. MaxSent
  /\ took \in [Agents -> [term : 0 .. terms, no : 0 .. MaxSent]]
  /\ heard \in [Agents -> SUBSET Triggers]
  /\ loop \in [Agents -> {"groupManage", "triWifiReceive"}]
  /\ flag \in [Agents -> BOOLEAN]

\* Ids given by one reader: two members that have the same one took it from
\* the same datagram, one of them by mistake (both waited when it came).  A
\* leave undoes this for those that shared the leaver's id; where it is
\* obeyed twice or for somebody else's member, or by a virtual machine, it takes the
\* bit of another id, and that reader's ids are no longer promised.
SharedIdsWereSharedAnswers ==
  \A a, b \in Agents :
    (/\ role[a] = "member" /\ role[b] = "member"
     /\ took[a].term = took[b].term /\ took[a].term \notin left
     /\ {took[a], took[b]} \cap back = {}
     /\ id[a] = id[b]) => took[a] = took[b]

BitOf(r, i) == IF r \in Vm THEN i - 1 ELSE i

\* With the same exceptions a reader has the bit of each of its members in
\* its list, so that it gives their ids to nobody else and can hand them over.
MembersListed ==
  \A r, a \in Agents :
    (/\ role[r] = "reader" /\ role[a] = "member"
     /\ took[a].term = term[r] /\ term[r] \notin left /\ took[a] \notin back)
      => BitOf(r, id[a]) \in list[r]

\* All that hear one trigger are told the same story: it was for everybody
\* or it was not, "for me alone" is told to one id only, and "for others
\* too" only where there are others.  Only a reader that took a group over,
\* whose number 0 no bit stands for, may overhear what is for another alone.
TriggersAgree ==
  \A a, b \in Vm : \A h \in heard[a], k \in heard[b] : h.no = k.no =>
    /\ h.scope = "all" <=> k.scope = "all"
    /\ (h.scope = "myself" /\ k.as # 0) => (h.as = k.as /\ k.scope = "myself")
    /\ h.scope = "other" => h.mask # {h.as - 1}

\* "remove my id" (RPI0_DEMO/comGroup/main.c:346): who takes over a list takes
\* its own id out of it.
RemovesItsId ==
  [][\A a \in Demo : (role[a] = "member" /\ role'[a] = "reader")
       => BitOf(a, id[a]) \notin list'[a]]_vars

\* "0:reader or other: member" (executor/library/communicate-execute.c:516):
\* a trigger sent to 0 that a reader reads is a trigger for its handlers.
ZeroIsForTheReader ==
  [][\A a \in Vm : \A m \in inbox[a] :
       (role[a] = "reader" /\ m.type = "TRIGER" /\ m.mask = {} /\ m \notin inbox'[a]
          /\ role'[a] = "reader")
         => heard'[a] # heard[a]]_vars
------------------------------------------------------------------------------
(* Membership read off the agents and the network: a ticket is under way in *)
(* each copy of the answer that says it and of the leave of one who took it. *)
Reads == [a \in Agents |-> IF role[a] = "reader" THEN term[a] ELSE 0]
TicketOf(o, i) == [of |-> o, id |-> i]
Holds == [a \in Agents |-> IF role[a] = "member" THEN {TicketOf(took[a], id[a])} ELSE {}]
TicketIn(m) ==
  TicketOf(IF m.type = "LEAVE" THEN m.of ELSE [term |-> m.of.term, no |-> m.no], m.id)
Open ==
  UNION {{TicketIn(m) : m \in {x \in inbox[a] : x.type \in {"TO_BE_MEMBER", "LEAVE"}}} : a \in Agents}

Promise == INSTANCE Membership
  WITH Numbers <- 1 .. MaxSent, times <- terms, reads <- Reads, holds <- Holds, open <- Open,
       spoilt <- left, returned <- back

(* Whatever is lost, doubled, late or out of order, and whoever stops,     *)
(* leaves or takes over, agents become members by tickets a reader gave    *)
(* them and no others, and a reader puts an id on a new ticket only when no*)
(* good ticket of its own bears it, neither a member's nor one under way   *)
(* (communicate-execute.c:125-260, RPI0_DEMO/comGroup/main.c:101-362).     *)
RefinesMembership == Promise!Spec

==============================================================================
