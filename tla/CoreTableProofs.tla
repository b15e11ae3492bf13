-------------------------- MODULE CoreTableProofs --------------------------
(***************************************************************************)
(* The table of event cores keeps every core in its place, and implements  *)
(* EventCores, for every table size and every set of well-formed programs. *)
(***************************************************************************)
EXTENDS CoreTable, FiniteSetTheorems, FunctionTheorems, WellFoundedInduction, TLAPS

----------------------------------------------------------------------------
(* Ranks: the slots of a set of global events. *)

(* A set of global events is a finite set no larger than the table. *)
LEMMA TableSets ==
  ASSUME NEW S \in SUBSET GlobalIndex
  PROVE  IsFiniteSet(S) /\ Cardinality(S) \in 0 .. TableSize
<1>1. IsFiniteSet(GlobalIndex) /\ Cardinality(GlobalIndex) = TableSize
  BY FS_Interval, CoreTableAssumption DEF GlobalIndex
<1>2. IsFiniteSet(S) /\ Cardinality(S) <= TableSize
  BY <1>1, FS_Subset
<1> QED
  BY <1>2, FS_CardinalityType, CoreTableAssumption

(* A rank is a number, and that of a member is below the set's size. *)
LEMMA RankBelow ==
  ASSUME NEW S \in SUBSET GlobalIndex, NEW i \in S
  PROVE  /\ countActiveBit(i, S) \in 0 .. TableSize - 1
         /\ countActiveBit(i, S) < Cardinality(S)
<1> DEFINE Below == {j \in S : j < i}
<1>1. Below \in SUBSET S /\ i \notin Below
  BY CoreTableAssumption DEF GlobalIndex
<1>2. IsFiniteSet(S) /\ Cardinality(S) \in 0 .. TableSize
  BY TableSets
<1>3. Cardinality(Below) <= Cardinality(S) /\ Cardinality(Below) # Cardinality(S)
  BY <1>1, <1>2, FS_Subset
<1>4. Cardinality(Below) \in Nat
  BY <1>1, <1>2, FS_Subset, FS_CardinalityType
<1> QED
  BY <1>2, <1>3, <1>4, CoreTableAssumption DEF countActiveBit

(* ... so that it is a slot of the table. *)
LEMMA RankInSlots ==
  ASSUME NEW S \in SUBSET GlobalIndex, NEW i \in S
  PROVE  countActiveBit(i, S) \in Slots
<1>1. countActiveBit(i, S) \in 0 .. TableSize - 1
  BY RankBelow
<1> QED
  BY <1>1, CoreTableAssumption DEF Slots

(* Members in table order have ranks in that order. *)
LEMMA RankMonotone ==
  ASSUME NEW S \in SUBSET GlobalIndex, NEW i \in S, NEW j \in S, i < j
  PROVE  countActiveBit(i, S) < countActiveBit(j, S)
<1> DEFINE Below(k) == {x \in S : x < k}
<1>1. /\ \A x \in S : x < i => x < j
      /\ ~ (i < i)
  BY CoreTableAssumption DEF GlobalIndex
<1>2. Below(i) \in SUBSET Below(j) /\ i \in Below(j) /\ i \notin Below(i)
  BY <1>1
<1>3. IsFiniteSet(Below(i)) /\ IsFiniteSet(Below(j))
  BY TableSets DEF GlobalIndex
<1>4. Cardinality(Below(i)) <= Cardinality(Below(j))
      /\ Cardinality(Below(i)) # Cardinality(Below(j))
  BY <1>2, <1>3, FS_Subset
<1>5. Cardinality(Below(i)) \in Nat /\ Cardinality(Below(j)) \in Nat
  BY <1>3, FS_CardinalityType
<1> QED
  BY <1>4, <1>5 DEF countActiveBit

(* Two events of a state never share a slot. *)
LEMMA RankInjective ==
  ASSUME NEW S \in SUBSET GlobalIndex, NEW i \in S, NEW j \in S,
         countActiveBit(i, S) = countActiveBit(j, S)
  PROVE  i = j
<1>1. i \in Int /\ j \in Int
  BY CoreTableAssumption DEF GlobalIndex
<1>2. ~(i < j) /\ ~(j < i)
  BY RankMonotone, RankBelow
<1> QED
  BY <1>1, <1>2

(* Every slot below the size of the set is the slot of one of its events.  *)
LEMMA RankReaches ==
  ASSUME NEW S \in SUBSET GlobalIndex, NEW k \in 0 .. Cardinality(S) - 1
  PROVE  \E i \in S : countActiveBit(i, S) = k
<1> DEFINE n == Cardinality(S)
           T == 0 .. n - 1
           f == [i \in S |-> countActiveBit(i, S)]
<1>1. IsFiniteSet(S) /\ n \in Nat
  BY TableSets, CoreTableAssumption
<1> HIDE DEF n
<1>2. IsFiniteSet(T) /\ Cardinality(T) = n
  BY <1>1, FS_Interval
<1>3. \A i \in S : countActiveBit(i, S) \in T
  BY <1>1, RankBelow, CoreTableAssumption DEF n
<1>4. \A i, j \in S : countActiveBit(i, S) = countActiveBit(j, S) => i = j
  BY RankInjective
<1>5. f \in [S -> T] /\ \A i, j \in S : f[i] = f[j] => i = j
  BY <1>3, <1>4
<1> HIDE DEF f, T
<1>6. f \in Injection(S, T)
  BY <1>5, Fun_IsInj
<1>7. f \in Surjection(S, T)
  BY <1>2, <1>6, FS_Injection DEF n
<1>8. \A x \in T : \E i \in S : f[i] = x
  BY <1>7 DEF Surjection
<1> QED
  BY <1>8 DEF f, T, n

(* The bits set so far give an event its final rank, provided every event  *)
(* of the state that precedes it is among them.                            *)
LEMMA RankAgrees ==
  ASSUME NEW S, NEW T \in SUBSET S, NEW i, \A j \in S : j < i => j \in T
  PROVE  countActiveBit(i, T) = countActiveBit(i, S)
<1>1. {j \in T : j < i} = {j \in S : j < i}
  OBVIOUS
<1> QED
  BY <1>1 DEF countActiveBit

(* There is a next event to set up while any is left. *)
LEMMA NextGlobalExists ==
  ASSUME todo.globals \in SUBSET GlobalIndex, todo.globals # {}
  PROVE  NextGlobal \in todo.globals /\ \A j \in todo.globals : NextGlobal <= j
<1>1. todo.globals \subseteq Nat
  BY CoreTableAssumption DEF GlobalIndex
<1>2. PICK x \in todo.globals : \A y \in todo.globals : ~ (<<y, x>> \in OpToRel(<, Nat))
  BY <1>1, NatLessThanWellFounded, WFMin
<1>3. \A y \in todo.globals : ~ (y < x)
  BY <1>1, <1>2, Zenon DEF OpToRel
<1>4. \A y \in todo.globals : x <= y
  BY <1>1, <1>3
<1> QED
  BY <1>4 DEF NextGlobal

(* What a transition leaves at the place of an event of the next state.    *)
LEMMA MergedPlace ==
  ASSUME NEW next \in SUBSET GlobalIndex, NEW i \in next
  PROVE  Merged(next)[countActiveBit(i, next)] =
           IF i \in current
           THEN IF countActiveBit(i, current) < maxCoreSize
                THEN slots[countActiveBit(i, current)] ELSE Garbage
           ELSE nil
<1> DEFINE k == countActiveBit(i, next)
<1>1. k \in Slots
  BY RankInSlots
<1>2. (CHOOSE j \in next : countActiveBit(j, next) = k) = i
  <2>1. \A j \in next : countActiveBit(j, next) = k => j = i
    BY RankInjective
  <2> QED
    BY <2>1
<1>3. \E j \in next : countActiveBit(j, next) = k
  OBVIOUS
<1> HIDE DEF k
<1>4. Merged(next)[k] =
           IF i \in current
           THEN IF countActiveBit(i, current) < maxCoreSize
                THEN slots[countActiveBit(i, current)] ELSE Garbage
           ELSE nil
  BY <1>1, <1>2, <1>3 DEF Merged
<1> QED
  BY <1>4 DEF k

(* A transition leaves cores and empty slots. *)
LEMMA MergedTypes ==
  ASSUME NEW next \in SUBSET GlobalIndex, current \in SUBSET GlobalIndex,
         slots \in [Slots -> Cores \cup {nil}], maxCoreSize \in 0 .. MAXTHREADSIZE
  PROVE  Merged(next) \in [Slots -> Cores \cup {nil}]
<1> DEFINE copyCore(k) == IF k < maxCoreSize THEN slots[k] ELSE Garbage
           hit(k) == \E i \in next : countActiveBit(i, next) = k
           who(k) == CHOOSE j \in next : countActiveBit(j, next) = k
           size == countActiveCoreSize(next)
           there(k) == IF who(k) \in current
                       THEN copyCore(countActiveBit(who(k), current)) ELSE nil
           rest(k) == IF k \in size .. size + localCoreSize - 1
                         \/ k < maxCoreSize - prog.globalVars
                      THEN nil ELSE slots[k]
<1>1. \A k \in Slots : hit(k) => who(k) \in next
  BY Zenon
<1>2. \A i \in current : copyCore(countActiveBit(i, current)) \in Cores \cup {nil}
  <2>1. \A i \in current : countActiveBit(i, current) \in Slots
    BY RankInSlots
  <2>2. Garbage \in Cores
    BY CoreTableAssumption DEF Garbage, Cores, NoEvent
  <2> QED
    BY <2>1, <2>2
<1>3. Merged(next) = [k \in Slots |-> IF hit(k) THEN there(k) ELSE rest(k)]
  BY Zenon DEF Merged
<1>4. \A k \in Slots : there(k) \in Cores \cup {nil} /\ rest(k) \in Cores \cup {nil}
  BY <1>2
<1> HIDE DEF hit, there, rest
<1> QED
  BY <1>3, <1>4

----------------------------------------------------------------------------
(* The inductive invariant.                                                *)

H == prog.handles[state]
L == prog.locals[state]
Done == H \ todo.globals
GPlace(i) == countActiveBit(i, H)
LPlace(k) == countActiveCoreSize(H) + k - 1

Owned(k, e) == slots[k] # nil /\ slots[k].func = e /\ slots[k].var = e
Ready(k, e) == Owned(k, e) /\ slots[k].threads = state

(* Set-up goes through the global events in table order and then through   *)
(* the local ones, and the bits set are those of the events reached (all   *)
(* of the state's after a transition, which sets them beforehand).         *)
SetUpOrder ==
  /\ todo.globals \subseteq H /\ todo.local \in 1 .. L + 1
  /\ todo.globals # {} => todo.local = 1
  /\ \A i \in Done, j \in todo.globals : i < j
  /\ Done \subseteq current /\ current \subseteq H
  /\ current = H \/ state = FirstState
  /\ localCoreSize = IF at = "MKTHREAD" /\ todo.globals = {} THEN todo.local
                     ELSE todo.local - 1

(* Where each instruction finds the set-up. *)
AtInstruction ==
  /\ at = "MKCORE" => todo = AllEvents(state)
  /\ at = "COPYCORE" => todo.globals # {}
  /\ at \in {"SETCORE", "MKTHREAD"} /\ todo.globals # {} =>
       NextGlobal \in current /\ GCoreIndex = GPlace(NextGlobal)
  /\ at \in {"SETCORE", "MKTHREAD"} /\ todo.globals = {} => todo.local <= L
  /\ at = "MKTHREAD" /\ todo.globals # {} => Owned(GCoreIndex, Global(NextGlobal))
  /\ at = "SETCORE" /\ todo.globals # {} => slots[GCoreIndex] = nil
  /\ at = "MKTHREAD" /\ todo.globals = {} =>
       GCoreIndex = LPlace(todo.local) /\ Owned(GCoreIndex, Local(todo.local))
       /\ slots[GCoreIndex].ticks = 0
  /\ at \in {"ENTRY", "LOOP"} => todo.globals = {} /\ todo.local = L + 1

(* The cores of the events reached are ready; a core found at the place of *)
(* an event yet to come is that event's.                                   *)
CoresKept ==
  /\ \A i \in H : slots[GPlace(i)] # nil => Owned(GPlace(i), Global(i))
  /\ \A i \in Done : Ready(GPlace(i), Global(i))
  /\ \A k \in 1 .. todo.local - 1 : Ready(LPlace(k), Local(k))

(* The copy a transition takes of the table reaches the state's cores.     *)
CopyReaches ==
  /\ at = "LOOP" => maxCoreSize = countActiveCoreSize(current) + L
  /\ at # "MKCORE" /\ state # FirstState /\ H # {} =>
       countActiveCoreSize(H) <= maxCoreSize

IInv == CoreTypeOK /\ SetUpOrder /\ AtInstruction /\ CoresKept /\ CopyReaches

AllWellFormed == \A p \in Programs : WellFormed(p)

(* What a program's fields are. *)
LEMMA ProgramFields ==
  ASSUME prog \in Programs, NEW s \in States
  PROVE  /\ prog.handles[s] \in SUBSET GlobalIndex
         /\ prog.locals[s] \in 0 .. MaxLocals
         /\ prog.entryInits[s] \in SUBSET Events
         /\ prog.globalVars \in Nat
<1>1. prog \in ProgramShape
  BY CoreTableAssumption
<1> QED
  BY <1>1 DEF ProgramShape

(* The places of a state's events are slots of the table, no two the same. *)
LEMMA Places ==
  ASSUME H \in SUBSET GlobalIndex, L \in 0 .. MaxLocals
  PROVE  /\ countActiveCoreSize(H) \in 0 .. TableSize
         /\ \A i \in H : /\ GPlace(i) \in Slots
                         /\ GPlace(i) \in 0 .. countActiveCoreSize(H) - 1
         /\ \A i, j \in H : GPlace(i) = GPlace(j) => i = j
         /\ \A k \in 1 .. L : /\ LPlace(k) \in Slots
                              /\ LPlace(k) \in Nat /\ LPlace(k) >= countActiveCoreSize(H)
<1> DEFINE S == H
<1>0. S \in SUBSET GlobalIndex
  OBVIOUS
<1> HIDE DEF S
<1>1. countActiveCoreSize(S) \in 0 .. TableSize
  BY <1>0, TableSets DEF countActiveCoreSize
<1>2. \A i \in S : /\ countActiveBit(i, S) \in Slots
                   /\ countActiveBit(i, S) \in 0 .. countActiveCoreSize(S) - 1
  <2> TAKE i \in S
  <2>1. countActiveBit(i, S) \in Slots
    BY <1>0, RankInSlots
  <2>2. /\ countActiveBit(i, S) \in 0 .. TableSize - 1
        /\ countActiveBit(i, S) < countActiveCoreSize(S)
    BY <1>0, RankBelow DEF countActiveCoreSize
  <2> QED
    BY <2>1, <2>2, <1>1, CoreTableAssumption
<1>3. \A i, j \in S : countActiveBit(i, S) = countActiveBit(j, S) => i = j
  BY <1>0, RankInjective
<1>4. \A k \in 1 .. L : /\ countActiveCoreSize(S) + k - 1 \in Slots
                        /\ countActiveCoreSize(S) + k - 1 \in Nat
                        /\ countActiveCoreSize(S) + k - 1 >= countActiveCoreSize(S)
  BY <1>1, CoreTableAssumption DEF Slots
<1> QED
  BY <1>1, <1>2, <1>3, <1>4 DEF S, GPlace, LPlace

(* The same, read off the invariant. *)
LEMMA InvPlaces ==
  ASSUME CoreTypeOK
  PROVE  /\ H \in SUBSET GlobalIndex /\ L \in 0 .. MaxLocals
         /\ countActiveCoreSize(H) \in 0 .. TableSize
         /\ \A i \in H : /\ GPlace(i) \in Slots
                         /\ GPlace(i) \in 0 .. countActiveCoreSize(H) - 1
         /\ \A i, j \in H : GPlace(i) = GPlace(j) => i = j
         /\ \A k \in 1 .. L : /\ LPlace(k) \in Slots
                              /\ LPlace(k) \in Nat /\ LPlace(k) >= countActiveCoreSize(H)
<1>1. H \in SUBSET GlobalIndex /\ L \in 0 .. MaxLocals
  BY ProgramFields DEF CoreTypeOK, H, L
<1> QED
  BY <1>1, Places

(* The invariant holds before the first state is set up, ...               *)
LEMMA InitInv == Init => IInv
<1> SUFFICES ASSUME Init PROVE IInv
  OBVIOUS
<1>1. H \in SUBSET GlobalIndex /\ L \in 0 .. MaxLocals
  BY ProgramFields, CoreTableAssumption DEF Init, H, L
<1>2. todo.globals = H /\ todo.local = 1
  BY DEF Init, AllEvents, H
<1>3. CoreTypeOK
  BY <1>1, CoreTableAssumption DEF Init, CoreTypeOK, AllEvents, H, Instructions, Slots
<1>4. \A i \in H : slots[GPlace(i)] = nil
  BY <1>1, Places DEF Init
<1>5. Done = {}
  BY <1>2 DEF Done
<1>6. SetUpOrder /\ AtInstruction
  BY <1>1, <1>2, <1>5 DEF Init, SetUpOrder, AtInstruction
<1>7. CoresKept /\ CopyReaches
  BY <1>2, <1>4, <1>5 DEF Init, CoresKept, CopyReaches
<1> QED
  BY <1>3, <1>6, <1>7 DEF IInv

(* ... and is preserved by MKCORE, ...                                     *)
LEMMA MkCoreStep == IInv /\ MkCore => IInv'
<1> SUFFICES ASSUME IInv, MkCore PROVE IInv'
  OBVIOUS
<1> USE DEF IInv
<1>1. H' = H /\ L' = L /\ Done' = Done
  BY DEF MkCore, H, L, Done
<1>2. at' \in {"COPYCORE", "SETCORE", "ENTRY"} /\ todo = AllEvents(state)
  BY DEF MkCore, SetUpFrom, AtInstruction
<1>3. todo.globals = H /\ todo.local = 1 /\ Done = {}
  BY <1>2 DEF AllEvents, Done, H
<1>4. countActiveCoreSize(current) \in 0 .. TableSize
  BY TableSets DEF countActiveCoreSize, CoreTypeOK
<1>5. CoreTypeOK'
  BY <1>2, <1>4, CoreTableAssumption DEF MkCore, CoreTypeOK, Instructions, Slots
<1>6. SetUpOrder'
  BY <1>1, <1>2 DEF MkCore, SetUpOrder
<1>7. AtInstruction'
  BY <1>1, <1>2, <1>3, InvPlaces DEF MkCore, AtInstruction, SetUpFrom, L
<1>8. CoresKept'
  BY <1>1 DEF MkCore, CoresKept, Owned, Ready, GPlace, LPlace
<1>9. CopyReaches'
  BY <1>1, <1>2, <1>3, <1>4 DEF MkCore, CopyReaches, SetUpFrom, SetUpOrder
<1> QED
  BY <1>5, <1>6, <1>7, <1>8, <1>9

(* The event that is set up next has its final rank already. *)
LEMMA NextRank ==
  ASSUME CoreTypeOK, SetUpOrder, todo.globals # {}
  PROVE  /\ NextGlobal \in todo.globals /\ NextGlobal \in H
         /\ \A j \in todo.globals : NextGlobal <= j
         /\ countActiveBit(NextGlobal, current) = GPlace(NextGlobal)
<1>1. NextGlobal \in todo.globals /\ \A j \in todo.globals : NextGlobal <= j
  BY NextGlobalExists DEF CoreTypeOK
<1>2. \A j \in H : j < NextGlobal => j \in current
  <2>1. \A j \in H : j \in Int
    BY InvPlaces, CoreTableAssumption DEF GlobalIndex
  <2> QED
    BY <1>1, <2>1 DEF SetUpOrder, Done
<1>3. countActiveBit(NextGlobal, current) = countActiveBit(NextGlobal, H)
  BY <1>2, RankAgrees DEF SetUpOrder
<1> QED
  BY <1>1, <1>3 DEF SetUpOrder, GPlace

(* ... by COPYCORE, which finds a core of its event in its place or makes  *)
(* none, ...                                                               *)
LEMMA CopyCoreStep == IInv /\ CopyCore => IInv'
<1> SUFFICES ASSUME IInv, CopyCore PROVE IInv'
  OBVIOUS
<1> USE DEF IInv
<1>1. H' = H /\ L' = L /\ Done' = Done /\ todo.globals # {} /\ NextGlobal' = NextGlobal
  BY DEF CopyCore, H, L, Done, AtInstruction, NextGlobal
<1>2. NextGlobal \in H /\ GCoreIndex' = GPlace(NextGlobal) /\ GPlace(NextGlobal) \in Slots
  BY <1>1, NextRank, InvPlaces DEF CopyCore
<1>3. CoreTypeOK'
  BY <1>2, InvPlaces DEF CopyCore, CoreTypeOK, Instructions
<1>4. SetUpOrder'
  BY <1>1, <1>2 DEF CopyCore, SetUpOrder
<1>5. at' = "MKTHREAD" => Owned(GCoreIndex, Global(NextGlobal))'
  BY <1>1, <1>2 DEF CopyCore, CoresKept, Owned
<1>6. AtInstruction'
  BY <1>1, <1>2, <1>5 DEF CopyCore, AtInstruction, GPlace
<1>7. CoresKept'
  BY <1>1 DEF CopyCore, CoresKept, Owned, Ready, GPlace, LPlace
<1>8. CopyReaches'
  BY <1>1 DEF CopyCore, CopyReaches
<1> QED
  BY <1>3, <1>4, <1>6, <1>7, <1>8

(* A new core is no empty slot, and belongs to its event. *)
LEMMA NewCoreFits ==
  ASSUME NEW e \in Events
  PROVE  /\ NewCore(e) \in Cores /\ NewCore(e) # nil
         /\ NewCore(e).func = e /\ NewCore(e).var = e /\ NewCore(e).ticks = 0
<1>1. NewCore(e) \in Cores
  BY CoreTableAssumption DEF NewCore, Cores
<1> QED
  BY <1>1, NilAssumption DEF NewCore

(* ... by SETCORE for a global event ...                                   *)
LEMMA SetGlobalCoreStep == IInv /\ SetGlobalCore => IInv'
<1> SUFFICES ASSUME IInv, SetGlobalCore PROVE IInv'
  OBVIOUS
<1> USE DEF IInv
<1>1. H' = H /\ L' = L /\ Done' = Done /\ todo.globals # {} /\ NextGlobal' = NextGlobal
  BY DEF SetGlobalCore, H, L, Done, NextGlobal
<1>2. NextGlobal \in todo.globals /\ NextGlobal \in H
  BY <1>1, NextRank
<1>3. GCoreIndex = GPlace(NextGlobal) /\ GCoreIndex \in Slots /\ todo.local = 1
  BY <1>1, <1>2, InvPlaces DEF SetGlobalCore, AtInstruction, SetUpOrder
<1> DEFINE new == NewCore(Global(NextGlobal))
<1>4. Global(NextGlobal) \in Events
  BY <1>2, InvPlaces DEF Events
<1>5. new \in Cores /\ new # nil /\ new.func = Global(NextGlobal) /\ new.var = Global(NextGlobal)
  BY <1>4, NewCoreFits
<1>6. slots' = [slots EXCEPT ![GCoreIndex] = new]
  BY DEF SetGlobalCore
<1> HIDE DEF new
<1>7. CoreTypeOK'
  BY <1>3, <1>5, <1>6 DEF SetGlobalCore, CoreTypeOK, Instructions
<1>8. SetUpOrder'
  BY <1>1 DEF SetGlobalCore, SetUpOrder
<1>9. /\ slots'[GCoreIndex] = new
      /\ \A i \in H : i # NextGlobal => slots'[GPlace(i)] = slots[GPlace(i)]
  BY <1>2, <1>3, <1>6, InvPlaces DEF CoreTypeOK
<1>10. AtInstruction'
  BY <1>1, <1>3, <1>5, <1>9 DEF SetGlobalCore, AtInstruction, GPlace, Owned
<1>11. CoresKept'
  BY <1>1, <1>2, <1>3, <1>5, <1>9 DEF SetGlobalCore, CoresKept, Owned, Ready, GPlace, LPlace, Done
<1>12. CopyReaches'
  BY <1>1 DEF SetGlobalCore, CopyReaches
<1> QED
  BY <1>7, <1>8, <1>10, <1>11, <1>12

(* ... and for a local one, ...                                            *)
LEMMA SetLocalCoreStep == IInv /\ SetLocalCore => IInv'
<1> SUFFICES ASSUME IInv, SetLocalCore PROVE IInv'
  OBVIOUS
<1> USE DEF IInv
<1>1. H' = H /\ L' = L /\ Done' = Done /\ todo.globals = {}
  BY DEF SetLocalCore, H, L, Done
<1>2. Done = H /\ current = H
  BY <1>1 DEF Done, SetUpOrder
<1>3. /\ todo.local \in 1 .. L /\ localCoreSize = todo.local - 1
      /\ todo.local \in 1 .. MaxLocals
  <2>1. todo.local \in 1 .. L /\ localCoreSize = todo.local - 1
    BY <1>1, InvPlaces DEF SetLocalCore, SetUpOrder, AtInstruction
  <2> QED
    BY <2>1, InvPlaces, CoreTableAssumption
<1>4. GCoreIndex' = LPlace(todo.local) /\ GCoreIndex' \in Slots
  BY <1>2, <1>3, InvPlaces DEF SetLocalCore, LPlace
<1> DEFINE new == NewCore(Local(todo.local))
<1>5. new \in Cores /\ new # nil /\ new.func = Local(todo.local) /\ new.var = Local(todo.local)
      /\ new.ticks = 0
  <2>1. Local(todo.local) \in Events
    BY <1>3, InvPlaces DEF Events
  <2> QED
    BY <2>1, NewCoreFits
<1>6. slots' = [slots EXCEPT ![GCoreIndex'] = new]
  BY DEF SetLocalCore
<1> HIDE DEF new
<1>7. CoreTypeOK'
  <2>1. localCoreSize' \in 0 .. MaxLocals
    BY <1>3, CoreTableAssumption DEF SetLocalCore
  <2>2. slots' \in [Slots -> Cores \cup {nil}]
    BY <1>4, <1>5, <1>6 DEF CoreTypeOK
  <2> QED
    BY <1>4, <2>1, <2>2 DEF SetLocalCore, CoreTypeOK, Instructions
<1>8. SetUpOrder'
  BY <1>1, <1>3 DEF SetLocalCore, SetUpOrder
<1>9. /\ slots'[GCoreIndex'] = new
      /\ \A i \in H : slots'[GPlace(i)] = slots[GPlace(i)]
      /\ \A k \in 1 .. todo.local - 1 : slots'[LPlace(k)] = slots[LPlace(k)]
  <2>1. \A i \in H : GPlace(i) \in Slots /\ GPlace(i) # LPlace(todo.local)
    BY <1>3, InvPlaces
  <2>2. \A k \in 1 .. todo.local - 1 : LPlace(k) \in Slots /\ LPlace(k) # LPlace(todo.local)
    BY <1>3, InvPlaces DEF LPlace
  <2> QED
    BY <1>4, <1>6, <2>1, <2>2 DEF CoreTypeOK
<1>10. AtInstruction'
  BY <1>1, <1>3, <1>4, <1>5, <1>9 DEF SetLocalCore, AtInstruction, LPlace, Owned
<1>11. CoresKept'
  <2>1. \A i \in H' : slots'[GPlace(i)'] = slots[GPlace(i)]
    BY <1>1, <1>9 DEF GPlace
  <2>2. todo' = todo /\ \A k \in 1 .. todo.local - 1 : slots'[LPlace(k)'] = slots[LPlace(k)]
    BY <1>1, <1>9 DEF SetLocalCore, LPlace
  <2>3. state' = state /\ Done \subseteq H
    BY DEF SetLocalCore, Done
  <2> QED
    BY <1>1, <2>1, <2>2, <2>3 DEF CoresKept, Owned, Ready
<1>12. CopyReaches'
  BY <1>1 DEF SetLocalCore, CopyReaches
<1> QED
  BY <1>7, <1>8, <1>10, <1>11, <1>12

(* A change of one core's threads, var or counter, seen from its place. *)
LEMMA OneCoreChanges ==
  ASSUME NEW k \in Slots, slots \in [Slots -> Cores \cup {nil}], slots[k] # nil,
         NEW new \in Cores, slots' = [slots EXCEPT ![k] = new]
  PROVE  /\ slots' \in [Slots -> Cores \cup {nil}]
         /\ slots'[k] = new /\ new # nil
         /\ \A j \in Slots : j # k => slots'[j] = slots[j]
  BY NilAssumption

(* The core a set-up has just put in its slot gets this state's threads. *)
LEMMA MkThreadCore ==
  ASSUME IInv, MkThread
  PROVE  /\ GCoreIndex \in Slots /\ slots[GCoreIndex] \in Cores /\ slots[GCoreIndex] # nil
         /\ slots' = [slots EXCEPT ![GCoreIndex] = [slots[GCoreIndex] EXCEPT !.threads = state]]
         /\ slots' \in [Slots -> Cores \cup {nil}]
         /\ slots'[GCoreIndex] # nil
         /\ slots'[GCoreIndex].func = slots[GCoreIndex].func
         /\ slots'[GCoreIndex].var = slots[GCoreIndex].var
         /\ slots'[GCoreIndex].ticks = slots[GCoreIndex].ticks
         /\ slots'[GCoreIndex].threads = state
         /\ \A j \in Slots : j # GCoreIndex => slots'[j] = slots[j]
<1> USE DEF IInv
<1>1. /\ GCoreIndex \in Slots /\ slots[GCoreIndex] \in Cores
      /\ slots[GCoreIndex] # nil /\ state \in States
  BY DEF MkThread, AtInstruction, Owned, CoreTypeOK
<1> DEFINE old == slots[GCoreIndex]
           new == [old EXCEPT !.threads = state]
<1>2. /\ new \in Cores /\ new.func = old.func /\ new.var = old.var
      /\ new.ticks = old.ticks /\ new.threads = state
  BY <1>1 DEF Cores
<1>3. slots' = [slots EXCEPT ![GCoreIndex] = new]
  BY DEF MkThread
<1> HIDE DEF new
<1>4. /\ slots' \in [Slots -> Cores \cup {nil}] /\ slots'[GCoreIndex] = new /\ new # nil
      /\ \A j \in Slots : j # GCoreIndex => slots'[j] = slots[j]
  BY <1>1, <1>2, <1>3, OneCoreChanges DEF CoreTypeOK
<1> QED
  BY <1>1, <1>2, <1>3, <1>4 DEF new

(* ... by MKTHREAD for a global event ...                                  *)
LEMMA MkThreadGlobal == IInv /\ MkThread /\ todo.globals # {} => IInv'
<1> SUFFICES ASSUME IInv, MkThread, todo.globals # {} PROVE IInv'
  OBVIOUS
<1> USE DEF IInv
<1>0. PICK N : N = NextGlobal
  OBVIOUS
<1>1. /\ N \in todo.globals /\ N \in H /\ \A j \in todo.globals : N <= j
      /\ todo.globals \subseteq Int
  BY <1>0, NextRank, InvPlaces, CoreTableAssumption DEF GlobalIndex, SetUpOrder
<1>2. /\ GCoreIndex = GPlace(N) /\ N \in current /\ Owned(GCoreIndex, Global(N))
      /\ todo.local = 1 /\ localCoreSize = 0
  BY <1>0 DEF MkThread, AtInstruction, SetUpOrder
<1>3. todo' = [globals |-> todo.globals \ {N}, local |-> 1] /\ H' = H /\ L' = L
  BY <1>0, <1>2 DEF MkThread, CoreTypeOK, H, L
<1>4. Done' = Done \cup {N}
  BY <1>1, <1>3 DEF Done
<1>5. /\ at' = IF todo'.globals # {} THEN "COPYCORE" ELSE IF 1 <= L THEN "SETCORE" ELSE "ENTRY"
      /\ state' = state
  BY <1>3 DEF MkThread, SetUpFrom, L
<1>6. CoreTypeOK'
  BY <1>1, <1>3, <1>5, MkThreadCore DEF MkThread, CoreTypeOK, Instructions
<1>7. SetUpOrder'
  <2>1. \A i \in Done', j \in todo'.globals : i < j
    BY <1>1, <1>3, <1>4 DEF SetUpOrder
  <2> QED
    BY <1>1, <1>2, <1>3, <1>4, <1>5, <2>1, InvPlaces DEF MkThread, SetUpOrder
<1>8. AtInstruction'
  BY <1>3, <1>5, InvPlaces DEF AtInstruction
<1>9. CoresKept'
  <2>1. \A i \in H : GPlace(i)' = GPlace(i) /\ GPlace(i) \in Slots
                    /\ (GPlace(i) = GPlace(N) => i = N)
    BY <1>1, <1>3, InvPlaces DEF GPlace
  <2>2. \A i \in H : i # N => slots'[GPlace(i)] = slots[GPlace(i)]
    BY <1>2, <2>1, MkThreadCore
  <2>3. /\ slots'[GPlace(N)] # nil /\ slots'[GPlace(N)].threads = state
        /\ slots'[GPlace(N)].func = Global(N) /\ slots'[GPlace(N)].var = Global(N)
    BY <1>2, MkThreadCore DEF Owned
  <2>4. \A i \in H' : (slots[GPlace(i)] # nil => Owned(GPlace(i), Global(i)))'
    BY <1>3, <2>1, <2>2, <2>3 DEF CoresKept, Owned
  <2>5. \A i \in Done' : Ready(GPlace(i), Global(i))'
    <3> TAKE i \in Done'
    <3>1. CASE i = N
      BY <1>1, <1>5, <2>1, <2>3, <3>1 DEF Ready, Owned
    <3>2. CASE i # N
      BY <1>4, <1>5, <2>1, <2>2, <3>2 DEF CoresKept, Ready, Owned, Done
    <3> QED
      BY <3>1, <3>2
  <2> QED
    BY <1>3, <2>4, <2>5 DEF CoresKept
<1>10. CopyReaches'
  BY <1>3, <1>5 DEF MkThread, CopyReaches
<1> QED
  BY <1>6, <1>7, <1>8, <1>9, <1>10

(* ... and for a local one, ...                                            *)
LEMMA MkThreadLocal == IInv /\ MkThread /\ todo.globals = {} => IInv'
<1> SUFFICES ASSUME IInv, MkThread, todo.globals = {} PROVE IInv'
  OBVIOUS
<1> USE DEF IInv
<1>0. PICK k : k = todo.local
  OBVIOUS
<1>1. /\ k \in 1 .. L /\ k \in 1 .. MaxLocals /\ GCoreIndex = LPlace(k)
      /\ Owned(GCoreIndex, Local(k)) /\ localCoreSize = k
  <2>1. /\ k \in 1 .. L /\ GCoreIndex = LPlace(k)
        /\ Owned(GCoreIndex, Local(k)) /\ localCoreSize = k
    BY <1>0, InvPlaces DEF MkThread, AtInstruction, SetUpOrder
  <2> QED
    BY <2>1, InvPlaces, CoreTableAssumption
<1>2. /\ todo' = [globals |-> {}, local |-> k + 1] /\ H' = H /\ L' = L
      /\ Done' = Done /\ state' = state
  BY <1>0 DEF MkThread, CoreTypeOK, H, L, Done
<1>3. at' = IF k + 1 <= L THEN "SETCORE" ELSE "ENTRY"
  BY <1>2 DEF MkThread, SetUpFrom, L
<1>4. CoreTypeOK'
  BY <1>1, <1>2, <1>3, MkThreadCore, CoreTableAssumption DEF MkThread, CoreTypeOK, Instructions
<1>5. SetUpOrder'
  BY <1>1, <1>2, <1>3, InvPlaces DEF MkThread, SetUpOrder
<1>6. AtInstruction'
  BY <1>1, <1>2, <1>3, InvPlaces DEF AtInstruction
<1>7. CoresKept'
  <2>1. \A i \in H : GPlace(i)' = GPlace(i) /\ slots'[GPlace(i)] = slots[GPlace(i)]
    <3>1. \A i \in H : GPlace(i) \in Slots /\ GPlace(i) # LPlace(k)
      BY <1>1, InvPlaces
    <3> QED
      BY <1>1, <1>2, <3>1, MkThreadCore DEF GPlace
  <2>2. \A j \in 1 .. k : LPlace(j)' = LPlace(j)
    BY <1>2 DEF LPlace
  <2>3. \A j \in 1 .. k - 1 : slots'[LPlace(j)] = slots[LPlace(j)]
    <3>1. \A j \in 1 .. k - 1 : LPlace(j) \in Slots /\ LPlace(j) # LPlace(k)
      BY <1>1, InvPlaces DEF LPlace
    <3> QED
      BY <1>1, <3>1, MkThreadCore
  <2>4. Ready(LPlace(k), Local(k))'
    BY <1>1, <1>2, <2>2, MkThreadCore DEF Ready, Owned
  <2>5. \A j \in 1 .. k - 1 : Ready(LPlace(j), Local(j))
    BY <1>0 DEF CoresKept
  <2>6. \A j \in 1 .. k : Ready(LPlace(j), Local(j))'
    <3> TAKE j \in 1 .. k
    <3>1. CASE j = k
      BY <2>4, <3>1
    <3>2. CASE j # k
      BY <1>1, <1>2, <2>2, <2>3, <2>5, <3>2 DEF Ready, Owned
    <3> QED
      BY <3>1, <3>2
  <2>7. Done \subseteq H
    BY DEF Done
  <2> QED
    BY <1>1, <1>2, <2>1, <2>6, <2>7 DEF CoresKept, Owned, Ready
<1>8. CopyReaches'
  BY <1>2, <1>3 DEF MkThread, CopyReaches
<1> QED
  BY <1>4, <1>5, <1>6, <1>7, <1>8

(* After the set-up every event of the state is ready. *)
LEMMA SetUpDone ==
  ASSUME IInv, at \in {"ENTRY", "LOOP"}
  PROVE  /\ current = H /\ Done = H /\ todo.globals = {} /\ todo.local = L + 1
         /\ localCoreSize = L
         /\ \A i \in H : Ready(GPlace(i), Global(i))
         /\ \A k \in 1 .. L : Ready(LPlace(k), Local(k))
<1> USE DEF IInv
<1>1. todo.globals = {} /\ todo.local = L + 1
  BY DEF AtInstruction
<1>2. Done = H
  BY <1>1 DEF Done
<1>3. todo.local - 1 = L
  BY <1>1, InvPlaces, CoreTableAssumption
<1>4. current = H /\ localCoreSize = L
  BY <1>1, <1>2, <1>3 DEF SetUpOrder
<1>5. /\ \A i \in H : Ready(GPlace(i), Global(i))
      /\ \A k \in 1 .. L : Ready(LPlace(k), Local(k))
  BY <1>2, <1>3 DEF CoresKept
<1> QED
  BY <1>1, <1>2, <1>4, <1>5

(* What `init' finds in a well-formed program: the event's own core. *)
LEMMA InitPlace ==
  ASSUME IInv, at = "ENTRY", AllWellFormed, NEW e \in prog.entryInits[state]
  PROVE  \/ \E i \in H : /\ e = Global(i) /\ e.scope = "global" /\ e.index = i
                         /\ countActiveBit(e.index, current) = GPlace(i)
         \/ \E k \in 1 .. L : /\ e = Local(k) /\ e.scope = "local" /\ e.index = k
                              /\ countActiveCoreSize(current) + binaryToIndex(e.index) = LPlace(k)
<1> USE DEF IInv
<1>1. /\ prog \in Programs /\ state \in States /\ e \in Events /\ current = H
      /\ L \in 0 .. MaxLocals /\ countActiveCoreSize(H) \in Nat
  <2>1. prog \in Programs /\ state \in States
    BY DEF CoreTypeOK
  <2>2. e \in Events
    BY <2>1, ProgramFields
  <2> QED
    BY <2>1, <2>2, SetUpDone, InvPlaces, CoreTableAssumption
<1>2. IF e.scope = "global" THEN e.index \in H ELSE e.index <= L
  BY <1>1 DEF AllWellFormed, WellFormed, H, L
<1>3. CASE e \in {Global(i) : i \in GlobalIndex}
  BY <1>1, <1>2, <1>3 DEF Global, GPlace
<1>4. CASE e \in {Local(k) : k \in 1 .. MaxLocals}
  <2>1. PICK k \in 1 .. MaxLocals : e = Local(k)
    BY <1>4
  <2>2. e.scope = "local" /\ e.index = k
    BY <2>1 DEF Local
  <2>3. k \in 1 .. L
    BY <1>1, <1>2, <2>2, CoreTableAssumption
  <2>4. binaryToIndex(k) = k - 1
    BY <1>1, <2>3 DEF AllWellFormed, WellFormed, L, binaryToIndex
  <2> QED
    BY <1>1, <2>1, <2>2, <2>3, <2>4 DEF LPlace
<1> QED
  BY <1>1, <1>3, <1>4 DEF Events

(* `init' changes the var and the counter of the core of event e, and      *)
(* nothing else.                                                           *)
LEMMA EntryInitCore ==
  ASSUME IInv, AllWellFormed, NEW e \in prog.entryInits[state], EntryInit(e)
  PROVE  \E k \in Slots :
           /\ \/ \E i \in H : e = Global(i) /\ k = GPlace(i)
              \/ \E n \in 1 .. L : e = Local(n) /\ k = LPlace(n)
           /\ slots' \in [Slots -> Cores \cup {nil}]
           /\ slots[k] # nil /\ slots'[k] # nil
           /\ slots[k].func = e /\ slots'[k].func = e /\ slots'[k].var = e
           /\ slots'[k].threads = slots[k].threads /\ slots'[k].ticks = 0
           /\ \A j \in Slots : j # k => slots'[j] = slots[j]
           /\ current' = current
<1> DEFINE index == IF e.scope = "global" THEN countActiveBit(e.index, current)
                    ELSE countActiveCoreSize(current) + binaryToIndex(e.index)
<1>1. at = "ENTRY" /\ CoreTypeOK
  BY DEF EntryInit, IInv
<1>2. /\ \/ \E i \in H : e = Global(i) /\ index = GPlace(i)
         \/ \E n \in 1 .. L : e = Local(n) /\ index = LPlace(n)
      /\ index \in Slots
  BY <1>1, InitPlace, InvPlaces
<1>3. Ready(index, e)
  BY <1>1, <1>2, SetUpDone
<1>4. slots' = IF slots[index] = nil THEN slots
               ELSE [slots EXCEPT ![index] =
                       [func |-> @.func, var |-> e, ticks |-> 0, threads |-> @.threads]]
  BY DEF EntryInit
<1>5. current' = current
  <2>1. e.scope = "global" => e.index \in current
    BY <1>1, InitPlace, SetUpDone DEF Local
  <2> QED
    BY <2>1 DEF EntryInit
<1> HIDE DEF index
<1> DEFINE old == slots[index]
           new == [func |-> old.func, var |-> e, ticks |-> 0, threads |-> old.threads]
<1>6. old \in Cores /\ old # nil /\ old.func = e
  BY <1>1, <1>2, <1>3 DEF Ready, Owned, CoreTypeOK
<1>7. e \in Events
  BY <1>1, ProgramFields DEF CoreTypeOK
<1>8. /\ new \in Cores /\ new.func = e /\ new.var = e /\ new.ticks = 0
      /\ new.threads = old.threads
  <2> HIDE DEF old
  <2>1. new = [func |-> old.func, var |-> e, ticks |-> 0, threads |-> old.threads]
    OBVIOUS
  <2>2. old.func \in Events \cup {NoEvent} /\ old.threads \in States \cup {nil}
    BY <1>6 DEF Cores
  <2>3. 0 \in 0 .. MaxTicks
    BY CoreTableAssumption
  <2> HIDE DEF new
  <2>4. new \in Cores
    BY <2>1, <2>2, <2>3, <1>7 DEF Cores
  <2> QED
    BY <1>6, <2>1, <2>4
<1>9. slots' = [slots EXCEPT ![index] = new]
  BY <1>4, <1>6
<1> HIDE DEF new
<1>10. /\ slots' \in [Slots -> Cores \cup {nil}] /\ slots'[index] = new /\ new # nil
       /\ \A j \in Slots : j # index => slots'[j] = slots[j]
  BY <1>1, <1>2, <1>6, <1>8, <1>9, OneCoreChanges DEF CoreTypeOK
<1> QED
  BY <1>2, <1>5, <1>6, <1>8, <1>10

(* A step that leaves each core where it is, its event's and with the same *)
(* threads, keeps the cores of the state in place.                         *)
LEMMA CoresStay ==
  ASSUME IInv, UNCHANGED <<prog, state, todo>>,
         \A j \in Slots : slots[j] # nil =>
           /\ slots'[j] # nil
           /\ slots'[j].func = slots[j].func
           /\ slots'[j].var = slots[j].var \/ slots'[j].var = slots[j].func
           /\ slots'[j].threads = slots[j].threads,
         \A j \in Slots : slots[j] = nil => slots'[j] = nil
  PROVE  CoresKept'
<1> USE DEF IInv
<1>1. H' = H /\ L' = L /\ Done' = Done /\ Done \subseteq H
  BY DEF H, L, Done
<1>2. /\ \A i \in H : GPlace(i)' = GPlace(i) /\ GPlace(i) \in Slots
      /\ \A k \in 1 .. L : LPlace(k)' = LPlace(k) /\ LPlace(k) \in Slots
  BY <1>1, InvPlaces DEF GPlace, LPlace
<1>3. \A j \in Slots, e \in Events : Owned(j, e) => Owned(j, e)'
  BY DEF Owned
<1>4. \A j \in Slots, e \in Events : Ready(j, e) => Ready(j, e)'
  BY <1>3 DEF Ready, Owned
<1>5. \A i \in H : Global(i) \in Events
  BY InvPlaces DEF Events
<1>6. \A k \in 1 .. todo.local - 1 : k \in 1 .. L /\ Local(k) \in Events
  <2>1. todo.local \in 1 .. L + 1 /\ L \in 0 .. MaxLocals
    BY InvPlaces DEF SetUpOrder
  <2>2. \A k \in 1 .. todo.local - 1 : k \in 1 .. L /\ k \in 1 .. MaxLocals
    BY <2>1, CoreTableAssumption
  <2> QED
    BY <2>2 DEF Events
<1>7. \A i \in H' : (slots[GPlace(i)] # nil => Owned(GPlace(i), Global(i)))'
  BY <1>1, <1>2, <1>3, <1>5 DEF CoresKept
<1>8. \A i \in Done' : Ready(GPlace(i), Global(i))'
  BY <1>1, <1>2, <1>4, <1>5 DEF CoresKept
<1>9. \A k \in 1 .. todo'.local - 1 : Ready(LPlace(k), Local(k))'
  BY <1>2, <1>4, <1>6 DEF CoresKept
<1> QED
  BY <1>7, <1>8, <1>9 DEF CoresKept

(* ... by init() in entry(), ...                                           *)
LEMMA EntryInitStep ==
  ASSUME IInv, AllWellFormed, NEW e \in prog.entryInits[state], EntryInit(e)
  PROVE  IInv'
<1> USE DEF IInv
<1>1. /\ UNCHANGED <<prog, state, at, todo, current, GCoreIndex, maxCoreSize, localCoreSize>>
      /\ slots' \in [Slots -> Cores \cup {nil}]
  BY EntryInitCore DEF EntryInit
<1>2. at = "ENTRY" /\ H' = H /\ L' = L /\ Done' = Done
  BY <1>1 DEF EntryInit, H, L, Done
<1>3. CoreTypeOK' /\ SetUpOrder' /\ AtInstruction' /\ CopyReaches'
  BY <1>1, <1>2 DEF CoreTypeOK, SetUpOrder, AtInstruction, CopyReaches
<1>4. CoresKept'
  BY <1>1, EntryInitCore, CoresStay
<1> QED
  BY <1>3, <1>4

(* ... by STARTIMP, ...                                                    *)
LEMMA StartImpStep == IInv /\ StartImp => IInv'
<1> SUFFICES ASSUME IInv, StartImp PROVE IInv'
  OBVIOUS
<1> USE DEF IInv
<1>1. at = "ENTRY" /\ at' = "LOOP" /\ H' = H /\ L' = L /\ Done' = Done
      /\ UNCHANGED <<prog, state, todo, slots>>
  BY DEF StartImp, H, L, Done
<1>2. maxCoreSize' = countActiveCoreSize(H) + L /\ current = H
  BY <1>1, SetUpDone DEF StartImp
<1>3. maxCoreSize' \in 0 .. MAXTHREADSIZE
  BY <1>2, InvPlaces, CoreTableAssumption
<1>4. CoreTypeOK'
  BY <1>1, <1>3 DEF StartImp, CoreTypeOK, Instructions
<1>5. SetUpOrder' /\ AtInstruction'
  BY <1>1 DEF StartImp, SetUpOrder, AtInstruction
<1>6. CoresKept'
  BY <1>1, CoresStay
<1>7. CopyReaches'
  BY <1>1, <1>2, InvPlaces, CoreTableAssumption DEF StartImp, CopyReaches
<1> QED
  BY <1>4, <1>5, <1>6, <1>7

(* ... by a turn of the main loop ...                                      *)
LEMMA TickStep == ASSUME IInv, NEW k \in Slots, Tick(k) PROVE IInv'
<1> USE DEF IInv
<1>1. /\ at = "LOOP" /\ H' = H /\ L' = L /\ Done' = Done
      /\ UNCHANGED <<prog, state, at, todo, current, GCoreIndex, maxCoreSize, localCoreSize>>
  BY DEF Tick, H, L, Done
<1> DEFINE old == slots[k]
           new == [old EXCEPT !.ticks = @ + 1]
<1>2. old \in Cores /\ old # nil /\ old.ticks < MaxTicks
  BY DEF Tick, CoreTypeOK
<1>3. new \in Cores /\ new.func = old.func /\ new.var = old.var /\ new.threads = old.threads
  BY <1>2, CoreTableAssumption DEF Cores
<1>4. slots' = [slots EXCEPT ![k] = new]
  BY DEF Tick
<1> HIDE DEF new
<1>5. /\ slots' \in [Slots -> Cores \cup {nil}] /\ slots'[k] = new /\ new # nil
      /\ \A j \in Slots : j # k => slots'[j] = slots[j]
  BY <1>2, <1>3, <1>4, OneCoreChanges DEF CoreTypeOK
<1>6. CoreTypeOK' /\ SetUpOrder' /\ AtInstruction' /\ CopyReaches'
  BY <1>1, <1>5 DEF CoreTypeOK, SetUpOrder, AtInstruction, CopyReaches
<1>7. CoresKept'
  BY <1>1, <1>2, <1>3, <1>5, CoresStay
<1> QED
  BY <1>6, <1>7

(* A transition brings the core of every event both states handle to its   *)
(* new place and empties the places of the others.                         *)
LEMMA TransPlaces ==
  ASSUME IInv, AllWellFormed, NEW t \in States, EntryTrans(t) \/ HandlerTrans(t)
  PROVE  /\ at \in {"ENTRY", "LOOP"} /\ Trans(t)
         /\ \A i \in prog.handles[t] :
              slots'[countActiveBit(i, prog.handles[t])] =
                IF i \in H THEN slots[GPlace(i)] ELSE nil
<1> USE DEF IInv
<1>1. at \in {"ENTRY", "LOOP"} /\ Trans(t)
  BY DEF EntryTrans, HandlerTrans
<1>2. current = H /\ prog.handles[t] \in SUBSET GlobalIndex
  BY <1>1, SetUpDone, ProgramFields DEF CoreTypeOK
<1>3. \A i \in H \cap prog.handles[t] : GPlace(i) < maxCoreSize
  <2> SUFFICES ASSUME NEW i \in H \cap prog.handles[t] PROVE GPlace(i) < maxCoreSize
    OBVIOUS
  <2>1. /\ GPlace(i) \in Nat /\ GPlace(i) < countActiveCoreSize(H)
        /\ countActiveCoreSize(H) \in Nat /\ L \in Nat /\ maxCoreSize \in Nat
    BY InvPlaces, CoreTableAssumption DEF CoreTypeOK
  <2>2. CASE at = "LOOP"
    BY <1>2, <2>1, <2>2 DEF CopyReaches
  <2>3. CASE at = "ENTRY"
    <3>1. state # FirstState
      BY <2>3 DEF EntryTrans, HandlerTrans, AllWellFormed, WellFormed, CoreTypeOK, H
    <3> QED
      BY <2>1, <2>3, <3>1 DEF CopyReaches
  <2> QED
    BY <1>1, <2>2, <2>3
<1>4. \A i \in prog.handles[t] :
        Merged(prog.handles[t])[countActiveBit(i, prog.handles[t])] =
          IF i \in H THEN slots[GPlace(i)] ELSE nil
  <2> TAKE i \in prog.handles[t]
  <2>1. Merged(prog.handles[t])[countActiveBit(i, prog.handles[t])] =
           IF i \in current
           THEN IF countActiveBit(i, current) < maxCoreSize
                THEN slots[countActiveBit(i, current)] ELSE Garbage
           ELSE nil
    BY <1>2, MergedPlace
  <2> QED
    BY <1>2, <1>3, <2>1 DEF GPlace
<1> QED
  BY <1>1, <1>4 DEF Trans

(* ... and by a transition.                                                *)
LEMMA TransStep ==
  ASSUME IInv, AllWellFormed, NEW t \in States, EntryTrans(t) \/ HandlerTrans(t)
  PROVE  IInv'
<1> USE DEF IInv
<1>1. /\ H' = prog.handles[t] /\ L' = prog.locals[t] /\ current' = H'
      /\ todo' = [globals |-> H', local |-> 1] /\ at' = "MKCORE"
      /\ prog' = prog /\ state' = t /\ localCoreSize' = 0
      /\ GCoreIndex' = GCoreIndex /\ maxCoreSize' = maxCoreSize
      /\ slots' = Merged(H')
  BY TransPlaces DEF Trans, AllEvents, H, L
<1>2. H' \in SUBSET GlobalIndex /\ L' \in 0 .. MaxLocals
  BY <1>1, ProgramFields DEF CoreTypeOK
<1>3. Done' = {}
  BY <1>1 DEF Done
<1>4. slots' \in [Slots -> Cores \cup {nil}]
  BY <1>1, <1>2, MergedTypes DEF CoreTypeOK
<1>5. CoreTypeOK'
  BY <1>1, <1>2, <1>4, CoreTableAssumption DEF CoreTypeOK, Instructions
<1>6. SetUpOrder'
  BY <1>1, <1>2, <1>3, CoreTableAssumption DEF SetUpOrder
<1>7. AtInstruction'
  BY <1>1 DEF AtInstruction, AllEvents, H
<1>8. CoresKept'
  <2>1. \A i \in H' : slots'[GPlace(i)'] = IF i \in H THEN slots[GPlace(i)] ELSE nil
    BY <1>1, TransPlaces DEF GPlace
  <2>2. \A i \in H : slots[GPlace(i)] # nil => Owned(GPlace(i), Global(i))
    BY DEF CoresKept
  <2>3. \A i \in H' : (slots[GPlace(i)] # nil => Owned(GPlace(i), Global(i)))'
    BY <2>1, <2>2 DEF Owned
  <2> QED
    BY <1>1, <1>3, <2>3 DEF CoresKept
<1>9. CopyReaches'
  BY <1>1 DEF CopyReaches
<1> QED
  BY <1>5, <1>6, <1>7, <1>8, <1>9

(* Every step keeps the invariant. *)
LEMMA NextInv == IInv /\ AllWellFormed /\ [Next]_vars => IInv'
<1> SUFFICES ASSUME IInv, AllWellFormed, [Next]_vars PROVE IInv'
  OBVIOUS
<1>1. CASE MkCore
  BY <1>1, MkCoreStep
<1>2. CASE CopyCore
  BY <1>2, CopyCoreStep
<1>3. CASE SetGlobalCore
  BY <1>3, SetGlobalCoreStep
<1>4. CASE SetLocalCore
  BY <1>4, SetLocalCoreStep
<1>5. CASE MkThread
  BY <1>5, MkThreadGlobal, MkThreadLocal
<1>6. CASE \E e \in prog.entryInits[state] : EntryInit(e)
  BY <1>6, EntryInitStep
<1>7. CASE StartImp
  BY <1>7, StartImpStep
<1>8. CASE \E k \in Slots : Tick(k)
  BY <1>8, TickStep
<1>9. CASE \E t \in States : EntryTrans(t) \/ HandlerTrans(t)
  BY <1>9, TransStep
<1>10. CASE UNCHANGED vars
  <2>1. /\ UNCHANGED <<prog, state, at, todo, current, GCoreIndex, maxCoreSize, localCoreSize, slots>>
        /\ H' = H /\ L' = L /\ Done' = Done /\ NextGlobal' = NextGlobal
    BY <1>10 DEF vars, H, L, Done, NextGlobal
  <2>2. CoreTypeOK' /\ SetUpOrder' /\ CopyReaches'
    BY <2>1 DEF IInv, CoreTypeOK, SetUpOrder, CopyReaches
  <2>3. AtInstruction' /\ CoresKept'
    BY <2>1 DEF IInv, AtInstruction, CoresKept, AllEvents, Owned, Ready, GPlace, LPlace
  <2> QED
    BY <2>2, <2>3 DEF IInv
<1> QED
  BY <1>1, <1>2, <1>3, <1>4, <1>5, <1>6, <1>7, <1>8, <1>9, <1>10 DEF Next

(* The inductive invariant holds for every set of well-formed programs. *)
THEOREM TableInvariant == AllWellFormed => (Spec => []IInv)
<1> SUFFICES ASSUME AllWellFormed PROVE Spec => []IInv
  OBVIOUS
<1>1. Init => IInv
  BY InitInv
<1>2. IInv /\ [Next]_vars => IInv'
  BY NextInv
<1> QED
  BY <1>1, <1>2, PTL DEF Spec

(* The bits, counters and slots keep their types, whatever the programs,   *)
(* the size of the table and the sequence of transitions (run.c:184-400).  *)
THEOREM CoreTypes == AllWellFormed => (Spec => []CoreTypeOK)
<1> SUFFICES ASSUME AllWellFormed PROVE Spec => []CoreTypeOK
  OBVIOUS
<1>1. IInv => CoreTypeOK
  BY DEF IInv
<1> QED
  BY <1>1, TableInvariant, PTL

(* What the invariant says once a state is set up. *)
LEMMA InvInPlace == IInv => CoresInPlace
<1> SUFFICES ASSUME IInv, at \in {"ENTRY", "LOOP"}
             PROVE  /\ current = prog.handles[state]
                    /\ \A e \in Alive :
                         /\ slots[Place(e)] # nil
                         /\ slots[Place(e)].func = e /\ slots[Place(e)].var = e
                         /\ slots[Place(e)].threads = state
                    /\ at = "LOOP" => maxCoreSize = countActiveCoreSize(current) + prog.locals[state]
  BY DEF CoresInPlace
<1>1. /\ \A i \in H : Place(Global(i)) = GPlace(i)
      /\ \A k \in 1 .. L : Place(Local(k)) = LPlace(k)
  BY DEF Place, Global, Local, GPlace, LPlace, H
<1>2. \A e \in Alive : Ready(Place(e), e)
  BY <1>1, SetUpDone DEF Alive, GlobalsOf, LocalsOf, H, L
<1> QED
  BY <1>2, SetUpDone DEF IInv, CopyReaches, Ready, Owned, H, L

(* In every state that has been set up the core of each event is at its    *)
(* place, with its own var and this state's handlers, after any sequence   *)
(* of transitions of any well-formed program (run.c:184-266, 301-365).     *)
THEOREM CoresStayInPlace == AllWellFormed => (Spec => []CoresInPlace)
<1> SUFFICES ASSUME AllWellFormed PROVE Spec => []CoresInPlace
  OBVIOUS
<1> QED
  BY InvInPlace, TableInvariant, PTL

----------------------------------------------------------------------------
(* `init' and its event.                                                   *)

(* A transition takes cores over as they are. *)
LEMMA TransKeepsVars ==
  ASSUME IInv, InitReachesItsEvent, NEW t \in States, Trans(t)
  PROVE  InitReachesItsEvent'
<1> DEFINE next == prog.handles[t]
           copyCore(k) == IF k < maxCoreSize THEN slots[k] ELSE Garbage
           OwnVar(x) == x # nil => x.func = x.var
<1>1. current \in SUBSET GlobalIndex /\ slots' = Merged(next)
  BY DEF IInv, CoreTypeOK, Trans
<1>2. \A k \in Slots : OwnVar(slots[k])
  BY DEF InitReachesItsEvent
<1>3. \A i \in current : OwnVar(copyCore(countActiveBit(i, current)))
  BY <1>1, <1>2, RankInSlots DEF Garbage
<1>4. OwnVar(nil)
  OBVIOUS
<1> HIDE DEF OwnVar
<1> SUFFICES ASSUME NEW k \in Slots PROVE OwnVar(Merged(next)[k])
  BY <1>1 DEF InitReachesItsEvent, OwnVar
<1> QED
  BY <1>2, <1>3, <1>4 DEF Merged

(* No step gives a core the var of another event. *)
LEMMA VarsStay ==
  ASSUME IInv, AllWellFormed, InitReachesItsEvent, [Next]_vars
  PROVE  InitReachesItsEvent'
<1>1. slots \in [Slots -> Cores \cup {nil}] /\ prog \in Programs /\ state \in States
  BY DEF IInv, CoreTypeOK
<1>2. CASE MkCore \/ CopyCore \/ StartImp \/ UNCHANGED vars
  BY <1>2 DEF MkCore, CopyCore, StartImp, vars, InitReachesItsEvent
<1>3. CASE SetGlobalCore \/ SetLocalCore
  BY <1>1, <1>3 DEF SetGlobalCore, SetLocalCore, NewCore, InitReachesItsEvent
<1>4. CASE MkThread
  BY <1>4, MkThreadCore DEF InitReachesItsEvent
<1>5. CASE \E e \in prog.entryInits[state] : EntryInit(e)
  BY <1>5, EntryInitCore DEF InitReachesItsEvent
<1>6. CASE \E k \in Slots : Tick(k)
  BY <1>1, <1>6 DEF Tick, Cores, InitReachesItsEvent
<1>7. CASE \E t \in States : EntryTrans(t) \/ HandlerTrans(t)
  BY <1>7, TransKeepsVars DEF EntryTrans, HandlerTrans
<1> QED
  BY <1>2, <1>3, <1>4, <1>5, <1>6, <1>7 DEF Next

(* If the handlers of local events come in the order of the declarations   *)
(* and entry() inits what its state handles, `init' always reaches the     *)
(* core of its event; the run on crossed handlers shows that the order is  *)
(* needed (optimaize.c:858; run.c:1275-1292).                              *)
THEOREM InitsReachTheirEvents == AllWellFormed => (Spec => []InitReachesItsEvent)
<1> SUFFICES ASSUME AllWellFormed PROVE Spec => []InitReachesItsEvent
  OBVIOUS
<1>1. Init => InitReachesItsEvent
  BY DEF Init, InitReachesItsEvent
<1>2. IInv /\ InitReachesItsEvent /\ [Next]_vars => InitReachesItsEvent'
  BY VarsStay
<1> QED
  BY <1>1, <1>2, TableInvariant, PTL DEF Spec

----------------------------------------------------------------------------
(* The table implements EventCores.                                        *)

Values == [e \in Alive |-> Value(e)]

GValue(i) == IF slots[GPlace(i)] # nil THEN slots[GPlace(i)].ticks ELSE 0
LValue(k) == IF k < todo.local THEN slots[LPlace(k)].ticks ELSE 0

(* An event is a global of the state or a local one, and its value is read *)
(* at its place.                                                           *)
LEMMA AliveIs ==
  /\ \A e : e \in Alive <=> \/ \E i \in H : e = Global(i)
                            \/ \E k \in 1 .. L : e = Local(k)
  /\ \A i : Value(Global(i)) = GValue(i)
  /\ \A k : Value(Local(k)) = LValue(k)
<1>1. \A i : Global(i).scope = "global" /\ Global(i).index = i
  BY DEF Global
<1>2. \A k : Local(k).scope = "local" /\ Local(k).index = k
  BY DEF Local
<1>3. \A e : e \in Alive <=> \/ \E i \in H : e = Global(i)
                             \/ \E k \in 1 .. L : e = Local(k)
  BY DEF Alive, GlobalsOf, LocalsOf, H, L
<1>4. \A i : Value(Global(i)) = GValue(i)
  BY <1>1 DEF Value, IsUp, Place, GValue, GPlace, H
<1>5. \A k : Value(Local(k)) = LValue(k)
  BY <1>2 DEF Value, IsUp, Place, LValue, LPlace, H
<1> QED
  BY <1>3, <1>4, <1>5

(* The events that have a core after a step, and their values, place by    *)
(* place.                                                                  *)
LEMMA AliveIsNext ==
  /\ \A e : e \in Alive' <=> \/ \E i \in H' : e = Global(i)
                             \/ \E k \in 1 .. L' : e = Local(k)
  /\ \A i : Value(Global(i))' = GValue(i)'
  /\ \A k : Value(Local(k))' = LValue(k)'
<1>1. \A i : Global(i).scope = "global" /\ Global(i).index = i
  BY DEF Global
<1>2. \A k : Local(k).scope = "local" /\ Local(k).index = k
  BY DEF Local
<1>3. \A e : e \in Alive' <=> \/ \E i \in H' : e = Global(i)
                              \/ \E k \in 1 .. L' : e = Local(k)
  BY DEF Alive, GlobalsOf, LocalsOf, H, L
<1>4. \A i : Value(Global(i))' = GValue(i)'
  BY <1>1 DEF Value, IsUp, Place, GValue, GPlace, H
<1>5. \A k : Value(Local(k))' = LValue(k)'
  BY <1>2 DEF Value, IsUp, Place, LValue, LPlace, H
<1> QED
  BY <1>3, <1>4, <1>5

(* A step within a state that changes no event's value. *)
LEMMA Silent ==
  ASSUME UNCHANGED <<prog, state>>,
         \A i \in H : GValue(i)' = GValue(i),
         \A k \in 1 .. L : LValue(k)' = LValue(k)
  PROVE  Values' = Values
<1>1. H' = H /\ L' = L
  BY DEF H, L
<1>2. Alive' = Alive
  BY <1>1, AliveIs, AliveIsNext
<1>3. \A e \in Alive : Value(e)' = Value(e)
  BY AliveIs, AliveIsNext
<1> QED
  BY <1>2, <1>3 DEF Values

(* The same when only unseen slots change. *)
LEMMA SilentSlots ==
  ASSUME UNCHANGED <<prog, state, todo>>,
         \A i \in H : slots'[GPlace(i)] = slots[GPlace(i)],
         \A k \in 1 .. L : k < todo.local => slots'[LPlace(k)] = slots[LPlace(k)]
  PROVE  Values' = Values
<1>1. H' = H /\ L' = L
  BY DEF H, L
<1>2. /\ \A i \in H : GValue(i)' = GValue(i)
      /\ \A k \in 1 .. L : LValue(k)' = LValue(k)
  BY <1>1 DEF GValue, LValue, GPlace, LPlace
<1> QED
  BY <1>2, Silent

(* The set-up code is invisible until it reaches entry(). *)
LEMMA SetUpIsSilent ==
  ASSUME IInv, MkCore \/ CopyCore \/ SetGlobalCore \/ SetLocalCore \/ MkThread
  PROVE  /\ UNCHANGED <<prog, state>> /\ Values' = Values
         /\ Phase = "prepared" /\ Phase' \in {"prepared", "entry"}
<1> USE DEF IInv
<1>1. /\ UNCHANGED <<prog, state>>
      /\ at \in {"MKCORE", "COPYCORE", "SETCORE", "MKTHREAD"}
      /\ at' \in {"COPYCORE", "SETCORE", "MKTHREAD", "ENTRY"}
  BY DEF MkCore, CopyCore, SetGlobalCore, SetLocalCore, MkThread, SetUpFrom
<1>2. Phase = "prepared" /\ Phase' \in {"prepared", "entry"}
  BY <1>1 DEF Phase
<1>3. CASE MkCore \/ CopyCore
  <2>1. UNCHANGED <<prog, state, todo, slots>>
    BY <1>3 DEF MkCore, CopyCore
  <2> QED
    BY <1>1, <1>2, <2>1, SilentSlots
<1>4. CASE SetGlobalCore
  <2>1. PICK N : N = NextGlobal
    OBVIOUS
  <2>2. /\ N \in H /\ GCoreIndex = GPlace(N) /\ slots[GPlace(N)] = nil /\ GPlace(N) \in Slots
        /\ Global(N) \in Events
    BY <1>4, <2>1, NextRank, InvPlaces DEF SetGlobalCore, AtInstruction, Events
  <2>3. slots' = [slots EXCEPT ![GPlace(N)] = NewCore(Global(N))]
    BY <1>4, <2>1, <2>2 DEF SetGlobalCore
  <2>4. H' = H /\ L' = L /\ todo' = todo /\ todo.local = 1
    BY <1>4 DEF SetGlobalCore, SetUpOrder, H, L
  <2>5. \A i \in H : GValue(i)' = GValue(i)
    <3> TAKE i \in H
    <3>1. GPlace(i)' = GPlace(i) /\ GPlace(i) \in Slots
      BY <2>4, InvPlaces DEF GPlace
    <3>2. CASE i = N
      <4>1. slots'[GPlace(i)] = NewCore(Global(N))
        BY <2>2, <2>3, <3>2 DEF CoreTypeOK
      <4> QED
        BY <2>2, <3>1, <3>2, <4>1, NewCoreFits DEF GValue
    <3>3. CASE i # N
      <4>1. slots'[GPlace(i)] = slots[GPlace(i)]
        BY <2>2, <2>3, <3>1, <3>3, InvPlaces DEF CoreTypeOK
      <4> QED
        BY <3>1, <4>1 DEF GValue
    <3> QED
      BY <3>2, <3>3
  <2>6. \A k \in 1 .. L : LValue(k)' = LValue(k)
    BY <2>4 DEF LValue
  <2> QED
    BY <1>1, <1>2, <2>5, <2>6, Silent
<1>5. CASE SetLocalCore
  <2>1. /\ todo.local \in 1 .. L /\ GCoreIndex' = LPlace(todo.local) /\ todo' = todo
        /\ slots' = [slots EXCEPT ![LPlace(todo.local)] = NewCore(Local(todo.local))]
    <3>1. todo.globals = {} /\ Done = H
      BY <1>5 DEF SetLocalCore, Done
    <3>2. current = H /\ localCoreSize = todo.local - 1 /\ todo.local \in 1 .. L
      <4>1. at = "SETCORE" /\ todo.local <= L
        BY <1>5, <3>1 DEF SetLocalCore, AtInstruction
      <4>2. todo.local \in 1 .. L + 1 /\ L \in 0 .. MaxLocals
        BY InvPlaces DEF SetUpOrder
      <4>3. current = H
        BY <3>1 DEF SetUpOrder
      <4>4. localCoreSize = todo.local - 1
        BY <4>1 DEF SetUpOrder
      <4> QED
        BY <4>1, <4>2, <4>3, <4>4, CoreTableAssumption
    <3> QED
      BY <1>5, <3>2, InvPlaces DEF SetLocalCore, LPlace
  <2>2. /\ \A i \in H : GPlace(i) \in Slots /\ GPlace(i) # LPlace(todo.local)
        /\ \A k \in 1 .. L : k < todo.local => LPlace(k) \in Slots /\ LPlace(k) # LPlace(todo.local)
    BY <2>1, InvPlaces DEF LPlace
  <2>3. /\ \A i \in H : slots'[GPlace(i)] = slots[GPlace(i)]
        /\ \A k \in 1 .. L : k < todo.local => slots'[LPlace(k)] = slots[LPlace(k)]
    BY <2>1, <2>2 DEF CoreTypeOK
  <2> QED
    BY <1>1, <1>2, <2>1, <2>3, SilentSlots
<1>6. CASE MkThread
  <2>1. \A j \in Slots : /\ (slots'[j] # nil) <=> (slots[j] # nil)
                         /\ slots[j] # nil => slots'[j].ticks = slots[j].ticks
    BY <1>6, MkThreadCore
  <2>2. H' = H /\ L' = L
    BY <1>1 DEF H, L
  <2>3. \A i \in H : GValue(i)' = GValue(i)
    <3> TAKE i \in H
    <3>1. PICK p \in Slots : GPlace(i) = p /\ GPlace(i)' = p
      BY <2>2, InvPlaces DEF GPlace
    <3>2. /\ GValue(i) = IF slots[p] # nil THEN slots[p].ticks ELSE 0
          /\ GValue(i)' = IF slots'[p] # nil THEN slots'[p].ticks ELSE 0
      BY <3>1 DEF GValue
    <3> QED
      BY <2>1, <3>2
  <2>4. \A k \in 1 .. L : LValue(k)' = LValue(k)
    <3> TAKE k \in 1 .. L
    <3>1. PICK p \in Slots : LPlace(k) = p /\ LPlace(k)' = p
      BY <2>2, InvPlaces DEF LPlace
    <3>2. k < todo.local => slots[p] # nil
      <4>1. k \in Int /\ 1 <= k /\ todo.local \in Int
        BY InvPlaces, CoreTableAssumption DEF CoreTypeOK
      <4> QED
        BY <3>1, <4>1 DEF CoresKept, Ready, Owned
    <3>3. /\ LValue(k)' = IF k < todo'.local THEN slots'[p].ticks ELSE 0
          /\ LValue(k) = IF k < todo.local THEN slots[p].ticks ELSE 0
          /\ slots[p] # nil => slots'[p].ticks = slots[p].ticks
      BY <2>1, <3>1 DEF LValue
    <3>4. CASE todo.globals # {}
      <4>1. todo'.local = todo.local
        BY <1>6, <3>4 DEF MkThread, CoreTypeOK
      <4> QED
        BY <3>2, <3>3, <4>1
    <3>5. CASE todo.globals = {}
      <4>1. /\ todo'.local = todo.local + 1 /\ todo.local \in Int
            /\ GCoreIndex = LPlace(todo.local) /\ slots[LPlace(todo.local)] # nil
            /\ slots[LPlace(todo.local)].ticks = 0
        BY <1>6, <3>5, InvPlaces DEF MkThread, CoreTypeOK, AtInstruction, Owned, SetUpOrder
      <4>2. CASE k < todo.local
        BY <3>2, <3>3, <4>1, <4>2
      <4>3. CASE k = todo.local
        BY <3>1, <3>3, <4>1, <4>3
      <4>4. CASE k > todo.local
        BY <3>3, <4>1, <4>4
      <4> QED
        BY <4>1, <4>2, <4>3, <4>4
    <3> QED
      BY <3>4, <3>5
  <2> QED
    BY <1>1, <1>2, <2>3, <2>4, Silent
<1> QED
  BY <1>3, <1>4, <1>5, <1>6

(* Events of different kinds or indexes differ. *)
LEMMA EventsDiffer ==
  /\ \A i, j : Global(i) = Global(j) => i = j
  /\ \A i, j : Local(i) = Local(j) => i = j
  /\ \A i, n : Global(i) # Local(n)
<1>1. \A i : Global(i).scope = "global" /\ Global(i).index = i
  BY DEF Global
<1>2. \A n : Local(n).scope = "local" /\ Local(n).index = n
  BY DEF Local
<1>3. \A i, n : Global(i) # Local(n)
  <2> SUFFICES ASSUME NEW i, NEW n, Global(i) = Local(n) PROVE FALSE
    OBVIOUS
  <2>1. Global(i).scope = "global" /\ Global(i).scope = "local"
    BY <1>1, <1>2
  <2> QED
    BY <2>1
<1>4. \A i, j : Global(i) = Global(j) => i = j
  <2> TAKE i, j
  <2>1. Global(i).index = i /\ Global(j).index = j
    BY <1>1
  <2> QED
    BY <2>1
<1>5. \A i, j : Local(i) = Local(j) => i = j
  <2> TAKE i, j
  <2>1. Local(i).index = i /\ Local(j).index = j
    BY <1>2
  <2> QED
    BY <2>1
<1> QED
  BY <1>3, <1>4, <1>5

(* Where event e's core is. *)
HasPlace(e, k) == \/ \E i \in H : e = Global(i) /\ k = GPlace(i)
                  \/ \E n \in 1 .. L : e = Local(n) /\ k = LPlace(n)

(* In a state that is set up a change to one event's core changes the      *)
(* value of that event and of no other.                                    *)
LEMMA OneValueChanges ==
  ASSUME IInv, at \in {"ENTRY", "LOOP"}, UNCHANGED <<prog, state, todo>>,
         NEW k \in Slots, NEW e, HasPlace(e, k), slots'[k] # nil,
         \A j \in Slots : j # k => slots'[j] = slots[j]
  PROVE  /\ e \in Alive /\ Value(e) = slots[k].ticks
         /\ Values' = [Values EXCEPT ![e] = slots'[k].ticks]
<1> USE DEF IInv
<1>1. H' = H /\ L' = L
  BY DEF H, L
<1>2. slots[k].func = e
  BY SetUpDone DEF HasPlace, Ready, Owned
<1>3. e \in Alive
  BY AliveIs DEF HasPlace
<1>4. \A i \in H : GValue(i)' = IF e = Global(i) THEN slots'[k].ticks ELSE GValue(i)
  <2> TAKE i \in H
  <2>1. PICK p \in Slots : GPlace(i) = p /\ GPlace(i)' = p
    BY <1>1, InvPlaces DEF GPlace
  <2>2. slots[p].func = Global(i)
    BY <2>1, SetUpDone DEF Ready, Owned
  <2>3. e = Global(i) => p = k
    BY <2>1, EventsDiffer DEF HasPlace
  <2>4. e # Global(i) => p # k
    BY <1>2, <2>2
  <2>5. /\ GValue(i) = IF slots[p] # nil THEN slots[p].ticks ELSE 0
        /\ GValue(i)' = IF slots'[p] # nil THEN slots'[p].ticks ELSE 0
    BY <2>1 DEF GValue
  <2> QED
    BY <2>3, <2>4, <2>5
<1>5. \A n \in 1 .. L : n < todo.local
  <2>1. todo.local = L + 1 /\ L \in Nat
    BY SetUpDone, InvPlaces, CoreTableAssumption
  <2> QED
    BY <2>1
<1>6. \A n \in 1 .. L : LValue(n)' = IF e = Local(n) THEN slots'[k].ticks ELSE LValue(n)
  <2> TAKE n \in 1 .. L
  <2>1. PICK p \in Slots : LPlace(n) = p /\ LPlace(n)' = p
    BY <1>1, InvPlaces DEF LPlace
  <2>2. slots[p].func = Local(n)
    BY <2>1, SetUpDone DEF Ready, Owned
  <2>3. e = Local(n) => p = k
    BY <2>1, EventsDiffer DEF HasPlace
  <2>4. e # Local(n) => p # k
    BY <1>2, <2>2
  <2>5. /\ LValue(n) = slots[p].ticks /\ LValue(n)' = slots'[p].ticks
    BY <1>5, <2>1 DEF LValue
  <2> QED
    BY <2>3, <2>4, <2>5
<1>7. Alive' = Alive
  BY <1>1, AliveIs, AliveIsNext
<1>8. \A x \in Alive : Value(x)' = IF x = e THEN slots'[k].ticks ELSE Value(x)
  BY <1>4, <1>6, AliveIs, AliveIsNext
<1>9. Values' = [Values EXCEPT ![e] = slots'[k].ticks]
  BY <1>3, <1>7, <1>8 DEF Values
<1>10. Value(e) = slots[k].ticks
  <2>1. CASE \E i \in H : e = Global(i) /\ k = GPlace(i)
    BY <2>1, AliveIs, SetUpDone DEF GValue, Ready, Owned
  <2>2. CASE \E n \in 1 .. L : e = Local(n) /\ k = LPlace(n)
    BY <2>2, <1>5, AliveIs DEF LValue
  <2> QED
    BY <2>1, <2>2 DEF HasPlace
<1> QED
  BY <1>3, <1>9, <1>10

(* `init' restarts the event it names. *)
LEMMA InitRestarts ==
  ASSUME IInv, AllWellFormed, NEW e \in prog.entryInits[state], EntryInit(e)
  PROVE  /\ UNCHANGED <<prog, state>> /\ Phase = "entry" /\ Phase' = "entry"
         /\ e \in Alive /\ Values' = [Values EXCEPT ![e] = 0]
<1>1. UNCHANGED <<prog, state, todo, at>> /\ at = "ENTRY"
  BY DEF EntryInit
<1>2. PICK k \in Slots :
        /\ \/ \E i \in H : e = Global(i) /\ k = GPlace(i)
           \/ \E n \in 1 .. L : e = Local(n) /\ k = LPlace(n)
        /\ slots'[k] # nil /\ slots[k].func = e /\ slots'[k].ticks = 0
        /\ \A j \in Slots : j # k => slots'[j] = slots[j]
  BY EntryInitCore
<1>3. HasPlace(e, k)
  BY <1>2 DEF HasPlace
<1>4. e \in Alive /\ Values' = [Values EXCEPT ![e] = slots'[k].ticks]
  BY <1>1, <1>2, <1>3, OneValueChanges
<1> QED
  BY <1>1, <1>2, <1>4 DEF Phase

(* The cores the main loop visits are those of the state's events. *)
LEMMA SlotOwner ==
  ASSUME IInv, at = "LOOP", NEW k \in Slots, k < maxCoreSize
  PROVE  \/ \E i \in H : k = GPlace(i)
         \/ \E n \in 1 .. L : k = LPlace(n)
<1>1. /\ maxCoreSize = countActiveCoreSize(H) + L /\ H \in SUBSET GlobalIndex
      /\ countActiveCoreSize(H) \in Nat /\ L \in Nat /\ k \in Nat
  BY SetUpDone, InvPlaces, CoreTableAssumption DEF IInv, CopyReaches, Slots
<1>2. CASE k < countActiveCoreSize(H)
  <2>1. k \in 0 .. Cardinality(H) - 1
    BY <1>1, <1>2 DEF countActiveCoreSize
  <2> QED
    BY <1>1, <2>1, RankReaches DEF GPlace
<1>3. CASE k >= countActiveCoreSize(H)
  <2>1. PICK n \in 1 .. L : k = countActiveCoreSize(H) + n - 1
    <3>1. /\ k - countActiveCoreSize(H) + 1 \in 1 .. L
          /\ k = countActiveCoreSize(H) + (k - countActiveCoreSize(H) + 1) - 1
      BY <1>1, <1>3
    <3> QED
      BY <3>1
  <2> QED
    BY <2>1 DEF LPlace
<1> QED
  BY <1>1, <1>2, <1>3

(* The event function of a core moves its own event's value. *)
LEMMA TickMoves ==
  ASSUME IInv, NEW k \in Slots, Tick(k)
  PROVE  /\ UNCHANGED <<prog, state>> /\ Phase = "loop" /\ Phase' = "loop"
         /\ \E e \in Alive : /\ Values[e] < MaxTicks
                             /\ Values' = [Values EXCEPT ![e] = @ + 1]
<1>1. /\ UNCHANGED <<prog, state, todo, at>> /\ at = "LOOP" /\ k < maxCoreSize
      /\ slots[k] # nil /\ slots[k].ticks < MaxTicks
      /\ slots' = [slots EXCEPT ![k].ticks = @ + 1]
  BY DEF Tick
<1>2. PICK e : HasPlace(e, k)
  BY <1>1, SlotOwner DEF HasPlace
<1>3. /\ slots'[k] # nil /\ slots'[k].ticks = slots[k].ticks + 1
      /\ \A j \in Slots : j # k => slots'[j] = slots[j]
  <2>1. slots[k] \in Cores /\ slots \in [Slots -> Cores \cup {nil}]
    BY <1>1 DEF IInv, CoreTypeOK
  <2>2. /\ slots'[k] = [slots[k] EXCEPT !.ticks = @ + 1]
        /\ \A j \in Slots : j # k => slots'[j] = slots[j]
    BY <1>1, <2>1
  <2>3. [slots[k] EXCEPT !.ticks = @ + 1] \in Cores
    BY <1>1, <2>1, CoreTableAssumption DEF Cores
  <2>4. slots'[k].ticks = slots[k].ticks + 1
    BY <2>1, <2>2 DEF Cores
  <2> QED
    BY <2>2, <2>3, <2>4, NilAssumption
<1>4. /\ e \in Alive /\ Value(e) = slots[k].ticks
      /\ Values' = [Values EXCEPT ![e] = slots'[k].ticks]
  BY <1>1, <1>2, <1>3, OneValueChanges
<1>5. Values[e] = slots[k].ticks
  BY <1>4 DEF Values
<1>6. Values[e] < MaxTicks /\ Values' = [Values EXCEPT ![e] = @ + 1]
  BY <1>1, <1>3, <1>4, <1>5
<1> QED
  BY <1>1, <1>4, <1>6 DEF Phase

(* STARTIMP begins the loop with the values entry() left. *)
LEMMA StartIsSilent ==
  ASSUME IInv, StartImp
  PROVE  /\ UNCHANGED <<prog, state>> /\ Phase = "entry" /\ Phase' = "loop"
         /\ Values' = Values
<1>1. UNCHANGED <<prog, state, todo, slots>> /\ at = "ENTRY" /\ at' = "LOOP"
  BY DEF StartImp
<1>2. Values' = Values
  BY <1>1, SilentSlots
<1> QED
  BY <1>1, <1>2 DEF Phase

(* A transition keeps the values of the events both states handle. *)
LEMMA TransGoes ==
  ASSUME IInv, AllWellFormed, NEW t \in States, EntryTrans(t) \/ HandlerTrans(t)
  PROVE  /\ prog' = prog /\ state' = t /\ Phase # "prepared" /\ Phase' = "prepared"
         /\ Values' = [e \in GlobalsOf(t) \cup LocalsOf(t) |->
                          IF e \in GlobalsOf(state) \cap GlobalsOf(t) THEN Values[e] ELSE 0]
<1> USE DEF IInv
<1>1. /\ at \in {"ENTRY", "LOOP"} /\ at' = "MKCORE" /\ prog' = prog /\ state' = t
      /\ H' = prog.handles[t] /\ L' = prog.locals[t] /\ todo'.local = 1
  BY TransPlaces DEF Trans, AllEvents, H, L
<1>2. Phase # "prepared" /\ Phase' = "prepared"
  BY <1>1 DEF Phase
<1>3. \A i \in H' : slots'[GPlace(i)'] = IF i \in H THEN slots[GPlace(i)] ELSE nil
  BY <1>1, TransPlaces DEF GPlace
<1>4. \A i \in H' : GValue(i)' = IF i \in H THEN GValue(i) ELSE 0
  BY <1>3 DEF GValue
<1>5. \A n \in 1 .. L' : LValue(n)' = 0
  <2>1. L' \in Nat
    BY <1>1, ProgramFields, CoreTableAssumption DEF CoreTypeOK
  <2> QED
    BY <1>1, <2>1 DEF LValue
<1>6. /\ \A e : e \in GlobalsOf(state) <=> \E i \in H : e = Global(i)
      /\ \A e : e \in GlobalsOf(t) <=> \E i \in H' : e = Global(i)
      /\ \A e : e \in LocalsOf(t) <=> \E n \in 1 .. L' : e = Local(n)
  BY <1>1 DEF GlobalsOf, LocalsOf, H
<1>7. Alive' = GlobalsOf(t) \cup LocalsOf(t)
  BY <1>6, AliveIsNext
<1>8. \A e \in Alive' : Value(e)' =
        IF e \in GlobalsOf(state) \cap GlobalsOf(t) THEN Values[e] ELSE 0
  <2> TAKE e \in Alive'
  <2>1. CASE \E i \in H' : e = Global(i)
    <3>1. PICK i \in H' : e = Global(i)
      BY <2>1
    <3>2. Value(e)' = IF i \in H THEN GValue(i) ELSE 0
      BY <3>1, <1>4, AliveIsNext
    <3>3. i \in H <=> e \in GlobalsOf(state) \cap GlobalsOf(t)
      BY <3>1, <1>6, EventsDiffer
    <3>4. i \in H => Values[e] = GValue(i)
      BY <3>1, AliveIs DEF Values
    <3> QED
      BY <3>2, <3>3, <3>4
  <2>2. CASE \E n \in 1 .. L' : e = Local(n)
    <3>1. Value(e)' = 0
      BY <2>2, <1>5, AliveIsNext
    <3>2. e \notin GlobalsOf(t)
      BY <2>2, <1>6, EventsDiffer
    <3> QED
      BY <3>1, <3>2
  <2> QED
    BY <2>1, <2>2, AliveIsNext
<1>9. Values' = [e \in GlobalsOf(t) \cup LocalsOf(t) |->
                   IF e \in GlobalsOf(state) \cap GlobalsOf(t) THEN Values[e] ELSE 0]
  BY <1>7, <1>8 DEF Values
<1> QED
  BY <1>1, <1>2, <1>9

(* Every step of the table is a step of EventCores or leaves it as it is.  *)
LEMMA TableStepRefines ==
  IInv /\ AllWellFormed /\ [Next]_vars =>
    [Abstract!Next]_<<[s \in States |-> GlobalsOf(s)], [s \in States |-> LocalsOf(s)],
                      state, Phase, Values>>
<1> SUFFICES ASSUME IInv, AllWellFormed, [Next]_vars
             PROVE  [Abstract!Next]_<<[s \in States |-> GlobalsOf(s)],
                      [s \in States |-> LocalsOf(s)], state, Phase, Values>>
  OBVIOUS
<1> DEFINE globals == [s \in States |-> GlobalsOf(s)]
           locals  == [s \in States |-> LocalsOf(s)]
<1>1. prog' = prog
  BY DEF Next, vars, MkCore, CopyCore, SetGlobalCore, SetLocalCore, MkThread, EntryInit,
         StartImp, Tick, EntryTrans, HandlerTrans, Trans
<1>2. UNCHANGED <<globals, locals>>
  BY <1>1 DEF GlobalsOf, LocalsOf
<1>3. state \in States
  BY DEF IInv, CoreTypeOK
<1>4. /\ \A s \in States : globals[s] = GlobalsOf(s) /\ locals[s] = LocalsOf(s)
      /\ globals[state] \cup locals[state] = Alive
  BY <1>3 DEF Alive
<1> HIDE DEF globals, locals
<1>5. CASE MkCore \/ CopyCore \/ SetGlobalCore \/ SetLocalCore \/ MkThread
  <2>1. /\ UNCHANGED <<prog, state>> /\ Values' = Values
        /\ Phase = "prepared" /\ Phase' \in {"prepared", "entry"}
    BY <1>5, SetUpIsSilent
  <2> QED
    BY <1>2, <2>1 DEF globals, locals, Abstract!Next, Abstract!Enter, Values
<1>6. CASE \E e \in prog.entryInits[state] : EntryInit(e)
  <2>1. PICK e \in prog.entryInits[state] : EntryInit(e)
    BY <1>6
  <2>2. /\ UNCHANGED <<prog, state>> /\ Phase = "entry" /\ Phase' = "entry"
        /\ e \in Alive /\ Values' = [Values EXCEPT ![e] = 0]
    BY <2>1, InitRestarts
  <2>3. \E x \in Abstract!Live(state) : Abstract!Restart(x)
    BY <1>4, <2>2 DEF globals, locals, Abstract!Live, Abstract!Restart, Values
  <2> QED
    BY <1>2, <2>3 DEF globals, locals, Abstract!Next
<1>7. CASE StartImp
  <2>1. /\ UNCHANGED <<prog, state>> /\ Phase = "entry" /\ Phase' = "loop"
        /\ Values' = Values
    BY <1>7, StartIsSilent
  <2> QED
    BY <1>2, <2>1 DEF globals, locals, Abstract!Next, Abstract!Start, Values
<1>8. CASE \E k \in Slots : Tick(k)
  <2>1. /\ UNCHANGED <<prog, state>> /\ Phase = "loop" /\ Phase' = "loop"
        /\ \E e \in Alive : /\ Values[e] < MaxTicks
                            /\ Values' = [Values EXCEPT ![e] = @ + 1]
    BY <1>8, TickMoves
  <2>2. \E x \in Abstract!Live(state) : Abstract!Tick(x)
    BY <1>4, <2>1 DEF globals, locals, Abstract!Live, Abstract!Tick, Values
  <2> QED
    BY <1>2, <2>2 DEF globals, locals, Abstract!Next
<1>9. CASE \E t \in States : EntryTrans(t) \/ HandlerTrans(t)
  <2>1. PICK t \in States : EntryTrans(t) \/ HandlerTrans(t)
    BY <1>9
  <2>2. /\ prog' = prog /\ state' = t /\ Phase # "prepared" /\ Phase' = "prepared"
        /\ Values' = [e \in GlobalsOf(t) \cup LocalsOf(t) |->
                        IF e \in GlobalsOf(state) \cap GlobalsOf(t) THEN Values[e] ELSE 0]
    BY <2>1, TransGoes
  <2>3. Values' = [e \in globals[t] \cup locals[t] |->
                    IF e \in globals[state] \cap globals[t] THEN Values[e] ELSE 0]
    BY <1>3, <1>4, <2>2
  <2>4. Abstract!Go(t)
    BY <2>2, <2>3 DEF globals, locals, Abstract!Live, Abstract!Go, Values
  <2> QED
    BY <1>2, <2>4 DEF globals, locals, Abstract!Next
<1>10. CASE UNCHANGED vars
  <2>1. UNCHANGED <<state, Phase>>
    BY <1>10 DEF vars, Phase
  <2>2. Values' = Values
    BY <1>10, SilentSlots DEF vars
  <2> QED
    BY <1>2, <2>1, <2>2 DEF globals, locals
<1> QED
  BY <1>5, <1>6, <1>7, <1>8, <1>9, <1>10 DEF Next

(* A program that starts has every event of its first state at nothing. *)
LEMMA TableStartRefines == Init => Abstract!Init
<1> SUFFICES ASSUME Init PROVE Abstract!Init
  OBVIOUS
<1>1. IInv
  BY InitInv
<1>2. state = FirstState /\ FirstState \in States /\ at = "MKCORE"
  BY CoreTableAssumption DEF Init
<1>3. \A i \in H : GValue(i) = 0
  BY <1>1, InvPlaces DEF Init, IInv, GValue
<1>4. \A n \in 1 .. L : LValue(n) = 0
  <2>1. L \in Nat /\ todo.local = 1
    BY <1>1, InvPlaces, CoreTableAssumption DEF IInv, Init, AllEvents
  <2> QED
    BY <2>1 DEF LValue
<1>5. \A e \in Alive : Value(e) = 0
  BY <1>3, <1>4, AliveIs
<1>6. Alive = GlobalsOf(FirstState) \cup LocalsOf(FirstState)
  BY <1>2 DEF Alive
<1>7. Phase = "prepared"
  BY <1>2 DEF Phase
<1> QED
  BY <1>2, <1>5, <1>6, <1>7 DEF Abstract!Init, Abstract!Live

(* The table of cores, through any sequence of set-ups, inits and          *)
(* transitions of any well-formed program, does what EventCores promises:  *)
(* an event both states handle goes on, every other starts afresh, and no  *)
(* event's value is changed by what happens to another (run.c:184-266,     *)
(* 285-400, 428-536, 1275-1312).                                           *)
THEOREM TableRefinesCores == AllWellFormed => (Spec => RefinesEventCores)
<1> SUFFICES ASSUME AllWellFormed PROVE Spec => RefinesEventCores
  OBVIOUS
<1>1. Init => Abstract!Init
  BY TableStartRefines
<1>2. IInv /\ [Next]_vars =>
        [Abstract!Next]_<<[s \in States |-> GlobalsOf(s)], [s \in States |-> LocalsOf(s)],
                          state, Phase, [e \in Alive |-> Value(e)]>>
  BY TableStepRefines DEF Values
<1>3. Spec => []IInv
  BY TableInvariant
<1> QED
  BY <1>1, <1>2, <1>3, PTL DEF Spec, RefinesEventCores, Abstract!Spec
=============================================================================
