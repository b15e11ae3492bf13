-------------------------- MODULE EventQueueProofs --------------------------
(***************************************************************************)
(* For every queue size the two bit fields can hold: the ring buffer of    *)
(* EventQueue keeps its type invariant and implements the bounded FIFO.    *)
(***************************************************************************)
EXTENDS EventQueue, SequenceTheorems, TLAPS

(* The slot of the i-th waiting event. *)
Place(i) == (head + (i - 1)) % QUEUE_SIZE

(* A position at most one lap ahead wraps by one subtraction. *)
LEMMA Wrap ==
  ASSUME NEW x \in 0 .. (2 * QUEUE_SIZE - 1)
  PROVE  x % QUEUE_SIZE = IF x < QUEUE_SIZE THEN x ELSE x - QUEUE_SIZE
  <1>1. QUEUE_SIZE \in 1 .. 15
    BY QueueAssumption
  <1>2. CASE x < QUEUE_SIZE
    BY <1>1, <1>2
  <1>3. CASE x >= QUEUE_SIZE
    BY <1>1, <1>3
  <1> QED
    BY <1>1, <1>2, <1>3

(* Places of different waiting events, and the free slot after the last    *)
(* one, are different slots of the ring.                                   *)
LEMMA PlacesDistinct ==
  ASSUME head \in Slots, size \in 0 .. QUEUE_SIZE,
         NEW i \in 1 .. QUEUE_SIZE, NEW j \in 1 .. QUEUE_SIZE, i # j
  PROVE  Place(i) \in Slots /\ Place(i) # Place(j)
  <1>1. QUEUE_SIZE \in 1 .. 15
    BY QueueAssumption
  <1>2. /\ head + (i - 1) \in 0 .. (2 * QUEUE_SIZE - 1)
        /\ head + (j - 1) \in 0 .. (2 * QUEUE_SIZE - 1)
    BY <1>1 DEF Slots
  <1>3. /\ Place(i) = IF head + (i - 1) < QUEUE_SIZE
                      THEN head + (i - 1) ELSE (head + (i - 1)) - QUEUE_SIZE
        /\ Place(j) = IF head + (j - 1) < QUEUE_SIZE
                      THEN head + (j - 1) ELSE (head + (j - 1)) - QUEUE_SIZE
    BY <1>2, Wrap DEF Place
  <1> QED
    BY <1>1, <1>3 DEF Slots

(* A posted event goes to the place after the last waiting one. *)
LEMMA EnqueueAppends ==
  ASSUME QueueTypeOK, size < QUEUE_SIZE, NEW data \in Data,
         elements' = [elements EXCEPT ![Tail4] = data],
         size' = (size + 1) % FieldRange, head' = head
  PROVE  /\ size' = size + 1
         /\ elements' \in [Slots -> Data \cup {NoData}]
         /\ Waiting' = Append(Waiting, data)
  <1>1. QUEUE_SIZE \in 1 .. 15
    BY QueueAssumption
  <1>2. size' = size + 1
    BY <1>1 DEF QueueTypeOK, FieldRange
  <1>3. Tail4 = Place(size + 1) /\ Tail4 \in Slots
    <2>1. head + size \in 0 .. (2 * QUEUE_SIZE - 1)
      BY <1>1 DEF QueueTypeOK, Slots
    <2> QED
      BY <1>1, <2>1, Wrap DEF Tail4, Place, QueueTypeOK, Slots
  <1>4. elements' \in [Slots -> Data \cup {NoData}]
    BY <1>3 DEF QueueTypeOK
  <1>5. ASSUME NEW i \in 1 .. size
        PROVE  elements'[Place(i)] = elements[Place(i)]
    <2>1. i \in 1 .. QUEUE_SIZE /\ size + 1 \in 1 .. QUEUE_SIZE /\ i # size + 1
      BY <1>1, <1>5 DEF QueueTypeOK
    <2>2. Place(i) \in Slots /\ Place(i) # Place(size + 1)
      BY <2>1, PlacesDistinct DEF QueueTypeOK
    <2> QED
      BY <2>2, <1>3 DEF QueueTypeOK
  <1>6. elements'[Place(size + 1)] = data
    BY <1>3 DEF QueueTypeOK
  <1>7. Waiting' = [i \in 1 .. size + 1 |-> elements'[Place(i)]]
    BY <1>2 DEF Waiting, Place
  <1>8. Waiting = [i \in 1 .. size |-> elements[Place(i)]]
    BY DEF Waiting, Place
  <1>9. Waiting \in Seq(Data) /\ Len(Waiting) = size
    BY <1>8 DEF QueueTypeOK
  <1> QED
    BY <1>2, <1>4, <1>5, <1>6, <1>7, <1>8, <1>9 DEF QueueTypeOK

(* A fetch takes the oldest event and leaves the others in order. *)
LEMMA DequeueTails ==
  ASSUME QueueTypeOK, size > 0,
         head' = ((head + 1) % QUEUE_SIZE) % FieldRange,
         size' = size - 1, elements' = elements
  PROVE  /\ head' \in Slots
         /\ elements[head] = Head(Waiting)
         /\ Waiting' = Tail(Waiting)
  <1>1. QUEUE_SIZE \in 1 .. 15
    BY QueueAssumption
  <1>2. head' = IF head + 1 < QUEUE_SIZE THEN head + 1 ELSE 0
    <2>1. head + 1 \in 0 .. (2 * QUEUE_SIZE - 1) /\ head + 1 <= QUEUE_SIZE
      BY <1>1 DEF QueueTypeOK, Slots
    <2>2. (head + 1) % QUEUE_SIZE =
            IF head + 1 < QUEUE_SIZE THEN head + 1 ELSE (head + 1) - QUEUE_SIZE
      BY <2>1, Wrap
    <2> QED
      BY <1>1, <2>1, <2>2 DEF QueueTypeOK, Slots, FieldRange
  <1>3. head' \in Slots
    BY <1>1, <1>2 DEF QueueTypeOK, Slots
  <1>4. Waiting \in Seq(Data) /\ Len(Waiting) = size
    BY DEF QueueTypeOK, Waiting
  <1>5. elements[head] = Head(Waiting)
    <2>1. head \in 0 .. (2 * QUEUE_SIZE - 1) /\ head < QUEUE_SIZE
      BY <1>1 DEF QueueTypeOK, Slots
    <2>2. (head + (1 - 1)) % QUEUE_SIZE = head
      BY <1>1, <2>1, Wrap
    <2>3. 1 \in 1 .. size
      BY DEF QueueTypeOK
    <2>4. Waiting[1] = elements[(head + (1 - 1)) % QUEUE_SIZE]
      BY <2>3 DEF Waiting
    <2> QED
      BY <1>4, <2>2, <2>3, <2>4 DEF QueueTypeOK
  <1>6. ASSUME NEW i \in 1 .. size - 1
        PROVE  (head' + (i - 1)) % QUEUE_SIZE = (head + ((i + 1) - 1)) % QUEUE_SIZE
    <2>1. /\ head' + (i - 1) \in 0 .. (2 * QUEUE_SIZE - 1)
          /\ head + ((i + 1) - 1) \in 0 .. (2 * QUEUE_SIZE - 1)
      BY <1>1, <1>3 DEF QueueTypeOK, Slots
    <2>2. (head' + (i - 1)) % QUEUE_SIZE =
            IF head' + (i - 1) < QUEUE_SIZE
            THEN head' + (i - 1) ELSE (head' + (i - 1)) - QUEUE_SIZE
      BY <2>1, Wrap
    <2>3. (head + ((i + 1) - 1)) % QUEUE_SIZE =
            IF head + ((i + 1) - 1) < QUEUE_SIZE
            THEN head + ((i + 1) - 1) ELSE (head + ((i + 1) - 1)) - QUEUE_SIZE
      BY <2>1, Wrap
    <2>4. head \in 0 .. QUEUE_SIZE - 1 /\ i \in 1 .. QUEUE_SIZE - 1
      BY <1>1 DEF QueueTypeOK, Slots
    <2> QED
      BY <1>1, <1>2, <2>2, <2>3, <2>4
  <1>7. Waiting' = [i \in 1 .. size - 1 |-> Waiting[i + 1]]
    BY <1>6 DEF Waiting, QueueTypeOK
  <1>8. Tail(Waiting) = [i \in 1 .. size - 1 |-> Waiting[i + 1]]
    <2>1. /\ Tail(Waiting) \in Seq(Data)
          /\ Len(Tail(Waiting)) = size - 1
          /\ \A i \in 1 .. size - 1 : Tail(Waiting)[i] = Waiting[i + 1]
      BY <1>4, HeadTailProperties DEF QueueTypeOK
    <2>2. Tail(Waiting) \in [1 .. size - 1 -> Data]
      BY <2>1, LenProperties
    <2> QED
      BY <2>1, <2>2
  <1> QED
    BY <1>3, <1>4, <1>5, <1>7, <1>8

----------------------------------------------------------------------------
(* Every operation keeps the indexes inside their four bits.               *)
LEMMA StepKeepsTypes == QueueTypeOK /\ [Next]_vars => QueueTypeOK'
  <1> SUFFICES ASSUME QueueTypeOK, [Next]_vars PROVE QueueTypeOK'
    OBVIOUS
  <1>1. QUEUE_SIZE \in 1 .. 15
    BY QueueAssumption
  <1>2. ASSUME NEW data \in Data, enqueue(data) PROVE QueueTypeOK'
    <2>1. CASE size < QUEUE_SIZE
      <3>1. /\ size' = size + 1
            /\ elements' \in [Slots -> Data \cup {NoData}]
            /\ Waiting' = Append(Waiting, data)
        BY <1>1, <1>2, <2>1, EnqueueAppends DEF enqueue, QueueTypeOK
      <3>2. Waiting \in Seq(Data) /\ Len(Waiting) = size
        BY DEF QueueTypeOK, Waiting
      <3>3. \A i \in 1 .. size' : Waiting'[i] \in Data
        BY <3>1, <3>2 DEF QueueTypeOK
      <3>4. head' = head /\ answer' = SUCCESS /\ Slots' = Slots
        BY <1>1, <1>2, <2>1 DEF enqueue, QueueTypeOK, Slots
      <3>5. size' \in 0 .. QUEUE_SIZE
        BY <1>1, <2>1, <3>1 DEF QueueTypeOK
      <3> QED
        BY <3>1, <3>3, <3>4, <3>5 DEF QueueTypeOK
    <2>2. CASE size >= QUEUE_SIZE
      BY <1>1, <1>2, <2>2 DEF enqueue, QueueTypeOK, Waiting
    <2> QED
      BY <1>1, <2>1, <2>2 DEF QueueTypeOK
  <1>3. CASE dequeue
    <2>1. CASE size > 0
      <3>1. head' \in Slots /\ Waiting' = Tail(Waiting) /\ elements[head] = Head(Waiting)
        BY <1>3, <2>1, DequeueTails DEF dequeue
      <3>2. Waiting \in Seq(Data) /\ Len(Waiting) = size
        BY DEF QueueTypeOK, Waiting
      <3>3. \A i \in 1 .. size - 1 : Waiting'[i] \in Data
        BY <2>1, <3>1, <3>2 DEF QueueTypeOK
      <3>4. answer' \in Data
        BY <1>3, <2>1, <3>1, <3>2 DEF dequeue, QueueTypeOK
      <3>5. elements' = elements /\ size' = size - 1 /\ Slots' = Slots
        BY <1>3, <2>1 DEF dequeue, Slots
      <3>6. size' \in 0 .. QUEUE_SIZE
        BY <1>1, <2>1, <3>5 DEF QueueTypeOK
      <3> QED
        BY <3>1, <3>3, <3>4, <3>5, <3>6 DEF QueueTypeOK
    <2>2. CASE size = 0
      BY <1>3, <2>2 DEF dequeue, QueueTypeOK, Waiting
    <2> QED
      BY <2>1, <2>2 DEF QueueTypeOK
  <1>4. CASE UNCHANGED vars
    BY <1>4 DEF vars, QueueTypeOK, Waiting
  <1> QED
    BY <1>2, <1>3, <1>4 DEF Next

(* newQueue's queue is one.                                                *)
LEMMA InitTypes == newQueue => QueueTypeOK
  BY QueueAssumption DEF newQueue, QueueTypeOK, Slots, Waiting

(* The ring's fields stay in range and every waiting slot holds a posted   *)
(* event, for every queue size from 1 to 15 (object.c:804-875).            *)
THEOREM QueueTypes == Spec => []QueueTypeOK
  BY InitTypes, StepKeepsTypes, PTL DEF Spec

(* Every step of the ring is a step of the bounded FIFO. *)
LEMMA StepRefines ==
  QueueTypeOK /\ [Next]_vars => [Fifo!Next]_<<Waiting, answer>>
  <1> SUFFICES ASSUME QueueTypeOK, [Next]_vars
               PROVE  [Fifo!Next]_<<Waiting, answer>>
    OBVIOUS
  <1>1. QUEUE_SIZE \in 1 .. 15
    BY QueueAssumption
  <1>2. Waiting \in Seq(Data) /\ Len(Waiting) = size
    BY DEF QueueTypeOK, Waiting
  <1>3. ASSUME NEW data \in Data, enqueue(data) PROVE Fifo!Post(data)
    <2>1. CASE size < QUEUE_SIZE
      BY <1>1, <1>2, <1>3, <2>1, EnqueueAppends DEF enqueue, Fifo!Post, QueueTypeOK
    <2>2. CASE size >= QUEUE_SIZE
      BY <1>1, <1>2, <1>3, <2>2 DEF enqueue, Fifo!Post, QueueTypeOK, Waiting
    <2> QED
      BY <1>1, <2>1, <2>2 DEF QueueTypeOK
  <1>4. CASE dequeue
    <2>1. CASE size > 0
      BY <1>1, <1>2, <1>4, <2>1, DequeueTails DEF dequeue, Fifo!Next, Fifo!Fetch, QueueTypeOK
    <2>2. CASE size = 0
      <3>1. Waiting = <<>> /\ Waiting' = Waiting
        BY <1>2, <1>4, <2>2 DEF dequeue, Waiting
      <3> QED
        BY <1>4, <2>2, <3>1 DEF dequeue, Fifo!Next, Fifo!Fetch
    <2> QED
      BY <2>1, <2>2 DEF QueueTypeOK
  <1>5. CASE UNCHANGED vars
    BY <1>5 DEF vars, Waiting
  <1> QED
    BY <1>3, <1>4, <1>5 DEF Next, Fifo!Next

(* The ring buffer implements the bounded FIFO for every queue size the    *)
(* bit fields can hold: order, no duplication, no invention, refusal only  *)
(* when full (object.c:837-875).                                           *)
THEOREM QueueRefinesFifo == Spec => RefinesFifo
  <1>1. newQueue => Fifo!Init
    BY QueueAssumption DEF newQueue, Fifo!Init, Waiting
  <1> QED
    BY <1>1, StepRefines, QueueTypes, PTL DEF Spec, RefinesFifo, Fifo!Spec
=============================================================================
