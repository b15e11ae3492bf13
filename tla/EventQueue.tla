---------------------------- MODULE EventQueue ----------------------------
(***************************************************************************)
(* The ring buffer every event thread owns (executor/object.c, struct      *)
(* Queue, newQueue, enqueue, dequeue).  Event functions post the argument  *)
(* array of an event at its tail; the main loop fetches from its head.     *)
(* head and size are 4-bit fields; a fetched element stays in its slot     *)
(* until it is overwritten.                                                *)
(***************************************************************************)
EXTENDS Naturals, Sequences

CONSTANTS
  Data,        \* the argument arrays an event function can post
  QUEUE_SIZE,  \* slots of the buffer
  SUCCESS, FAILURE,
  NoData       \* the null object: an unused slot, and dequeue's answer when empty

FieldRange == 2^4      \* `unsigned head:4; unsigned size:4;'

ASSUME QueueAssumption ==
  /\ QUEUE_SIZE \in 1 .. 15     \* both fields can hold it
  /\ NoData \notin Data

VARIABLES elements, head, size, answer

vars == <<elements, head, size, answer>>

Slots == 0 .. QUEUE_SIZE - 1

newQueue ==
  /\ elements = [i \in Slots |-> NoData]     \* calloc
  /\ head = 0
  /\ size = 0
  /\ answer = NoData

Tail4 == (head + size) % QUEUE_SIZE

(* Faulty variants of the two operations below. *)
enqueueOverwriting(data) ==             \* a full buffer drops its oldest event
  /\ elements' = [elements EXCEPT ![Tail4] = data]
  /\ answer' = SUCCESS
  /\ \/ size < QUEUE_SIZE /\ size' = size + 1 /\ UNCHANGED head
     \/ size >= QUEUE_SIZE /\ head' = (head + 1) % QUEUE_SIZE /\ UNCHANGED size
dequeueUnwrapped ==                     \* only the field's width wraps head
  \/ /\ size > 0
     /\ answer' = elements[head]
     /\ head' = (head + 1) % FieldRange
     /\ size' = size - 1
     /\ UNCHANGED elements
  \/ /\ size = 0
     /\ answer' = NoData
     /\ UNCHANGED <<elements, head, size>>

enqueue(data) ==
  \/ /\ size < QUEUE_SIZE
     /\ elements' = [elements EXCEPT ![Tail4] = data]
     /\ size' = (size + 1) % FieldRange
     /\ answer' = SUCCESS
     /\ UNCHANGED head
  \/ /\ size >= QUEUE_SIZE
     /\ answer' = FAILURE
     /\ UNCHANGED <<elements, head, size>>

dequeue ==
  \/ /\ size > 0
     /\ answer' = elements[head]
     /\ head' = ((head + 1) % QUEUE_SIZE) % FieldRange
     /\ size' = size - 1
     /\ UNCHANGED elements
  \/ /\ size = 0
     /\ answer' = NoData
     /\ UNCHANGED <<elements, head, size>>

Next == dequeue \/ \E data \in Data : enqueue(data)

Spec == newQueue /\ [][Next]_vars

----------------------------------------------------------------------------
(* The waiting events, oldest first, read off the ring. *)
Waiting == [i \in 1 .. size |-> elements[(head + (i - 1)) % QUEUE_SIZE]]

Fifo == INSTANCE EventFifo WITH Capacity <- QUEUE_SIZE, pending <- Waiting

(* Type invariant of the buffer: the fields stay inside the ring although  *)
(* the code computes them with a modulus and 4-bit stores, and every slot  *)
(* between head and tail holds a posted event, so that the main loop never *)
(* copies a null argument array (object.c:837-875, run.c:385-389).         *)
QueueTypeOK ==
  /\ elements \in [Slots -> Data \cup {NoData}]
  /\ head \in Slots
  /\ size \in 0 .. QUEUE_SIZE
  /\ answer \in Data \cup {NoData, SUCCESS, FAILURE}
  /\ \A i \in 1 .. size : Waiting[i] \in Data

(* The ring is a bounded FIFO: whatever the interleaving of posts and      *)
(* fetches, wrap-around included, events come out in the order they were   *)
(* accepted, none twice and none invented, and a full buffer refuses the   *)
(* newest event and keeps the ones already waiting (object.c:837-875).     *)
RefinesFifo == Fifo!Spec
=============================================================================
