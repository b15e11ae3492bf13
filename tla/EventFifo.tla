----------------------------- MODULE EventFifo -----------------------------
(***************************************************************************)
(* What the queue of waiting events of one event thread promises to the    *)
(* executor: a bounded first-in first-out store that refuses the newest    *)
(* event when it is full and answers "nothing" when it is empty.           *)
(***************************************************************************)
EXTENDS Naturals, Sequences

CONSTANTS
  Data,       \* the argument arrays an event function can post
  Capacity,   \* how many events may wait
  SUCCESS,    \* answer to an accepted post
  FAILURE,    \* answer to a refused post
  NoData      \* answer to a fetch from an empty store

VARIABLES
  pending,    \* the waiting events, oldest first
  answer      \* what the latest operation answered

Init ==
  /\ pending = <<>>
  /\ answer = NoData

Post(d) ==
  \/ /\ Len(pending) < Capacity
     /\ pending' = Append(pending, d)
     /\ answer' = SUCCESS
  \/ /\ Len(pending) >= Capacity
     /\ answer' = FAILURE
     /\ UNCHANGED pending

Fetch ==
  \/ /\ pending # <<>>
     /\ answer' = Head(pending)
     /\ pending' = Tail(pending)
  \/ /\ pending = <<>>
     /\ answer' = NoData
     /\ UNCHANGED pending

Next == Fetch \/ \E d \in Data : Post(d)

Spec == Init /\ [][Next]_<<pending, answer>>
=============================================================================
