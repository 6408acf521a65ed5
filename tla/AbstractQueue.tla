--------------------------- MODULE AbstractQueue ---------------------------
(***************************************************************************)
(* What gst_atomic_queue_push and gst_atomic_queue_pop promise: a first-in *)
(* first-out queue that gives every item it was given exactly once.        *)
(***************************************************************************)
EXTENDS Sequences

CONSTANT Items

VARIABLES
  queue,                \* the items in the queue
  taken                 \* the items taken from it so far, in order

Init == queue = <<>> /\ taken = <<>>

Put(item) ==
  /\ queue' = Append(queue, item)
  /\ UNCHANGED taken

Take ==
  /\ queue # <<>>
  /\ taken' = Append(taken, Head(queue))
  /\ queue' = Tail(queue)

Next == Take \/ \E item \in Items : Put(item)

Spec == Init /\ [][Next]_<<queue, taken>>
=============================================================================
