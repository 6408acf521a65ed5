--------------------------- MODULE GstBus_proofs ---------------------------
(***************************************************************************)
(* The ownership of messages on a GstBus holds for any posters, poppers    *)
(* and messages, and the bus is a client of the timer poll, so that what   *)
(* GstPollTimer_proofs proves of such clients holds of it.                 *)
(*                                                                         *)
(* The argument: a message that is allocated has one owner at a time, the  *)
(* thread that posts it until the push, the bus, then the thread that      *)
(* popped it until it is freed (Ownership).  Nothing that asynchronous     *)
(* posters do with a message later concerns its owner.                     *)
(*                                                                         *)
(* The second part of the module is about the watches of the bus, as       *)
(* GstBusWatch models them.                                                *)
(***************************************************************************)
EXTENDS GstBus, GstBusWatch, FiniteSetTheorems, SequenceTheorems, TLAPS

PoppedSteps == {"pop_read", "pop_got", "free", "free_memory"}

Owns(t) == pc[t] = "post_reply" \/ pc[t] \in PoppedSteps

(* The messages on the bus are distinct and alive, and so are those in the *)
(* hands of threads; a condition is made only for the bus.                 *)
Ownership ==
  /\ \A i, j \in 1..Len(queue) : queue[i] = queue[j] => i = j
  /\ \A i \in 1..Len(queue) : queue[i] \in allocated
  /\ \A t \in Threads : Owns(t) =>
       /\ msg[t] \in allocated
       /\ \A i \in 1..Len(queue) : queue[i] # msg[t]
  /\ \A t, u \in Threads : Owns(t) /\ Owns(u) /\ msg[t] = msg[u] => t = u
  /\ \A t \in Threads : pc[t] = "post_reply" => msg[t] \notin async

IInv == TypeOK /\ Ownership

-----------------------------------------------------------------------------
LEMMA InitIInv == Init => IInv
<1> SUFFICES ASSUME Init PROVE IInv
  OBVIOUS
<1>1. TypeOK
  <2>1. ControlTypeOK
    BY DEF Init, ControlInit, ControlTypeOK
  <2> <<>> \in Seq(Messages)
    OBVIOUS
  <2>2. /\ queue \in Seq(Messages)
        /\ allocated = {} /\ async = {} /\ flushing \in BOOLEAN
        /\ object_lock = NONE /\ queue_lock = NONE
    <3>1. queue = <<>> /\ flushing = FALSE
      BY DEF Init
    <3>2. allocated = {} /\ async = {} /\ object_lock = NONE /\ queue_lock = NONE
      BY DEF Init
    <3> QED
      BY <3>1, <3>2
  <2>3. /\ pc = [t \in Threads |-> "none"] /\ op = [t \in Threads |-> "none"]
        /\ msg = [t \in Threads |-> NONE]
    BY DEF Init
  <2> QED
    BY <2>1, <2>2, <2>3 DEF TypeOK
<1>2. Ownership
  BY DEF Init, Ownership, Owns, PoppedSteps
<1> QED
  BY <1>1, <1>2 DEF IInv

(* A message enters the queue: one its owner pushes. *)
LEMMA PushIInv ==
  ASSUME IInv, NEW t \in Threads, ReplyPass(t) \/ ReplyAsync(t)
  PROVE  IInv'
<1> USE BusAssumption DEF IInv, At, GoTo
<1>1. /\ pc[t] = "post_reply" /\ pc'[t] \notin PoppedSteps \cup {"post_reply"}
      /\ \A u \in Threads : u # t => pc'[u] = pc[u]
      /\ msg' = msg /\ allocated' = allocated
      /\ queue' = Append(queue, msg[t])
      /\ async' \subseteq async \cup {msg[t]}
  BY DEF ReplyPass, ReplyAsync, TypeOK, PoppedSteps
<1>2. /\ msg[t] \in allocated /\ msg[t] \in Messages /\ queue \in Seq(Messages)
      /\ \A i \in 1..Len(queue) : queue[i] # msg[t]
  BY <1>1 DEF Ownership, Owns, TypeOK
<1>3. /\ queue' \in Seq(Messages) /\ Len(queue') = Len(queue) + 1 /\ Len(queue) \in Nat
      /\ \A i \in 1..Len(queue') : queue'[i] = IF i = Len(queue') THEN msg[t] ELSE queue[i]
  BY <1>1, <1>2, AppendProperties
<1>4. TypeOK'
  <2>1. ControlTypeOK'
    BY DEF ReplyPass, ReplyAsync, TypeOK, ControlTypeOK, ctlVars
  <2>2. allocated' \subseteq Messages /\ async' \subseteq allocated'
    BY <1>1, <1>2 DEF TypeOK
  <2>3. /\ pc' = [pc EXCEPT ![t] = pc'[t]] /\ pc'[t] \in {"post_write", "async_write"}
        /\ UNCHANGED <<flushing, object_lock, queue_lock, op, msg>>
    BY DEF ReplyPass, ReplyAsync, TypeOK
  <2> QED
    BY <1>3, <2>1, <2>2, <2>3 DEF TypeOK
<1>5. \A u \in Threads : Owns(u)' => Owns(u) /\ u # t /\ msg'[u] = msg[u] /\ msg[u] # msg[t]
  BY <1>1 DEF Owns, Ownership
<1>6. Ownership'
  BY <1>1, <1>2, <1>3, <1>5 DEF Ownership, Owns
<1> QED
  BY <1>4, <1>6

(* ... and leaves it, for the thread that popped it.                       *)
LEMMA PopIInv ==
  ASSUME IInv, NEW t \in Threads, PopTake(t)
  PROVE  IInv'
<1> USE BusAssumption DEF IInv, At, GoTo
<1>1. /\ pc[t] = "pop_take" /\ pc'[t] = "pop_read"
      /\ \A u \in Threads : u # t => pc'[u] = pc[u] /\ msg'[u] = msg[u]
      /\ msg'[t] = Head(queue) /\ queue' = Tail(queue) /\ queue # <<>> /\ queue \in Seq(Messages)
      /\ UNCHANGED <<allocated, async>>
  BY DEF PopTake, TypeOK
<1>2. /\ Head(queue) = queue[1] /\ Len(queue) \in Nat \ {0} /\ Head(queue) \in Messages
      /\ queue' \in Seq(Messages) /\ Len(queue') = Len(queue) - 1
      /\ \A i \in 1..Len(queue') : queue'[i] = queue[i + 1]
  BY <1>1, HeadTailProperties
<1>3. TypeOK'
  BY <1>1, <1>2 DEF PopTake, TypeOK, ControlTypeOK, ctlVars
<1>4. \A u \in Threads : Owns(u)' => u = t \/ (Owns(u) /\ msg'[u] = msg[u])
  BY <1>1 DEF Owns
<1>5. \A u \in Threads : u # t /\ Owns(u)' => msg'[u] # msg'[t]
  BY <1>1, <1>2, <1>4 DEF Ownership
<1>6. Ownership'
  BY <1>1, <1>2, <1>4, <1>5 DEF Ownership, Owns
<1> QED
  BY <1>3, <1>6

(* A message is allocated by the one who posts it, and freed by its owner. *)
LEMMA PostIInv ==
  ASSUME IInv, NEW t \in Threads, NEW m \in Messages, Post(t, m)
  PROVE  IInv'
<1> USE BusAssumption DEF IInv, At, GoTo
<1>1. /\ pc[t] = "none" /\ pc'[t] = "post_reply"
      /\ \A u \in Threads : u # t => pc'[u] = pc[u] /\ msg'[u] = msg[u]
      /\ msg'[t] = m /\ m \notin allocated /\ allocated' = allocated \cup {m}
      /\ UNCHANGED <<queue, async>>
  BY DEF Post, TypeOK
<1>2. m \notin async
  BY <1>1 DEF TypeOK
<1>3. TypeOK'
  BY <1>1 DEF Post, TypeOK, ControlTypeOK, ctlVars
<1>4. \A u \in Threads : Owns(u)' => u = t \/ (Owns(u) /\ msg'[u] = msg[u] /\ msg[u] \in allocated)
  BY <1>1 DEF Owns, Ownership
<1>5. Ownership'
  BY <1>1, <1>2, <1>4 DEF Ownership, Owns
<1> QED
  BY <1>3, <1>5

LEMMA FreeIInv ==
  ASSUME IInv, NEW t \in Threads, ReplyDrop(t) \/ FreeMemory(t)
  PROVE  IInv'
<1> USE BusAssumption DEF IInv, At, GoTo
<1>1. /\ Owns(t) /\ pc'[t] \in {"none", "pop_take", "pop_lock"}
      /\ \A u \in Threads : u # t => pc'[u] = pc[u] /\ msg'[u] = msg[u]
      /\ allocated' = allocated \ {msg[t]} /\ queue' = queue
      /\ async' \subseteq async
      /\ async' \subseteq allocated'
  BY DEF ReplyDrop, FreeMemory, EndPost, Owns, PoppedSteps, TypeOK, Ownership
<1>2. TypeOK'
  <2>1. CASE ReplyDrop(t)
    BY <1>1, <2>1 DEF ReplyDrop, EndPost, TypeOK, ControlTypeOK, ctlVars
  <2>2. CASE FreeMemory(t)
    BY <1>1, <2>2 DEF FreeMemory, TypeOK, ControlTypeOK, ctlVars
  <2> QED
    BY <2>1, <2>2
<1>3. \A u \in Threads : Owns(u)' => u # t /\ Owns(u) /\ msg'[u] = msg[u] /\ msg[u] # msg[t]
  BY <1>1 DEF Owns, PoppedSteps, Ownership
<1>4. \A i \in 1..Len(queue) : queue[i] # msg[t]
  BY <1>1 DEF Ownership
<1>5. Ownership'
  BY <1>1, <1>3, <1>4 DEF Ownership, Owns
<1> QED
  BY <1>2, <1>5

(* Every other step leaves the messages where they are. *)
LEMMA OtherIInv ==
  ASSUME IInv, UNCHANGED <<queue, allocated, async>>, TypeOK',
         \A t \in Threads : Owns(t)' => Owns(t) /\ msg'[t] = msg[t],
         \A t \in Threads : pc'[t] = "post_reply" => pc[t] = "post_reply"
  PROVE  IInv'
<1>1. Ownership
  BY DEF IInv
<1>2. /\ \A i, j \in 1..Len(queue') : queue'[i] = queue'[j] => i = j
      /\ \A i \in 1..Len(queue') : queue'[i] \in allocated'
  BY <1>1 DEF Ownership
<1>3. \A t \in Threads : Owns(t)' =>
        /\ msg'[t] \in allocated'
        /\ \A i \in 1..Len(queue') : queue'[i] # msg'[t]
  BY <1>1 DEF Ownership
<1>4. \A t, u \in Threads : Owns(t)' /\ Owns(u)' /\ msg'[t] = msg'[u] => t = u
  BY <1>1 DEF Ownership
<1>5. \A t \in Threads : pc'[t] = "post_reply" => msg'[t] \notin async'
  BY <1>1 DEF Ownership, Owns
<1> QED
  BY <1>2, <1>3, <1>4, <1>5 DEF IInv, Ownership

LEMMA NextIInv == IInv /\ [Next]_vars => IInv'
<1> SUFFICES ASSUME IInv, [Next]_vars PROVE IInv'
  OBVIOUS
<1> USE BusAssumption DEF At, GoTo
<1>0. TypeOK
  BY DEF IInv
<1>1. ASSUME NEW t \in Threads, PostWrite(t) \/ Spurious(t) \/ AsyncDone(t)
      PROVE  IInv'
  <2>1. TypeOK'
    BY <1>0, <1>1
    DEF PostWrite, Raise, Spurious, AsyncDone, EndPost, TypeOK, ControlTypeOK, ctlVars, busVars
  <2>2. /\ pc'[t] \notin PoppedSteps \cup {"post_reply"}
        /\ \A u \in Threads : u # t => pc'[u] = pc[u] /\ msg'[u] = msg[u]
        /\ UNCHANGED <<queue, allocated, async>>
    BY <1>0, <1>1 DEF PostWrite, Spurious, AsyncDone, EndPost, PoppedSteps, TypeOK, busVars
  <2> QED
    BY <2>1, <2>2, OtherIInv DEF Owns
<1>2. ASSUME NEW t \in Threads,
             \/ Pop(t, "pop") \/ Pop(t, "filter") \/ SetFlushing(t) \/ UnsetFlushing(t)
             \/ PopLock(t) \/ PopReturns(t) \/ PopWaits(t) \/ Woken(t) \/ Expires(t)
      PROVE  IInv'
  <2>1. TypeOK'
    <3>1. CASE Pop(t, "pop") \/ Pop(t, "filter")
      BY <1>0, <3>1 DEF Pop, TypeOK, ControlTypeOK, ctlVars
    <3>2. CASE SetFlushing(t)
      <4>1. /\ flushing' = TRUE /\ object_lock' = t
            /\ UNCHANGED <<ctlVars, queue, allocated, async, queue_lock, msg>>
            /\ pc' = [pc EXCEPT ![t] = "pop_lock"] /\ op' = [op EXCEPT ![t] = "flush"]
        BY <3>2 DEF SetFlushing
      <4> QED
        BY <1>0, <4>1 DEF TypeOK, ControlTypeOK, ctlVars
    <3>6. CASE UnsetFlushing(t)
      <4>1. /\ flushing' = FALSE
            /\ UNCHANGED <<ctlVars, queue, allocated, async, object_lock, queue_lock, op, msg, pc>>
        BY <3>6 DEF UnsetFlushing
      <4> QED
        BY <1>0, <4>1 DEF TypeOK, ControlTypeOK, ctlVars
    <3>3. CASE PopLock(t) \/ PopWaits(t)
      BY <1>0, <3>3 DEF PopLock, PopWaits, TypeOK, ControlTypeOK, ctlVars
    <3>4. CASE PopReturns(t)
      BY <1>0, <3>4 DEF PopReturns, TypeOK, ControlTypeOK, ctlVars
    <3>5. CASE Woken(t) \/ Expires(t)
      BY <1>0, <3>5 DEF Woken, Expires, TypeOK, ControlTypeOK, ctlVars, busVars
    <3> QED
      BY <1>2, <3>1, <3>2, <3>3, <3>4, <3>5, <3>6
  <2>2. /\ pc'[t] \notin PoppedSteps \cup {"post_reply"}
        /\ \A u \in Threads : u # t => pc'[u] = pc[u]
        /\ UNCHANGED <<queue, allocated, async, msg>>
    BY <1>0, <1>2
    DEF Pop, SetFlushing, UnsetFlushing, PopLock, PopReturns, PopWaits, Woken, Expires,
        PoppedSteps, TypeOK, busVars
  <2> QED
    BY <2>1, <2>2, OtherIInv DEF Owns
<1>3. ASSUME NEW t \in Threads, PopRead(t) \/ PopGot(t)
      PROVE  IInv'
  <2>1. TypeOK'
    BY <1>0, <1>3 DEF PopRead, Release, PopGot, TypeOK, ControlTypeOK, ctlVars, busVars
  <2>2. /\ pc[t] \in PoppedSteps /\ pc'[t] \in PoppedSteps
        /\ \A u \in Threads : u # t => pc'[u] = pc[u]
        /\ UNCHANGED <<queue, allocated, async, msg>>
    BY <1>0, <1>3 DEF PopRead, PopGot, PoppedSteps, TypeOK, busVars
  <2> QED
    BY <2>1, <2>2, OtherIInv DEF Owns, PoppedSteps
<1>4. ASSUME NEW t \in Threads, FreeSignal(t)
      PROVE  IInv'
  <2>1. TypeOK'
    BY <1>0, <1>4 DEF FreeSignal, TypeOK, ControlTypeOK, ctlVars, busVars
  <2>2. /\ pc[t] \in PoppedSteps /\ pc'[t] \in PoppedSteps
        /\ \A u \in Threads :
             u # t => pc'[u] = pc[u] \/ (pc[u] = "async_wait" /\ pc'[u] = "async_woken")
        /\ UNCHANGED <<queue, allocated, async, msg>>
    BY <1>0, <1>4 DEF FreeSignal, PoppedSteps, TypeOK, busVars
  <2> QED
    BY <2>1, <2>2, OtherIInv DEF Owns, PoppedSteps
<1>5. ASSUME NEW t \in Threads, Finish(t)
      PROVE  IInv'
  <2>1. TypeOK'
    BY <1>0, <1>5
    DEF Finish, FinishControl, WakeEvent, ReleaseEvent, TypeOK, ControlTypeOK, busVars
  <2> QED
    BY <1>5, <2>1, OtherIInv DEF Finish, busVars, Owns
<1>6. CASE UNCHANGED vars
  BY <1>6
  DEF vars, ctlVars, busVars, IInv, TypeOK, ControlTypeOK, Ownership, Owns
<1> QED
  BY <1>1, <1>2, <1>3, <1>4, <1>5, <1>6, PostIInv, PushIInv, PopIInv, FreeIInv
  DEF Next, Continue

LEMMA Inductive == Spec => []IInv
BY InitIInv, NextIInv, PTL DEF Spec

-----------------------------------------------------------------------------
(* Every variable of a bus keeps its type; only allocated messages have a  *)
(* condition.                                                              *)
THEOREM TypeCorrect == Spec => []TypeOK
<1>1. IInv => TypeOK
  BY DEF IInv
<1> QED
  BY <1>1, Inductive, PTL

(* gst_bus_post gives the message away: a message is on the bus or in the  *)
(* hands of the one thread that popped it, not freed and not queued twice. *)
THEOREM MessagesAreOwnedOnce == Spec => []OwnedOnce
<1>1. ASSUME IInv PROVE OwnedOnce
  <2>1. queue \in Seq(Messages) /\ Poppers \subseteq Threads
    BY <1>1, BusAssumption DEF IInv, TypeOK
  <2>2. IsInjective(queue)
    BY <1>1, <2>1 DEF IInv, Ownership, IsInjective
  <2>3. ToSet(queue) \subseteq allocated
    BY <1>1, <2>1 DEF IInv, Ownership, ToSet
  <2> QED
    BY <1>1, <2>1, <2>2, <2>3 DEF OwnedOnce, IInv, Ownership, Owns, PoppedSteps, Contains
<1> QED
  BY <1>1, Inductive, PTL

-----------------------------------------------------------------------------
(* The refinement.  What the poll sees of a thread at a step of a call. *)
Todo(step) ==
  CASE step \in {"post_write", "async_write"} -> "write_control"
    [] step = "pop_read" -> "read_control"
    [] step = "wait" -> "wait"
    [] OTHER -> "none"

(* A thread that posts holds a message that is not queued, and the bus     *)
(* holds none twice: there is room in the bound.                           *)
LEMMA RoomForOne ==
  ASSUME IInv, NEW t \in Threads, pc[t] = "post_reply"
  PROVE  Len(queue) < Cardinality(Messages)
<1> DEFINE others == Messages \ {msg[t]}
<1>1. /\ queue \in Seq(Messages) /\ Len(queue) \in Nat
      /\ msg[t] \in Messages
      /\ \A i \in 1..Len(queue) : queue[i] # msg[t]
      /\ \A i, j \in 1..Len(queue) : queue[i] = queue[j] => i = j
  BY DEF IInv, TypeOK, Ownership, Owns
<1>2. /\ IsFiniteSet(others) /\ Cardinality(others) = Cardinality(Messages) - 1
      /\ Cardinality(Messages) \in Nat /\ Cardinality(others) \in Nat
  BY <1>1, BusAssumption, FS_RemoveElement, FS_CardinalityType
<1>3. IsFiniteSet(1..Len(queue)) /\ Cardinality(1..Len(queue)) = Len(queue)
  <2> DEFINE l == Len(queue)
  <2>1. l \in Nat /\ l \in Int /\ 1 \in Int
    BY <1>1
  <2> HIDE DEF l
  <2>2. IsFiniteSet(1..l) /\ Cardinality(1..l) = IF 1 > l THEN 0 ELSE l - 1 + 1
    BY <2>1, FS_Interval
  <2>3. IsFiniteSet(1..l) /\ Cardinality(1..l) = l
    BY <2>1, <2>2
  <2> QED
    BY <2>3 DEF l
<1>4. queue \in [1..Len(queue) -> others]
  BY <1>1
<1>5. ~(Cardinality(others) < Cardinality(1..Len(queue)))
  <2> HIDE DEF others
  <2> QED
    BY <1>1, <1>2, <1>3, <1>4, FS_PigeonHole
<1> QED
  BY <1>1, <1>2, <1>3, <1>5

(* A step of t that changes what the poll sees of t and of the queue the   *)
(* way one of the client's actions does is a step of GstPollTimer.         *)
LEMMA ClientStep ==
  ASSUME NEW t \in Threads,
         \A u \in Threads : u # t => Todo(pc'[u]) = Todo(pc[u]),
         \/ /\ ctl[t] = "idle" /\ UNCHANGED ctlVars
            /\ \/ /\ Todo(pc[t]) = "none" /\ Todo(pc'[t]) = "write_control"
                  /\ Len(queue) < Cardinality(Messages) /\ Len(queue') = Len(queue) + 1
               \/ /\ Todo(pc[t]) = "none" /\ Todo(pc'[t]) = "read_control"
                  /\ Len(queue) > 0 /\ Len(queue') = Len(queue) - 1
               \/ /\ Todo(pc[t]) = "none" /\ Todo(pc'[t]) = "wait"
                  /\ queue' = queue
         \/ /\ Todo(pc[t]) = "wait" /\ Todo(pc'[t]) = "none"
            /\ queue' = queue /\ UNCHANGED ctlVars
         \/ /\ Todo(pc[t]) = "write_control" /\ Todo(pc'[t]) = "none" /\ Raise(t)
            /\ queue' = queue
         \/ /\ Todo(pc[t]) = "read_control" /\ Todo(pc'[t]) = "none" /\ Release(t)
            /\ queue' = queue
         \/ FinishControl(t) /\ Todo(pc'[t]) = Todo(pc[t]) /\ queue' = queue
         \/ UNCHANGED ctlVars /\ Todo(pc'[t]) = Todo(pc[t]) /\ queue' = queue
  PROVE  [Poll!Next]_(Poll!vars)
<1> DEFINE todo == [u \in Threads |-> Todo(pc[u])]
<1>1. todo' = [todo EXCEPT ![t] = Todo(pc'[t])] /\ todo[t] = Todo(pc[t])
  OBVIOUS
<1>2. CASE /\ ctl[t] = "idle" /\ UNCHANGED ctlVars
           /\ Todo(pc[t]) = "none" /\ Todo(pc'[t]) = "write_control"
           /\ Len(queue) < Cardinality(Messages) /\ Len(queue') = Len(queue) + 1
  <2>1. Poll!Enqueue(t)
    BY <1>1, <1>2 DEF Poll!Enqueue, Poll!Free, Poll!ctlVars, ctlVars, Todo
  <2> QED
    BY <2>1 DEF Poll!Next
<1>3. CASE /\ ctl[t] = "idle" /\ UNCHANGED ctlVars
           /\ Todo(pc[t]) = "none" /\ Todo(pc'[t]) = "read_control"
           /\ Len(queue) > 0 /\ Len(queue') = Len(queue) - 1
  <2>1. Poll!Dequeue(t)
    BY <1>1, <1>3 DEF Poll!Dequeue, Poll!Free, Poll!ctlVars, ctlVars, Todo
  <2> QED
    BY <2>1 DEF Poll!Next
<1>4. CASE /\ ctl[t] = "idle" /\ UNCHANGED ctlVars /\ queue' = queue
           /\ Todo(pc[t]) = "none" /\ Todo(pc'[t]) = "wait"
  <2>1. Poll!Wait(t)
    BY <1>1, <1>4 DEF Poll!Wait, Poll!Free, Poll!ctlVars, ctlVars, Todo
  <2> QED
    BY <2>1 DEF Poll!Next
<1>5. CASE /\ UNCHANGED ctlVars /\ queue' = queue
           /\ Todo(pc[t]) = "wait" /\ Todo(pc'[t]) = "none"
  <2>1. Poll!TimedOut(t)
    BY <1>1, <1>5 DEF Poll!TimedOut, Poll!ctlVars, ctlVars, Todo
  <2> QED
    BY <2>1 DEF Poll!Next
<1>6. CASE /\ Todo(pc[t]) = "write_control" /\ Todo(pc'[t]) = "none" /\ Raise(t)
           /\ queue' = queue
  <2>1. Poll!WriteControl(t)
    BY <1>1, <1>6 DEF Poll!WriteControl, Poll!Raise, Raise, Todo
  <2> QED
    BY <2>1 DEF Poll!Next, Poll!Continue
<1>7. CASE /\ Todo(pc[t]) = "read_control" /\ Todo(pc'[t]) = "none" /\ Release(t)
           /\ queue' = queue
  <2>1. Poll!ReadControl(t)
    BY <1>1, <1>7 DEF Poll!ReadControl, Poll!Release, Release, Todo
  <2> QED
    BY <2>1 DEF Poll!Next, Poll!Continue
<1>8. Todo(pc'[t]) = Todo(pc[t]) => todo' = todo
  BY <1>1
<1>9. CASE FinishControl(t) /\ Todo(pc'[t]) = Todo(pc[t]) /\ queue' = queue
  <2>1. Poll!FinishControl(t)
    BY <1>9
    DEF Poll!FinishControl, Poll!WakeEvent, Poll!ReleaseEvent, FinishControl, WakeEvent,
        ReleaseEvent
  <2>2. Poll!Finish(t)
    BY <1>8, <1>9, <2>1 DEF Poll!Finish, Todo
  <2> QED
    BY <2>2 DEF Poll!Next, Poll!Continue
<1>10. CASE UNCHANGED ctlVars /\ Todo(pc'[t]) = Todo(pc[t]) /\ queue' = queue
  BY <1>8, <1>10 DEF Poll!vars, ctlVars, Todo
<1> QED
  BY <1>2, <1>3, <1>4, <1>5, <1>6, <1>7, <1>9, <1>10

(* Each action of the bus is one action of a client of the poll, or, when  *)
(* neither the queue nor a poll call is concerned, a stutter.              *)
LEMMA StepRefines ==
  ASSUME IInv, [Next]_vars
  PROVE  [Poll!Next]_(Poll!vars)
<1> USE DEF At, GoTo
<1>0. /\ queue \in Seq(Messages) /\ Len(queue) \in Nat
      /\ \A t \in Threads : \A step : pc' = [pc EXCEPT ![t] = step] =>
            /\ pc'[t] = step
            /\ \A u \in Threads : u # t => pc'[u] = pc[u]
  BY DEF IInv, TypeOK
<1>1. ASSUME NEW t \in Threads, ReplyPass(t) \/ ReplyAsync(t)
      PROVE  [Poll!Next]_(Poll!vars)
  <2>1. /\ ctl[t] = "idle" /\ UNCHANGED ctlVars /\ queue' = Append(queue, msg[t])
        /\ pc[t] = "post_reply" /\ pc'[t] \in {"post_write", "async_write"}
        /\ \A u \in Threads : u # t => pc'[u] = pc[u]
    BY <1>0, <1>1 DEF ReplyPass, ReplyAsync
  <2>2. Len(queue) < Cardinality(Messages) /\ msg[t] \in Messages
    BY <2>1, RoomForOne DEF IInv, Ownership, Owns, TypeOK
  <2>3. Len(queue') = Len(queue) + 1
    BY <1>0, <2>1, <2>2, AppendProperties
  <2>4. Todo(pc[t]) = "none" /\ Todo(pc'[t]) = "write_control"
    BY <2>1 DEF Todo
  <2> QED
    BY <2>1, <2>2, <2>3, <2>4, ClientStep
<1>2. ASSUME NEW t \in Threads, PopTake(t)
      PROVE  [Poll!Next]_(Poll!vars)
  <2>1. /\ ctl[t] = "idle" /\ UNCHANGED ctlVars /\ queue # <<>> /\ queue' = Tail(queue)
        /\ pc[t] = "pop_take" /\ pc'[t] = "pop_read"
        /\ \A u \in Threads : u # t => pc'[u] = pc[u]
    BY <1>0, <1>2 DEF PopTake
  <2>2. Len(queue) > 0 /\ Len(queue') = Len(queue) - 1
    BY <1>0, <2>1, HeadTailProperties
  <2>3. Todo(pc[t]) = "none" /\ Todo(pc'[t]) = "read_control"
    BY <2>1 DEF Todo
  <2> QED
    BY <2>1, <2>2, <2>3, ClientStep
<1>3. ASSUME NEW t \in Threads, PopWaits(t)
      PROVE  [Poll!Next]_(Poll!vars)
  <2>1. /\ ctl[t] = "idle" /\ UNCHANGED ctlVars /\ queue' = queue
        /\ pc[t] = "pop_take" /\ pc'[t] = "wait"
        /\ \A u \in Threads : u # t => pc'[u] = pc[u]
    BY <1>0, <1>3 DEF PopWaits
  <2>2. Todo(pc[t]) = "none" /\ Todo(pc'[t]) = "wait"
    BY <2>1 DEF Todo
  <2> QED
    BY <2>1, <2>2, ClientStep
<1>4. ASSUME NEW t \in Threads, Woken(t) \/ Expires(t)
      PROVE  [Poll!Next]_(Poll!vars)
  <2>1. /\ UNCHANGED ctlVars /\ queue' = queue
        /\ pc[t] = "wait" /\ pc'[t] \in {"pop_lock", "pop_expired"}
        /\ \A u \in Threads : u # t => pc'[u] = pc[u]
    BY <1>0, <1>4 DEF Woken, Expires, busVars
  <2>2. Todo(pc[t]) = "wait" /\ Todo(pc'[t]) = "none"
    BY <2>1 DEF Todo
  <2> QED
    BY <2>1, <2>2, ClientStep
<1>5. ASSUME NEW t \in Threads, PostWrite(t)
      PROVE  [Poll!Next]_(Poll!vars)
  <2>1. /\ Raise(t) /\ queue' = queue
        /\ pc[t] \in {"post_write", "async_write"} /\ pc'[t] \in {"none", "async_wait"}
        /\ \A u \in Threads : u # t => pc'[u] = pc[u]
    BY <1>0, <1>5 DEF PostWrite, EndPost
  <2>2. Todo(pc[t]) = "write_control" /\ Todo(pc'[t]) = "none"
    BY <2>1 DEF Todo
  <2> QED
    BY <2>1, <2>2, ClientStep
<1>6. ASSUME NEW t \in Threads, PopRead(t)
      PROVE  [Poll!Next]_(Poll!vars)
  <2>1. /\ Release(t) /\ queue' = queue
        /\ pc[t] = "pop_read" /\ pc'[t] = "pop_got"
        /\ \A u \in Threads : u # t => pc'[u] = pc[u]
    BY <1>0, <1>6 DEF PopRead, busVars
  <2>2. Todo(pc[t]) = "read_control" /\ Todo(pc'[t]) = "none"
    BY <2>1 DEF Todo
  <2> QED
    BY <2>1, <2>2, ClientStep
<1>7. ASSUME NEW t \in Threads, Finish(t)
      PROVE  [Poll!Next]_(Poll!vars)
  BY <1>7, ClientStep DEF Finish, busVars
<1>8. ASSUME NEW t \in Threads,
             \/ (\E m \in Messages : Post(t, m)) \/ ReplyDrop(t) \/ Spurious(t) \/ AsyncDone(t)
             \/ Pop(t, "pop") \/ Pop(t, "filter") \/ SetFlushing(t)
             \/ PopLock(t) \/ PopGot(t) \/ PopReturns(t) \/ FreeMemory(t)
      PROVE  [Poll!Next]_(Poll!vars)
  <2> DEFINE quiet == {"none", "post_reply", "async_wait", "async_woken", "pop_lock",
                       "pop_take", "pop_got", "pop_expired", "free", "free_memory"}
  <2>1. UNCHANGED <<ctlVars, queue>>
    BY <1>8
    DEF Post, ReplyDrop, Spurious, AsyncDone, Pop, SetFlushing, PopLock, PopGot, PopReturns,
        FreeMemory, busVars
  <2>2. /\ pc[t] \in quiet /\ pc'[t] \in quiet
        /\ \A u \in Threads : u # t => pc'[u] = pc[u]
    BY <1>0, <1>8
    DEF Post, ReplyDrop, Spurious, AsyncDone, Pop, SetFlushing, PopLock, PopGot, PopReturns,
        FreeMemory, EndPost
  <2>3. Todo(pc[t]) = "none" /\ Todo(pc'[t]) = "none"
    BY <2>2 DEF Todo
  <2> QED
    BY <2>1, <2>2, <2>3, ClientStep
<1>9. ASSUME NEW t \in Threads, FreeSignal(t)
      PROVE  [Poll!Next]_(Poll!vars)
  <2>1. /\ UNCHANGED <<ctlVars, queue>> /\ pc[t] = "free" /\ pc'[t] = "free_memory"
        /\ \A u \in Threads :
             u # t => pc'[u] = pc[u] \/ (pc[u] = "async_wait" /\ pc'[u] = "async_woken")
    BY <1>9 DEF FreeSignal, busVars
  <2>2. \A u \in Threads : Todo(pc'[u]) = Todo(pc[u])
    BY <2>1 DEF Todo
  <2> QED
    BY <2>1, <2>2, ClientStep
<1>10. CASE UNCHANGED <<ctlVars, queue, pc>>
  BY <1>10 DEF ctlVars, Poll!vars
<1> QED
  BY <1>1, <1>2, <1>3, <1>4, <1>5, <1>6, <1>7, <1>8, <1>9, <1>10
  DEF Next, Continue, UnsetFlushing, vars, busVars

(* GstBus uses its poll as GstPollTimer describes: one write of the control*)
(* socket after each push, one read after each pop.                        *)
THEOREM ClientOfPoll == Spec => ImplementsPollClient
<1>1. Init => Poll!Init
  <2> SUFFICES ASSUME Init PROVE Poll!Init
    OBVIOUS
  <2>1. pc = [t \in Threads |-> "none"] /\ queue = <<>> /\ ControlInit
    BY DEF Init
  <2> QED
    BY <2>1 DEF Poll!Init, Poll!ControlInit, ControlInit
<1>2. IInv /\ [Next]_vars => [Poll!Next]_(Poll!vars)
  BY StepRefines
<1> QED
  BY <1>1, <1>2, Inductive, PTL DEF Spec, ImplementsPollClient, Poll!Spec

(* What GstPollTimer_proofs proves of the clients of a timer poll. *)
PollProofs == INSTANCE GstPollTimer_proofs WITH
  MaxQueued <- Cardinality(Messages),
  queued <- Len(queue),
  todo <- [t \in Threads |->
             CASE pc[t] \in {"post_write", "async_write"} -> "write_control"
               [] pc[t] = "pop_read" -> "read_control"
               [] pc[t] = "wait" -> "wait"
               [] OTHER -> "none"]

(* gst_bus_timed_pop, and the main loop's watch, wait on the control       *)
(* socket: with no call to the poll under way, nobody sleeps while a       *)
(* message is on the bus.                                                  *)
THEOREM WaitersAreWoken == Spec => []Poll!NoLostWakeup
<1>1. Poll!Init => PollProofs!Init
  BY DEF Poll!Init, PollProofs!Init, Poll!ControlInit, PollProofs!ControlInit
<1>2. [Poll!Next]_(Poll!vars) => [PollProofs!Next]_(PollProofs!vars)
  BY Zenon
  DEF Poll!Next, PollProofs!Next, Poll!vars, PollProofs!vars, Poll!Continue, PollProofs!Continue,
      Poll!Enqueue, PollProofs!Enqueue, Poll!Dequeue, PollProofs!Dequeue, Poll!Wait,
      PollProofs!Wait, Poll!TimedOut, PollProofs!TimedOut, Poll!Wake, PollProofs!Wake,
      Poll!WriteControl, PollProofs!WriteControl, Poll!ReadControl, PollProofs!ReadControl,
      Poll!Finish, PollProofs!Finish, Poll!Free, PollProofs!Free, Poll!ctlVars,
      PollProofs!ctlVars, Poll!Raise, PollProofs!Raise, Poll!Release, PollProofs!Release,
      Poll!Readable, PollProofs!Readable, Poll!FinishControl, PollProofs!FinishControl,
      Poll!WakeEvent, PollProofs!WakeEvent, Poll!ReleaseEvent, PollProofs!ReleaseEvent
<1>3. PollProofs!NoLostWakeup => Poll!NoLostWakeup
  BY DEF PollProofs!NoLostWakeup, Poll!NoLostWakeup, PollProofs!Settled, Poll!Settled,
         PollProofs!CallsTodo, Poll!CallsTodo, PollProofs!Readable, Poll!Readable
<1>4. PollProofs!IsFiniteSet(Threads)
  BY ThreadsAssumption DEF IsFiniteSet, PollProofs!IsFiniteSet
<1>5. Cardinality(Messages) \in Nat
  BY BusAssumption, FS_CardinalityType
<1>6. PollProofs!Spec => []PollProofs!NoLostWakeup
  BY <1>4, <1>5, PollProofs!NoWakeupLost, PTL
<1> QED
  BY <1>1, <1>2, <1>3, <1>6, ClientOfPoll, PTL DEF ImplementsPollClient, Poll!Spec, PollProofs!Spec

-----------------------------------------------------------------------------
(* The watches of the bus (GstBusWatch), for any set of callers, any set   *)
(* of source addresses and any bound on the watchers.  The argument:       *)
(* watch_id is all the bus needs to own, because a source that is not free *)
(* is the one watch_id points at (OneSource), so that a new watch is only  *)
(* attached when no other source is left; and a thread about to remove the *)
(* signal watch is the only one, with nobody counted meanwhile.            *)

(* A source lives exactly as long as the bus points at it. *)
OneSource ==
  /\ \A s \in Sources : source[s] # "free" => watch_id = s
  /\ WatchIdAlive

(* Between the unlock of gst_bus_remove_signal_watch and its               *)
(* g_source_remove the source is intact, and no one else counts on it.     *)
RemovingAlone ==
  \A t \in Callers :
    removing[t] # NO_SOURCE =>
      /\ num_signal_watchers = 0
      /\ source[removing[t]] = "signal"
      /\ \A u \in Callers : removing[u] # NO_SOURCE => u = t

(* The bus never counts more signal watches, nor fewer emitters, than its  *)
(* callers do: no count goes below zero.                                   *)
CountsCovered ==
  /\ num_signal_watchers <= users
  /\ enabled <= num_sync_message_emitters

WatchIInv ==
  /\ WatchTypeOK
  /\ OneSource
  /\ RemovingAlone
  /\ CountsCovered
  /\ SignalWatchServed

-----------------------------------------------------------------------------
LEMMA WatchStart == WatchInit => WatchIInv
BY WatchAssumption
DEF WatchInit, WatchIInv, WatchTypeOK, OneSource, WatchIdAlive, RemovingAlone,
    CountsCovered, SignalWatchServed

(* The two ways a source is attached. *)
LEMMA WatchAttached ==
  ASSUME WatchIInv, NEW t \in Callers, AddWatch(t) \/ AddSignalWatch(t)
  PROVE  WatchIInv'
<1> USE WatchAssumption DEF WatchIInv, watchVars, emitVars
<1>1. PICK s \in Sources, owner \in {"app", "signal"} : Attach(s, owner)
  BY DEF AddWatch, AddSignalWatch
<1>2. /\ watch_id = NO_SOURCE /\ watch_id' = s /\ s # NO_SOURCE
      /\ \A r \in Sources : source[r] = "free"
      /\ \A u \in Callers : removing[u] = NO_SOURCE
      /\ removing' = removing
  BY <1>1 DEF Attach, OneSource, RemovingAlone, WatchTypeOK, AddWatch, AddSignalWatch
<1>3. WatchTypeOK'
  <2>1. source' \in [Sources -> {"free", "app", "signal", "destroyed"}]
    BY <1>1 DEF WatchTypeOK, Attach
  <2>2. /\ {dispatching', watch_id', signal_watch_id'} \subseteq Sources \cup {NO_SOURCE}
        /\ {num_signal_watchers', num_sync_message_emitters', users', enabled'} \subseteq Nat
        /\ removing' \in [Callers -> Sources \cup {NO_SOURCE}]
    BY <1>2 DEF WatchTypeOK, AddWatch, AddSignalWatch, Attach
  <2> QED
    BY <2>1, <2>2 DEF WatchTypeOK
<1>4. OneSource'
  BY <1>1, <1>2 DEF WatchTypeOK, OneSource, WatchIdAlive, Attach
<1>5. RemovingAlone'
  BY <1>2 DEF RemovingAlone
<1>6. CountsCovered'
  BY DEF WatchTypeOK, CountsCovered, AddWatch, AddSignalWatch
<1>7. SignalWatchServed'
  <2>1. CASE AddWatch(t)
    BY <2>1, <1>2 DEF WatchTypeOK, SignalWatchServed, AddWatch
  <2>2. CASE AddSignalWatch(t)
    BY <2>2 DEF WatchTypeOK, SignalWatchServed, AddSignalWatch, Attach
  <2> QED
    BY <2>1, <2>2
<1> QED
  BY <1>3, <1>4, <1>5, <1>6, <1>7

LEMMA WatchStep == WatchIInv /\ [WatchNext]_allWatchVars => WatchIInv'
<1> SUFFICES ASSUME WatchIInv, [WatchNext]_allWatchVars
             PROVE  WatchIInv'
  OBVIOUS
<1> USE WatchAssumption
    DEF WatchIInv, WatchTypeOK, OneSource, WatchIdAlive, RemovingAlone, CountsCovered,
        SignalWatchServed, watchVars, emitVars, Idle
<1>1. ASSUME NEW t \in Callers, RemoveWatch(t)
      PROVE  WatchIInv'
  BY <1>1 DEF RemoveWatch
<1>2. ASSUME NEW t \in Callers, ShareSignalWatch(t)
      PROVE  WatchIInv'
  BY <1>2 DEF ShareSignalWatch
<1>3. ASSUME NEW t \in Callers, AddSignalWatchFails(t)
      PROVE  WatchIInv'
  BY <1>3 DEF AddSignalWatchFails
<1>4. ASSUME NEW t \in Callers, RemoveSignalWatch(t)
      PROVE  WatchIInv'
  BY <1>4 DEF RemoveSignalWatch
<1>5. ASSUME NEW t \in Callers, RemoveSignalWatchFails(t)
      PROVE  WatchIInv'
  BY <1>5 DEF RemoveSignalWatchFails
<1>6. ASSUME NEW t \in Callers, SourceRemove(t)
      PROVE  WatchIInv'
  BY <1>6 DEF SourceRemove
<1>7. ASSUME NEW t \in Callers, EnableEmission(t) \/ DisableEmission(t)
      PROVE  WatchIInv'
  BY <1>7 DEF EnableEmission, DisableEmission
<1>8. ASSUME NEW s \in Sources, DispatchBegin(s)
      PROVE  WatchIInv'
  BY <1>8 DEF DispatchBegin
<1>9. ASSUME NEW s \in Sources, Finalize(s)
      PROVE  WatchIInv'
  BY <1>9 DEF Finalize
<1>10. CASE DispatchEnd
  BY <1>10 DEF DispatchEnd
<1>11. CASE UNCHANGED allWatchVars
  BY <1>11 DEF allWatchVars
<1> QED
  BY <1>1, <1>2, <1>3, <1>4, <1>5, <1>6, <1>7, <1>8, <1>9, <1>10, <1>11, WatchAttached
     DEF WatchNext

LEMMA WatchInductive == WatchSpec => []WatchIInv
<1> QED
  BY WatchStart, WatchStep, PTL DEF WatchSpec

-----------------------------------------------------------------------------
(* Every variable of the watches keeps its type; no count goes negative.   *)
THEOREM WatchTypeCorrect == WatchSpec => []WatchTypeOK
<1>1. WatchIInv => WatchTypeOK
  BY DEF WatchIInv
<1> QED
  BY <1>1, WatchInductive, PTL

(* While a caller's signal watch is counted, the source that serves it is  *)
(* attached; when none is, signal_watch_id is clear, as                    *)
(* gst_bus_add_signal_watch_full asserts.                                  *)
THEOREM SignalWatchIsServed == WatchSpec => []SignalWatchServed
<1>1. WatchIInv => SignalWatchServed
  BY DEF WatchIInv
<1> QED
  BY <1>1, WatchInductive, PTL

(* The bus never points at a finalized source, though it holds no          *)
(* reference on it.                                                        *)
THEOREM WatchIdStaysAlive == WatchSpec => []WatchIdAlive
<1>1. WatchIInv => WatchIdAlive
  BY DEF WatchIInv, OneSource
<1> QED
  BY <1>1, WatchInductive, PTL
=============================================================================
