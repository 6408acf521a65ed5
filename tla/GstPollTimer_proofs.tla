------------------------ MODULE GstPollTimer_proofs ------------------------
(***************************************************************************)
(* The safety invariants of GstPollTimer hold for every finite set of      *)
(* threads and every bound on the queue.  The argument counts: a step of a *)
(* thread t changes ctl and todo at t only, so the number of threads with  *)
(* a given value changes by at most one (CountUpdate), and each invariant  *)
(* becomes linear arithmetic over five numbers.                            *)
(***************************************************************************)
EXTENDS GstPollTimer, FiniteSetTheorems, TLAPS

(* 1 when the two are equal: the contribution of one thread to a count. *)
Eq(a, b) == IF a = b THEN 1 ELSE 0

(* The number of threads whose value in f is w. *)
Count(f, w) == Cardinality({x \in Threads : f[x] = w})

(* The converse of BytesCoverPending: bytes beyond the one a positive      *)
(* counter stands for were left by reads that came too early, and each     *)
(* such read was made by a thread while another still owed its write.      *)
SpareBytesBounded ==
  socket + Cardinality(CallsOwed("write"))
    <= Cardinality(Threads) + Cardinality(CallsOwed("read")) + (IF control_pending > 0 THEN 1 ELSE 0)

IInv ==
  /\ TypeOK
  /\ PendingCountsQueue
  /\ BytesCoverPending
  /\ SpareBytesBounded

-----------------------------------------------------------------------------
(* Changing one thread's value moves the number of threads that have the   *)
(* value w by one at most: the fact behind every counting step below.      *)
LEMMA CountUpdate ==
  ASSUME NEW f, NEW g, NEW w, NEW t \in Threads,
         \A x \in Threads \ {t} : g[x] = f[x]
  PROVE  /\ Count(f, w) \in Nat
         /\ Count(g, w) \in Nat
         /\ Count(g, w) = Count(f, w) + Eq(g[t], w) - Eq(f[t], w)
<1> DEFINE Old == {x \in Threads : f[x] = w}
           New == {x \in Threads : g[x] = w}
           Rest == {x \in Threads : x # t /\ f[x] = w}
<1>1. IsFiniteSet(Rest) /\ Rest \in SUBSET Threads
  BY FS_Subset, ThreadsAssumption
<1>2. Cardinality(Rest) \in Nat
  BY <1>1, FS_CardinalityType
<1>3. /\ t \notin Rest
      /\ Cardinality(Rest \cup {t}) = Cardinality(Rest) + 1
  <2>1. t \notin Rest
    OBVIOUS
  <2> HIDE DEF Rest
  <2> QED
    BY <1>1, <2>1, FS_AddElement
<1>4. Old = IF f[t] = w THEN Rest \cup {t} ELSE Rest
  OBVIOUS
<1>5. New = IF g[t] = w THEN Rest \cup {t} ELSE Rest
  OBVIOUS
<1> HIDE DEF Old, New, Rest
<1>6. Cardinality(Old) = Cardinality(Rest) + Eq(f[t], w)
  BY <1>2, <1>3, <1>4 DEF Eq
<1>7. Cardinality(New) = Cardinality(Rest) + Eq(g[t], w)
  BY <1>2, <1>3, <1>5 DEF Eq
<1>8. /\ Cardinality(Old) \in Nat
      /\ Cardinality(New) \in Nat
      /\ Cardinality(New) = Cardinality(Old) + Eq(g[t], w) - Eq(f[t], w)
  BY <1>2, <1>6, <1>7 DEF Eq
<1> QED
  BY <1>8 DEF Old, New, Count

(* The set of threads that satisfy a test is finite and no larger than the *)
(* set of threads, and disjoint tests share it.                            *)
LEMMA CountBounds ==
  ASSUME ctl \in [Threads -> {"idle", "write", "read"}]
  PROVE  /\ Cardinality(Threads) \in Nat
         /\ Cardinality(CallsOwed("write")) \in Nat
         /\ Cardinality(CallsOwed("read")) \in Nat
         /\ Cardinality(CallsOwed("write")) + Cardinality(CallsOwed("read"))
              <= Cardinality(Threads)
<1> DEFINE W == CallsOwed("write")
           R == CallsOwed("read")
<1>1. W \in SUBSET Threads /\ R \in SUBSET Threads /\ W \cap R = {}
  BY DEF CallsOwed
<1> HIDE DEF W, R
<1>2. IsFiniteSet(W) /\ IsFiniteSet(R)
  BY <1>1, FS_Subset, ThreadsAssumption
<1>3. Cardinality(W \cup R) = Cardinality(W) + Cardinality(R) - Cardinality({})
  BY <1>1, <1>2, FS_Union
<1>4. Cardinality(W \cup R) <= Cardinality(Threads)
  <2>1. W \cup R \in SUBSET Threads
    BY <1>1
  <2> QED
    BY <2>1, FS_Subset, ThreadsAssumption
<1>5. /\ Cardinality(Threads) \in Nat
      /\ Cardinality(W) \in Nat
      /\ Cardinality(R) \in Nat
  BY <1>2, FS_CardinalityType, ThreadsAssumption
<1>6. Cardinality({}) = 0
  BY FS_EmptySet
<1>7. Cardinality(W) + Cardinality(R) <= Cardinality(Threads)
  BY <1>3, <1>4, <1>5, <1>6
<1> QED
  BY <1>5, <1>7 DEF W, R

(* The calls threads owe the socket, when only thread t's entry changes. *)
LEMMA OwedUpdate ==
  ASSUME NEW t \in Threads, NEW op, \A x \in Threads \ {t} : ctl'[x] = ctl[x]
  PROVE  /\ Cardinality(CallsOwed(op)) \in Nat
         /\ Cardinality(CallsOwed(op))' \in Nat
         /\ Cardinality(CallsOwed(op))'
              = Cardinality(CallsOwed(op)) + Eq(ctl'[t], op) - Eq(ctl[t], op)
<1> DEFINE f == ctl
           g == ctl'
<1>1. \A x \in Threads \ {t} : g[x] = f[x]
  OBVIOUS
<1> HIDE DEF f, g
<1>2. /\ Count(f, op) \in Nat
      /\ Count(g, op) \in Nat
      /\ Count(g, op) = Count(f, op) + Eq(g[t], op) - Eq(f[t], op)
  BY <1>1, CountUpdate
<1> QED
  BY <1>2 DEF f, g, Count, CallsOwed

(* The same for the poll calls the clients have still to make. *)
LEMMA TodoUpdate ==
  ASSUME NEW t \in Threads, NEW op, \A x \in Threads \ {t} : todo'[x] = todo[x]
  PROVE  /\ Cardinality(CallsTodo(op)) \in Nat
         /\ Cardinality(CallsTodo(op))' \in Nat
         /\ Cardinality(CallsTodo(op))'
              = Cardinality(CallsTodo(op)) + Eq(todo'[t], op) - Eq(todo[t], op)
<1> DEFINE f == todo
           g == todo'
<1>1. \A x \in Threads \ {t} : g[x] = f[x]
  OBVIOUS
<1> HIDE DEF f, g
<1>2. /\ Count(f, op) \in Nat
      /\ Count(g, op) \in Nat
      /\ Count(g, op) = Count(f, op) + Eq(g[t], op) - Eq(f[t], op)
  BY <1>1, CountUpdate
<1> QED
  BY <1>2 DEF f, g, Count, CallsTodo

-----------------------------------------------------------------------------
(* Initially no call is under way and the queue is empty. *)
LEMMA InitIInv == Init => IInv
<1> SUFFICES ASSUME Init PROVE IInv
  OBVIOUS
<1>1. TypeOK
  BY DEF Init, ControlInit, TypeOK, ControlTypeOK
<1>2. /\ CallsOwed("write") = {} /\ CallsOwed("read") = {}
      /\ CallsTodo("write_control") = {} /\ CallsTodo("read_control") = {}
  BY DEF Init, ControlInit, CallsOwed, CallsTodo
<1>3. Cardinality({}) = 0 /\ Cardinality(Threads) \in Nat
  BY FS_EmptySet, FS_CardinalityType, ThreadsAssumption
<1>4. /\ Cardinality(CallsOwed("write")) = 0 /\ Cardinality(CallsOwed("read")) = 0
      /\ Cardinality(CallsTodo("write_control")) = 0
      /\ Cardinality(CallsTodo("read_control")) = 0
  BY <1>2, <1>3
<1> QED
  BY <1>1, <1>3, <1>4
  DEF IInv, PendingCountsQueue, BytesCoverPending, SpareBytesBounded, Eq, Init, ControlInit

(* Each action keeps the counter equal to the corrected queue length and   *)
(* the bytes between their lower and their upper bound.                    *)
LEMMA NextIInv == IInv /\ [Next]_vars => IInv'
<1> SUFFICES ASSUME IInv, [Next]_vars PROVE IInv'
  OBVIOUS
<1> USE DEF IInv
<1>c. /\ Cardinality(Threads) \in Nat
      /\ Cardinality(CallsOwed("write")) \in Nat
      /\ Cardinality(CallsOwed("read")) \in Nat
      /\ Cardinality(CallsOwed("write")) + Cardinality(CallsOwed("read")) <= Cardinality(Threads)
  BY CountBounds DEF TypeOK, ControlTypeOK
<1>1. ASSUME NEW t \in Threads, Enqueue(t) PROVE IInv'
  <2>1. TypeOK'
    BY <1>1 DEF Enqueue, Free, ctlVars, TypeOK, ControlTypeOK
  <2>2. PendingCountsQueue'
    <3>1. \A op : /\ Cardinality(CallsTodo(op)) \in Nat
                  /\ Cardinality(CallsTodo(op))' = Cardinality(CallsTodo(op))
                       + Eq("write_control", op) - Eq(todo[t], op)
      BY <1>1, TodoUpdate, Zenon DEF Enqueue, TypeOK
    <3> QED
      BY <1>1, <3>1 DEF Enqueue, Free, ctlVars, PendingCountsQueue, Eq, TypeOK, ControlTypeOK
  <2>3. BytesCoverPending' /\ SpareBytesBounded'
    BY <1>1 DEF Enqueue, ctlVars, BytesCoverPending, SpareBytesBounded, CallsOwed
  <2> QED
    BY <2>1, <2>2, <2>3
<1>2. ASSUME NEW t \in Threads, Dequeue(t) PROVE IInv'
  <2>1. TypeOK'
    BY <1>2 DEF Dequeue, Free, ctlVars, TypeOK, ControlTypeOK
  <2>2. PendingCountsQueue'
    <3>1. \A op : /\ Cardinality(CallsTodo(op)) \in Nat
                  /\ Cardinality(CallsTodo(op))' = Cardinality(CallsTodo(op))
                       + Eq("read_control", op) - Eq(todo[t], op)
      BY <1>2, TodoUpdate, Zenon DEF Dequeue, TypeOK
    <3> QED
      BY <1>2, <3>1 DEF Dequeue, Free, ctlVars, PendingCountsQueue, Eq, TypeOK, ControlTypeOK
  <2>3. BytesCoverPending' /\ SpareBytesBounded'
    BY <1>2 DEF Dequeue, ctlVars, BytesCoverPending, SpareBytesBounded, CallsOwed
  <2> QED
    BY <2>1, <2>2, <2>3
<1>3. ASSUME NEW t \in Threads, WriteControl(t) PROVE IInv'
  <2>1. TypeOK'
    BY <1>3 DEF WriteControl, Raise, TypeOK, ControlTypeOK
  <2>2. PendingCountsQueue'
    <3>1. \A op : /\ Cardinality(CallsTodo(op)) \in Nat
                  /\ Cardinality(CallsTodo(op))' = Cardinality(CallsTodo(op))
                       + Eq("none", op) - Eq(todo[t], op)
      BY <1>3, TodoUpdate, Zenon DEF WriteControl, TypeOK
    <3> QED
      BY <1>3, <3>1 DEF WriteControl, Raise, PendingCountsQueue, Eq, TypeOK, ControlTypeOK
  <2>3. BytesCoverPending' /\ SpareBytesBounded'
    <3> DEFINE v == IF control_pending = 0 THEN "write" ELSE "idle"
    <3>1. \A op : Cardinality(CallsOwed(op))' = Cardinality(CallsOwed(op))
                       + Eq(v, op) - Eq(ctl[t], op)
      BY <1>3, OwedUpdate, Zenon DEF WriteControl, Raise, TypeOK, ControlTypeOK
    <3> QED
      BY <1>3, <1>c, <3>1 DEF WriteControl, Raise, BytesCoverPending, SpareBytesBounded, Eq, TypeOK, ControlTypeOK
  <2> QED
    BY <2>1, <2>2, <2>3
<1>4. ASSUME NEW t \in Threads, ReadControl(t) PROVE IInv'
  <2>1. TypeOK'
    BY <1>4 DEF ReadControl, Release, TypeOK, ControlTypeOK
  <2>2. PendingCountsQueue'
    <3>1. \A op : /\ Cardinality(CallsTodo(op)) \in Nat
                  /\ Cardinality(CallsTodo(op))' = Cardinality(CallsTodo(op))
                       + Eq("none", op) - Eq(todo[t], op)
      BY <1>4, TodoUpdate, Zenon DEF ReadControl, TypeOK
    <3> QED
      BY <1>4, <3>1 DEF ReadControl, Release, PendingCountsQueue, Eq, TypeOK, ControlTypeOK
  <2>3. BytesCoverPending' /\ SpareBytesBounded'
    <3> DEFINE v == IF control_pending = 1 THEN "read" ELSE "idle"
    <3>1. \A op : Cardinality(CallsOwed(op))' = Cardinality(CallsOwed(op))
                       + Eq(v, op) - Eq(ctl[t], op)
      BY <1>4, OwedUpdate, Zenon DEF ReadControl, Release, TypeOK, ControlTypeOK
    <3> QED
      BY <1>4, <1>c, <3>1 DEF ReadControl, Release, BytesCoverPending, SpareBytesBounded, Eq, TypeOK, ControlTypeOK
  <2> QED
    BY <2>1, <2>2, <2>3
<1>5. ASSUME NEW t \in Threads, Wait(t) \/ TimedOut(t) \/ Wake(t) PROVE IInv'
  <2>1. PICK v \in {"none", "wait"} : todo' = [todo EXCEPT ![t] = v]
    BY <1>5 DEF Wait, TimedOut, Wake
  <2>2. UNCHANGED <<control_pending, socket, ctl, queued>> /\ todo[t] \in {"none", "wait"}
    BY <1>5 DEF Wait, TimedOut, Wake, Free, ctlVars
  <2>3. TypeOK'
    BY <2>1, <2>2 DEF TypeOK, ControlTypeOK
  <2>4. PendingCountsQueue'
    <3>1. \A op : /\ Cardinality(CallsTodo(op)) \in Nat
                  /\ Cardinality(CallsTodo(op))' = Cardinality(CallsTodo(op))
                       + Eq(v, op) - Eq(todo[t], op)
      BY <2>1, TodoUpdate, Zenon DEF TypeOK
    <3> QED
      BY <2>2, <3>1 DEF PendingCountsQueue, Eq, TypeOK, ControlTypeOK
  <2>5. BytesCoverPending' /\ SpareBytesBounded'
    BY <2>2 DEF BytesCoverPending, SpareBytesBounded, CallsOwed
  <2> QED
    BY <2>3, <2>4, <2>5
<1>6. ASSUME NEW t \in Threads, Finish(t) PROVE IInv'
  <2>1. TypeOK'
    BY <1>6 DEF Finish, FinishControl, WakeEvent, ReleaseEvent, TypeOK, ControlTypeOK
  <2>2. PendingCountsQueue'
    BY <1>6 DEF Finish, FinishControl, WakeEvent, ReleaseEvent, PendingCountsQueue, CallsTodo
  <2>3. \A op : /\ Cardinality(CallsOwed(op))' \in Nat
                /\ Cardinality(CallsOwed(op))' = Cardinality(CallsOwed(op))
                       + Eq("idle", op) - Eq(ctl[t], op)
    BY <1>6, OwedUpdate, Zenon DEF Finish, FinishControl, WakeEvent, ReleaseEvent, TypeOK, ControlTypeOK
  <2>4. CASE WakeEvent(t)
    <3>1. BytesCoverPending' /\ SpareBytesBounded'
      BY <2>3, <2>4, <1>c DEF WakeEvent, BytesCoverPending, SpareBytesBounded, Eq, TypeOK, ControlTypeOK
    <3> QED
      BY <2>1, <2>2, <3>1
  <2>5. CASE ReleaseEvent(t)
    <3>1. BytesCoverPending' /\ SpareBytesBounded'
      BY <2>3, <2>5, <1>c DEF ReleaseEvent, BytesCoverPending, SpareBytesBounded, Eq, TypeOK, ControlTypeOK
    <3> QED
      BY <2>1, <2>2, <3>1
  <2> QED
    BY <1>6, <2>4, <2>5 DEF Finish, FinishControl
<1>7. CASE UNCHANGED vars
  BY <1>7 DEF vars, TypeOK, ControlTypeOK, PendingCountsQueue, BytesCoverPending,
              SpareBytesBounded, CallsTodo, CallsOwed
<1> QED
  BY <1>1, <1>2, <1>3, <1>4, <1>5, <1>6, <1>7 DEF Next, Continue

(* The inductive invariant holds in every reachable state. *)
THEOREM Invariance == Spec => []IInv
BY InitIInv, NextIInv, PTL DEF Spec

-----------------------------------------------------------------------------
(* The variables keep their types. *)
THEOREM TypeCorrect == Spec => []TypeOK
<1>1. IInv => TypeOK
  BY DEF IInv
<1> QED
  BY <1>1, Invariance, PTL

(* gst_poll_write_control and gst_poll_read_control: pairing keeps the     *)
(* counter equal to the queue length corrected by the calls under way.     *)
THEOREM CounterCorrect == Spec => []PendingCountsQueue
<1>1. IInv => PendingCountsQueue
  BY DEF IInv
<1> QED
  BY <1>1, Invariance, PTL

(* raise_wakeup and release_wakeup: a positive counter is always backed by *)
(* a byte, in the socket or about to be written, that no one owes a read.  *)
THEOREM BytesCorrect == Spec => []BytesCoverPending
<1>1. IInv => BytesCoverPending
  BY DEF IInv
<1> QED
  BY <1>1, Invariance, PTL

(* gst_poll_wait: no thread sleeps while entries are queued and no call to *)
(* the poll is under way.                                                  *)
THEOREM NoWakeupLost == Spec => []NoLostWakeup
<1>1. IInv => NoLostWakeup
  <2> SUFFICES ASSUME IInv, Settled, queued > 0 PROVE Readable
    BY DEF NoLostWakeup
  <2>1. /\ CallsTodo("write_control") = {} /\ CallsTodo("read_control") = {}
        /\ CallsOwed("write") = {} /\ CallsOwed("read") = {}
    BY DEF Settled, CallsOwed
  <2>2. Cardinality({}) = 0
    BY FS_EmptySet
  <2> QED
    BY <2>1, <2>2 DEF IInv, TypeOK, ControlTypeOK, PendingCountsQueue, BytesCoverPending, Readable
<1> QED
  BY <1>1, Invariance, PTL

(* WAKE_EVENT: the unread bytes are bounded by the number of threads,      *)
(* whatever number of writes and reads went by.                            *)
THEOREM SocketNeverOverflows == Spec => []SocketBounded
<1>1. IInv => SocketBounded
  <2> SUFFICES ASSUME IInv PROVE SocketBounded
    OBVIOUS
  <2>1. /\ Cardinality(Threads) \in Nat
        /\ Cardinality(CallsOwed("write")) \in Nat
        /\ Cardinality(CallsOwed("read")) \in Nat
        /\ Cardinality(CallsOwed("write")) + Cardinality(CallsOwed("read")) <= Cardinality(Threads)
    BY CountBounds DEF IInv, TypeOK, ControlTypeOK
  <2> QED
    BY <2>1 DEF IInv, TypeOK, ControlTypeOK, SpareBytesBounded, SocketBounded, Eq
<1> QED
  BY <1>1, Invariance, PTL
=============================================================================
