---------------------------- MODULE GstPollTimer ----------------------------
(***************************************************************************)
(* A timer poll (gst_poll_new_timer) under the clients it has in the tree: *)
(* GstBus and GstBufferPool keep a queue beside the poll, write the        *)
(* control socket once after each entry they add and read it once after    *)
(* each entry they remove ("you must always pair a raise with a release",  *)
(* gstpoll.c:195).  Entries are added before the write and removed before  *)
(* the read, so a read may overtake the write it is paired with.           *)
(*                                                                         *)
(* The clients' queue is abstracted to its length.                         *)
(***************************************************************************)
EXTENDS GstPollControl

CONSTANT MaxQueued      \* bound: entries the clients keep queued at once

ASSUME MaxQueuedAssumption == MaxQueued \in Nat

VARIABLES
  queued,               \* entries in the clients' queue
  todo                  \* todo[t]: the poll call t makes next, if any

vars == <<control_pending, socket, ctl, queued, todo>>

Init ==
  /\ ControlInit
  /\ queued = 0
  /\ todo = [t \in Threads |-> "none"]

Free(t) == todo[t] = "none" /\ ctl[t] = "idle"

(* An entry enters the queue; the write to the control socket follows. *)
Enqueue(t) ==
  /\ Free(t)
  /\ queued < MaxQueued
  /\ queued' = queued + 1
  /\ todo' = [todo EXCEPT ![t] = "write_control"]
  /\ UNCHANGED ctlVars

WriteControl(t) ==
  /\ todo[t] = "write_control"
  /\ Raise(t)
  /\ todo' = [todo EXCEPT ![t] = "none"]
  /\ UNCHANGED queued

(* An entry leaves the queue; the read of the control socket follows. *)
Dequeue(t) ==
  /\ Free(t)
  /\ queued > 0
  /\ queued' = queued - 1
  /\ todo' = [todo EXCEPT ![t] = "read_control"]
  /\ UNCHANGED ctlVars

ReadControl(t) ==
  /\ todo[t] = "read_control"
  /\ Release(t)
  /\ todo' = [todo EXCEPT ![t] = "none"]
  /\ UNCHANGED queued

(* The thread found nothing to take and calls gst_poll_wait.  Several      *)
(* threads may be there at once; the timer poll never clears the socket.   *)
Wait(t) ==
  /\ Free(t)
  /\ todo' = [todo EXCEPT ![t] = "wait"]
  /\ UNCHANGED <<ctlVars, queued>>

Wake(t) ==
  /\ todo[t] = "wait"
  /\ Readable
  /\ todo' = [todo EXCEPT ![t] = "none"]
  /\ UNCHANGED <<ctlVars, queued>>

(* gst_poll_wait with a timeout returns without a byte on the socket. *)
TimedOut(t) ==
  /\ todo[t] = "wait"
  /\ todo' = [todo EXCEPT ![t] = "none"]
  /\ UNCHANGED <<ctlVars, queued>>

Finish(t) ==
  /\ FinishControl(t)
  /\ UNCHANGED <<queued, todo>>

(* What a thread does without deciding to: the rest of a call it is in. *)
Continue(t) == WriteControl(t) \/ ReadControl(t) \/ Finish(t) \/ Wake(t)

Next == \E t \in Threads :
  Enqueue(t) \/ Dequeue(t) \/ Wait(t) \/ TimedOut(t) \/ Continue(t)

Spec == Init /\ [][Next]_vars

FairSpec == Spec /\ \A t \in Threads : WF_vars(Continue(t))

-----------------------------------------------------------------------------
TypeOK ==
  /\ ControlTypeOK
  /\ queued \in Nat
  /\ todo \in [Threads -> {"none", "write_control", "read_control", "wait"}]

CallsTodo(op) == {t \in Threads : todo[t] = op}
CallsOwed(op) == {t \in Threads : ctl[t] = op}

(* No thread is inside gst_poll_write_control or gst_poll_read_control. *)
Settled ==
  /\ CallsTodo("write_control") = {} /\ CallsTodo("read_control") = {}
  /\ \A t \in Threads : ctl[t] = "idle"

(* The counter is the length of the queue, corrected by the calls still to *)
(* be made: pairing makes the negative excursions of the counter harmless. *)
PendingCountsQueue ==
  control_pending = queued - Cardinality(CallsTodo("write_control"))
                           + Cardinality(CallsTodo("read_control"))

(* raise_wakeup / release_wakeup: whenever wakeups are pending, a byte is  *)
(* in the socket or on its way, beyond those other threads are about to    *)
(* read.  Without it a waiter sleeps on a non-empty queue.                 *)
BytesCoverPending ==
  socket + Cardinality(CallsOwed("write"))
    >= Cardinality(CallsOwed("read")) + (IF control_pending > 0 THEN 1 ELSE 0)

(* gst_poll_write_control: "It will make any current and future            *)
(* gst_poll_wait() function return": when every call has finished and      *)
(* entries are queued, nobody sleeps.                                      *)
NoLostWakeup == Settled /\ queued > 0 => Readable

(* The socket holds a bounded number of bytes whatever the interleaving,   *)
(* so WAKE_EVENT never meets a full socket buffer.                         *)
SocketBounded == socket <= 2 * Cardinality(Threads) + 1

(* gst_poll_write_control, lines 1550-1552: "After an equal amount of      *)
(* calls to gst_poll_read_control() have been performed, calls to          *)
(* gst_poll_wait() will block again until their timeout expired."          *)
BalancedReadsBlock == Settled /\ control_pending = 0 => ~Readable

(* gst_poll_wait: a thread does not sleep forever on a queue that holds    *)
(* entries nobody else takes.                                              *)
SleeperWakes ==
  \A t \in Threads, n \in 1..MaxQueued : []<>~(todo[t] = "wait" /\ queued = n)
=============================================================================
