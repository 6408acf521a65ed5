--------------------------- MODULE GstPollControl ---------------------------
(***************************************************************************)
(* The control socket of a GstPoll (gstreamer-0.11.3/gst/gstpoll.c): the   *)
(* one mechanism by which a thread blocked in gst_poll_wait() is woken.    *)
(*                                                                         *)
(* A wakeup is counted in control_pending with an atomic add; only the     *)
(* thread that moves the count from 0 to 1 writes a byte to the socket     *)
(* pair, only the one that moves it from 1 to 0 reads a byte back.  The    *)
(* count and the byte are two separate atomic operations, so other threads *)
(* run in between; ctl[t] says which socket operation thread t still owes. *)
(*                                                                         *)
(* This module has the operations only.  GstPollTimer puts them under the  *)
(* clients of a timer poll, GstPoll under a poll on file descriptors, and  *)
(* GstBus, GstBufferPool and GstSystemClock under the real clients.        *)
(***************************************************************************)
EXTENDS Integers, FiniteSets

CONSTANT Threads        \* every thread that may touch the poll

ASSUME ThreadsAssumption == IsFiniteSet(Threads)

VARIABLES
  control_pending,      \* the atomic counter
  socket,               \* unread bytes in the socket pair
  ctl                   \* ctl[t]: "idle", or the socket call t is about to make

ctlVars == <<control_pending, socket, ctl>>

ControlInit ==
  /\ control_pending = 0
  /\ socket = 0
  /\ ctl = [t \in Threads |-> "idle"]

ControlTypeOK ==
  /\ control_pending \in Int
  /\ socket \in Nat
  /\ ctl \in [Threads -> {"idle", "write", "read"}]

-----------------------------------------------------------------------------
(* Mutants: Raise testing the value after the add, Raise writing a byte    *)
(* every time, ReleaseEvent taking a byte that is not there.               *)
RaiseTestsNewValue(t) ==
  /\ ctl[t] = "idle"
  /\ control_pending' = control_pending + 1
  /\ ctl' = [ctl EXCEPT ![t] = IF control_pending + 1 = 0 THEN "write" ELSE "idle"]
  /\ UNCHANGED socket

RaiseAlwaysWrites(t) ==
  /\ ctl[t] = "idle"
  /\ control_pending' = control_pending + 1
  /\ ctl' = [ctl EXCEPT ![t] = "write"]
  /\ UNCHANGED socket

ReleaseEventUnchecked(t) ==
  /\ ctl[t] = "read"
  /\ socket' = socket - 1
  /\ ctl' = [ctl EXCEPT ![t] = "idle"]
  /\ UNCHANGED control_pending

-----------------------------------------------------------------------------
(* raise_wakeup: g_atomic_int_add (&set->control_pending, 1) *)
Raise(t) ==
  /\ ctl[t] = "idle"
  /\ control_pending' = control_pending + 1
  /\ ctl' = [ctl EXCEPT ![t] = IF control_pending = 0 THEN "write" ELSE "idle"]
  /\ UNCHANGED socket

(* raise_wakeup: WAKE_EVENT.  The write cannot fail for lack of room:      *)
(* GstPollTimer shows that the number of unread bytes stays bounded by the *)
(* number of threads (SocketBounded).                                      *)
WakeEvent(t) ==
  /\ ctl[t] = "write"
  /\ socket' = socket + 1
  /\ ctl' = [ctl EXCEPT ![t] = "idle"]
  /\ UNCHANGED control_pending

(* release_wakeup: g_atomic_int_dec_and_test (&set->control_pending).  The *)
(* counter is signed and is not tested first: it may become negative.      *)
Release(t) ==
  /\ ctl[t] = "idle"
  /\ control_pending' = control_pending - 1
  /\ ctl' = [ctl EXCEPT ![t] = IF control_pending = 1 THEN "read" ELSE "idle"]
  /\ UNCHANGED socket

(* release_wakeup: RELEASE_EVENT, a read on a non-blocking socket: when    *)
(* the byte is not there yet it fails and nothing tries again.             *)
ReleaseEvent(t) ==
  /\ ctl[t] = "read"
  /\ socket' = IF socket > 0 THEN socket - 1 ELSE 0
  /\ ctl' = [ctl EXCEPT ![t] = "idle"]
  /\ UNCHANGED control_pending

(* The socket calls that finish an operation already begun. *)
FinishControl(t) == WakeEvent(t) \/ ReleaseEvent(t)

(* poll() on the control descriptor reports it readable. *)
Readable == socket > 0
=============================================================================
