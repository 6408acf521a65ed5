------------------------------ MODULE GstPoll ------------------------------
(***************************************************************************)
(* gst_poll_wait() and the calls that wake it (gstpoll.c): one thread      *)
(* waits on file descriptors while others change the set, restart the      *)
(* wait or flush it.  Only the waiter takes wakeups back, all at once, by  *)
(* a compare-and-swap loop (release_all_wakeup).  pc[t] is the next step   *)
(* of the call thread t is in; ctl[t] of GstPollControl is the socket call *)
(* that a raise_wakeup still has to make.                                  *)
(*                                                                         *)
(* A descriptor with the events it is watched for is one element of Fds.   *)
(* With IsTimer the module is the wait of a timer poll, which several      *)
(* threads may call at once and which leaves the control socket alone; its *)
(* write and read calls are the subject of GstPollTimer.                   *)
(*                                                                         *)
(* A reader of active_fds that races with its copying (possible only for a *)
(* timer) is taken to see the array before or after the copy.              *)
(***************************************************************************)
EXTENDS GstPollControl

CONSTANTS
  Fds,                  \* descriptors clients add; Control is not one of them
  Control,              \* the reading end of the control socket
  IsTimer,              \* set->timer
  MaxPending            \* bound: wakeups that may be pending at once

ASSUME FdsAssumption == IsFiniteSet(Fds) /\ Control \notin Fds
ASSUME IsTimerAssumption == IsTimer \in BOOLEAN
ASSUME MaxPendingAssumption == MaxPending \in Nat \ {0}

VARIABLES
  flushing, waiting, rebuild,
  fds, active_fds,      \* the set, and the waiter's copy of it
  pc,
  polled,               \* polled[t]: what the poll() call of t was given
  old,                  \* old[t]: the local variable of release_all_wakeup
  res, activity         \* what poll() returned; of it, client descriptors

waitVars == <<polled, old, res, activity>>
vars == <<ctlVars, flushing, waiting, rebuild, fds, active_fds, pc, waitVars>>

(* gst_poll_new: the set holds the control descriptor, nothing is copied. *)
Init ==
  /\ ControlInit
  /\ flushing = FALSE
  /\ waiting = 0
  /\ rebuild = TRUE
  /\ fds = {Control}
  /\ active_fds = {}
  /\ pc = [t \in Threads |-> "none"]
  /\ polled = [t \in Threads |-> {}]
  /\ old = [t \in Threads |-> 0]
  /\ res = [t \in Threads |-> 0]
  /\ activity = [t \in Threads |-> 0]

Idle(t) == pc[t] = "none" /\ ctl[t] = "idle"

GoTo(t, from, to) == pc[t] = from /\ pc' = [pc EXCEPT ![t] = to]

-----------------------------------------------------------------------------
(* Mutants: a waiter that is not counted, no look at flushing after poll(). *)
EnterUncounted(t) ==
  /\ Idle(t)
  /\ GoTo(t, "none", IF waiting > 0 /\ ~IsTimer THEN "already" ELSE "check")
  /\ UNCHANGED <<ctlVars, flushing, waiting, rebuild, fds, active_fds, waitVars>>

RecheckIgnoresFlushing(t) ==
  /\ GoTo(t, "recheck", IF old[t] > 0 /\ res[t] = 1 THEN "rebuild" ELSE "return")
  /\ UNCHANGED <<ctlVars, flushing, waiting, rebuild, fds, active_fds, waitVars>>

-----------------------------------------------------------------------------
(* gst_poll_wait *)

(* INC_WAITING returns the value before the add. *)
Enter(t) ==
  /\ Idle(t)
  /\ GoTo(t, "none", IF waiting > 0 /\ ~IsTimer THEN "already" ELSE "check")
  /\ waiting' = waiting + 1
  /\ UNCHANGED <<ctlVars, flushing, rebuild, fds, active_fds, waitVars>>

CheckFlushing(t) ==
  /\ GoTo(t, "check", IF flushing THEN "flushing" ELSE "rebuild")
  /\ UNCHANGED <<ctlVars, flushing, waiting, rebuild, fds, active_fds, waitVars>>

(* TEST_REBUILD: a compare-and-swap outside of the lock. *)
TestRebuild(t) ==
  /\ GoTo(t, "rebuild", IF rebuild THEN "copy" ELSE "call")
  /\ rebuild' = FALSE
  /\ UNCHANGED <<ctlVars, flushing, waiting, fds, active_fds, waitVars>>

CopyFds(t) ==
  /\ GoTo(t, "copy", "call")
  /\ active_fds' = fds
  /\ UNCHANGED <<ctlVars, flushing, waiting, rebuild, fds, waitVars>>

CallPoll(t) ==
  /\ GoTo(t, "call", "poll")
  /\ polled' = [polled EXCEPT ![t] = active_fds]
  /\ UNCHANGED <<ctlVars, flushing, waiting, rebuild, fds, active_fds, old, res, activity>>

WokenByControl(t) == Readable /\ Control \in polled[t]

(* poll() returns with r: -1 on an error (EINTR), 0 when the timeout       *)
(* expired, else the number of ready descriptors, the control one counted. *)
PollReturns(t, r, ready) ==
  /\ GoTo(t, "poll", IF IsTimer THEN "recheck" ELSE "pending")
  /\ res' = [res EXCEPT ![t] = r]
  /\ activity' = [activity EXCEPT ![t] = Cardinality(ready)]
  /\ UNCHANGED <<ctlVars, flushing, waiting, rebuild, fds, active_fds, polled, old>>

PollFails(t) == PollReturns(t, -1, {})

PollTimesOut(t) == ~WokenByControl(t) /\ PollReturns(t, 0, {})

PollActivity(t) ==
  /\ ~WokenByControl(t)
  /\ \E ready \in SUBSET (polled[t] \cap Fds) \ {{}} :
       PollReturns(t, Cardinality(ready), ready)

PollWoken(t) ==
  /\ WokenByControl(t)
  /\ \E ready \in SUBSET (polled[t] \cap Fds) :
       PollReturns(t, Cardinality(ready) + 1, ready)

(* release_all_wakeup: read the counter, swap it for 0, read the socket;   *)
(* when the byte is not there yet put one wakeup back and start again.     *)
GetPending(t) ==
  /\ GoTo(t, "pending", IF control_pending = 0 THEN "recheck" ELSE "swap")
  /\ old' = [old EXCEPT ![t] = control_pending]
  /\ UNCHANGED <<ctlVars, flushing, waiting, rebuild, fds, active_fds, polled, res, activity>>

SwapPending(t) ==
  /\ GoTo(t, "swap", IF control_pending = old[t] THEN "read" ELSE "pending")
  /\ control_pending' = IF control_pending = old[t] THEN 0 ELSE control_pending
  /\ UNCHANGED <<socket, ctl, flushing, waiting, rebuild, fds, active_fds, waitVars>>

ReadSocket(t) ==
  /\ GoTo(t, "read", IF socket > 0 THEN "recheck" ELSE "retry")
  /\ socket' = IF socket > 0 THEN socket - 1 ELSE 0
  /\ UNCHANGED <<control_pending, ctl, flushing, waiting, rebuild, fds, active_fds, waitVars>>

Retry(t) ==
  /\ GoTo(t, "retry", "pending")
  /\ control_pending' = control_pending + 1
  /\ UNCHANGED <<socket, ctl, flushing, waiting, rebuild, fds, active_fds, waitVars>>

(* A flush ends the wait; a wakeup and nothing else restarts it. *)
Recheck(t) ==
  /\ GoTo(t, "recheck",
          IF flushing THEN "flushing"
          ELSE IF ~IsTimer /\ old[t] > 0 /\ res[t] = 1 THEN "rebuild" ELSE "return")
  /\ UNCHANGED <<ctlVars, flushing, waiting, rebuild, fds, active_fds, waitVars>>

(* DEC_WAITING, and the result: res, or -1 with EPERM or EBUSY.  The locals *)
(* are dead: they go back to their initial values.                         *)
Leave(t) ==
  /\ \E from \in {"already", "flushing", "return"} : GoTo(t, from, "none")
  /\ waiting' = waiting - 1
  /\ polled' = [polled EXCEPT ![t] = {}]
  /\ old' = [old EXCEPT ![t] = 0]
  /\ res' = [res EXCEPT ![t] = 0]
  /\ activity' = [activity EXCEPT ![t] = 0]
  /\ UNCHANGED <<ctlVars, flushing, rebuild, fds, active_fds>>

-----------------------------------------------------------------------------
(* gst_poll_add_fd, gst_poll_remove_fd, gst_poll_fd_ctl_read and _write,   *)
(* each under the lock, by a client that calls gst_poll_restart next.      *)
ChangeFds(t) ==
  /\ Idle(t)
  /\ \E f \in Fds : fds' = IF f \in fds THEN fds \ {f} ELSE fds \cup {f}
  /\ rebuild' = TRUE
  /\ GoTo(t, "none", "get_waiting")
  /\ UNCHANGED <<ctlVars, flushing, waiting, active_fds, waitVars>>

(* gst_poll_set_flushing: the new state first, then the wakeup. *)
SetFlushing(t) ==
  /\ Idle(t)
  /\ flushing' = ~flushing
  /\ GoTo(t, "none", IF flushing THEN "none" ELSE "get_waiting")
  /\ UNCHANGED <<ctlVars, waiting, rebuild, fds, active_fds, waitVars>>

(* gst_poll_restart, and the end of gst_poll_set_flushing (TRUE): the poll *)
(* is controllable, as every poll of the library is.                       *)
GetWaiting(t) ==
  /\ GoTo(t, "get_waiting", IF waiting > 0 THEN "raise" ELSE "none")
  /\ UNCHANGED <<ctlVars, flushing, waiting, rebuild, fds, active_fds, waitVars>>

RaiseWakeup(t) ==
  /\ control_pending < MaxPending
  /\ GoTo(t, "raise", "none")
  /\ Raise(t)
  /\ UNCHANGED <<flushing, waiting, rebuild, fds, active_fds, waitVars>>

WriteSocket(t) ==
  /\ WakeEvent(t)
  /\ UNCHANGED <<flushing, waiting, rebuild, fds, active_fds, pc, waitVars>>

-----------------------------------------------------------------------------
ReleaseAll(t) == GetPending(t) \/ SwapPending(t) \/ ReadSocket(t) \/ Retry(t)

(* The steps a thread takes on its own once it has called. *)
Continue(t) ==
  \/ CheckFlushing(t) \/ TestRebuild(t) \/ CopyFds(t) \/ CallPoll(t)
  \/ PollWoken(t) \/ ReleaseAll(t) \/ Recheck(t) \/ Leave(t)
  \/ GetWaiting(t) \/ RaiseWakeup(t) \/ WriteSocket(t)

Next == \E t \in Threads :
  \/ Enter(t) \/ ChangeFds(t) \/ SetFlushing(t)
  \/ PollFails(t) \/ PollTimesOut(t) \/ PollActivity(t)
  \/ Continue(t)

Spec == Init /\ [][Next]_vars

FairSpec == Spec /\ \A t \in Threads : WF_vars(Continue(t))

-----------------------------------------------------------------------------
WaitSteps == {"check", "rebuild", "copy", "call", "poll", "pending", "swap",
              "read", "retry", "recheck", "flushing", "return"}

TypeOK ==
  /\ ControlTypeOK
  /\ flushing \in BOOLEAN /\ rebuild \in BOOLEAN
  /\ waiting \in 0..Cardinality(Threads)
  /\ {fds, active_fds} \subseteq SUBSET (Fds \cup {Control})
  /\ pc \in [Threads -> WaitSteps \cup {"none", "already", "get_waiting", "raise"}]
  /\ polled \in [Threads -> SUBSET (Fds \cup {Control})]
  /\ old \in [Threads -> 0..MaxPending + 1]
  /\ res \in [Threads -> -1..Cardinality(Fds) + 1]
  /\ activity \in [Threads -> 0..Cardinality(Fds)]

(* No other thread is on its way to raise a wakeup, or to write its byte. *)
Quiet(t) ==
  \A u \in Threads \ {t} : pc[u] \notin {"get_waiting", "raise"} /\ ctl[u] = "idle"

(* gst_poll_set_flushing: "ensures that current and future calls to        *)
(* gst_poll_wait() will return": a thread does not sleep in poll() after   *)
(* the flushing call is over, whether it started to wait before or after.  *)
FlushNotLost ==
  \A t \in Threads : pc[t] = "poll" /\ flushing /\ Quiet(t) => WokenByControl(t)

(* gst_poll_restart, "typically used after adding or removing descriptors":*)
(* nobody sleeps on an outdated set once the calls are over.               *)
ChangeNotLost ==
  \A t \in Threads : pc[t] = "poll" /\ polled[t] # fds /\ Quiet(t) => WokenByControl(t)

(* So no wait sleeps through what it was to be woken for.                  *)
NothingMissed == FlushNotLost /\ ChangeNotLost

(* release_all_wakeup spins while the byte of a counted wakeup is missing: *)
(* such a byte is in the socket or another thread is about to write it, so *)
(* the spinning ends.                                                      *)
SpinEnds ==
  control_pending > 0 =>
    \/ Readable
    \/ \E t \in Threads : ctl[t] = "write"
    \/ \E t \in Threads : pc[t] = "retry"

(* gst_poll_set_flushing: when the poll stays flushing, every wait ends.   *)
FlushEndsWaits ==
  \A t \in Threads : <>[]flushing => []<>(pc[t] \notin WaitSteps)

-----------------------------------------------------------------------------
(* What the documentation says and the code does not keep.                 *)

(* gst_poll_write_control, "It will make any current and future            *)
(* gst_poll_wait() function return": a thread that waits polls the control *)
(* socket.  Not the second of two that wait first on a new timer: it finds *)
(* rebuild cleared and active_fds still empty (lines 1254-1265).           *)
WaitsOnControl == \A t \in Threads : pc[t] = "poll" => Control \in polled[t]

(* gst_poll_wait, "Returns: The number of GstPollFD in @set that have      *)
(* activity or 0": a positive result means that some descriptor of the     *)
(* client had activity.                                                    *)
ResultHasActivity ==
  \A t \in Threads : pc[t] = "return" /\ res[t] > 0 => activity[t] > 0

=============================================================================
