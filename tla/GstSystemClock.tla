--------------------------- MODULE GstSystemClock ---------------------------
(***************************************************************************)
(* Waiting on the system clock (gstsystemclock.c): threads that wait       *)
(* synchronously for an entry, one thread that serves the sorted list of   *)
(* asynchronous entries, and clients that unschedule entries meanwhile.    *)
(*                                                                         *)
(* All of them sleep on one timer poll, so waking one entry wakes all; a   *)
(* count says how many entries have still to notice.  The control socket   *)
(* is written for the first and read for the last, under the object lock,  *)
(* so it is readable when wakeup_count > 0.  The status of an entry is     *)
(* changed by compare-and-exchange without the lock.                       *)
(***************************************************************************)
EXTENDS Integers, FiniteSets, SequencesExt

CONSTANTS
  Sync,                 \* entries waited for with gst_clock_id_wait, each by its thread
  Async,                \* entries passed to gst_clock_id_wait_async
  Uses,                 \* what clients do: which entries they use, which of the
                        \* asynchronous ones are periodic, with interval 1, and
                        \* whether entries are initialised and waited for again
  MaxTime,              \* bound: the time at which the clock stops
  NONE

ASSUME ClockAssumption ==
  /\ Sync \cap Async = {} /\ NONE \notin Sync \cup Async
  /\ \A u \in Uses : /\ u.entries \subseteq Sync \cup Async
                     /\ u.periodic \subseteq Async /\ u.reinit \in BOOLEAN
  /\ MaxTime \in Nat
  /\ IsFiniteSet(Sync \cup Async)

VARIABLES
  use,                  \* the one of Uses that is taken
  now,                  \* what gst_clock_get_time returns
  time, status, unscheduled, woken_up,  \* the fields of a GstClockEntry
  entries,              \* the asynchronous entries, sorted
  wakeup_count, async_wakeup, stopping,
  step,                 \* step[e]: where the thread that waits for e is
  result,               \* result[e]: what its wait returned
  async,                \* where the async thread is; in "loop" it has the object lock
  current,              \* the entry it has picked
  cancelled             \* entries unscheduled before their time and not used since

entryVars == <<time, status, unscheduled, woken_up>>
wakeVars == <<wakeup_count, async_wakeup, stopping>>
threadVars == <<step, result, async, current>>
clockVars == <<now, entryVars, entries, wakeVars, threadVars, cancelled>>
vars == <<use, clockVars>>

Entries == Sync \cup Async

Init ==
  /\ use \in Uses
  /\ now = 0
  /\ time \in [Entries -> 0..MaxTime] /\ \A e \in Entries \ use.entries : time[e] = 0
  /\ status = [e \in Entries |-> "OK"]
  /\ unscheduled = [e \in Entries |-> FALSE] /\ woken_up = [e \in Entries |-> FALSE]
  /\ entries = <<>>
  /\ wakeup_count = 0 /\ async_wakeup = FALSE /\ stopping = FALSE
  /\ step = [e \in Entries |-> "idle"] /\ result = [e \in Entries |-> NONE]
  /\ async = "none" /\ current = NONE
  /\ cancelled = {}

Tick == now < MaxTime /\ now' = now + 1
        /\ UNCHANGED <<entryVars, entries, wakeVars, threadVars, cancelled>>

Readable == wakeup_count > 0

(* Others may take the object lock. *)
Unlocked == async # "loop"

(* The thread that waits for entry e makes its next step. *)
GoTo(e, next) == step' = [step EXCEPT ![e] = next]
SetStatus(e, s) == status' = [status EXCEPT ![e] = s]
Return(e, res) == GoTo(e, "returned") /\ result' = [result EXCEPT ![e] = res]

(* Broadcasting entries_changed; waiters in wait_wakeup test the count.    *)
AsyncWoken == IF async = "sleep" THEN "awake" ELSE async

(* gst_system_clock_remove_wakeup, as the count and the async thread's step*)
RemoveWakeup ==
  /\ wakeup_count' = wakeup_count - 1
  /\ async' = IF wakeup_count = 1 THEN AsyncWoken ELSE async

-----------------------------------------------------------------------------
(* Mutants: an unscheduled entry that was woken does not take its wakeup   *)
(* back; a wait ends whenever the poll does; an entry added to an empty    *)
(* list does not signal; dispose does not signal.                          *)
CleanupKeepsWakeup(e) ==
  /\ step[e] = "cleanup" /\ Unlocked
  /\ unscheduled' = [unscheduled EXCEPT ![e] = TRUE]
  /\ Return(e, "UNSCHEDULED")
  /\ UNCHANGED <<now, time, status, woken_up, entries, wakeVars, async, current, cancelled>>

RetimeNever(e) ==
  /\ step[e] = "retime"
  /\ GoTo(e, "finish")
  /\ UNCHANGED <<now, entryVars, entries, wakeVars, result, async, current, cancelled>>

AddSilently(e) ==
  /\ async' = async
  /\ UNCHANGED <<async_wakeup, wakeup_count>>

DisposeSilently ==
  /\ Unlocked /\ ~stopping /\ async # "none"
  /\ \A e \in Sync : step[e] = "idle"
  /\ stopping' = TRUE
  /\ status' = [e \in Entries |-> IF Contains(entries, e) THEN "UNSCHEDULED" ELSE status[e]]
  /\ wakeup_count' = wakeup_count + 1
  /\ UNCHANGED <<now, time, unscheduled, woken_up, entries, async_wakeup, threadVars, cancelled>>

-----------------------------------------------------------------------------
(* gst_system_clock_id_wait_jitter_unlocked, step by step.                 *)
Check(e) ==
  /\ step[e] = "check"
  /\ \/ status[e] = "UNSCHEDULED" /\ Return(e, "UNSCHEDULED")
     \/ status[e] # "UNSCHEDULED" /\ GoTo(e, "time") /\ UNCHANGED result
  /\ UNCHANGED <<now, entryVars, entries, wakeVars, async, current, cancelled>>

ReadTime(e) ==
  /\ step[e] = "time"
  /\ GoTo(e, IF time[e] > now THEN "busy" ELSE IF time[e] = now THEN "finish" ELSE "late")
  /\ UNCHANGED <<now, entryVars, entries, wakeVars, result, async, current, cancelled>>

(* Marked BUSY around the poll, unless unscheduled in between.             *)
MarkBusy(e) ==
  /\ step[e] = "busy"
  /\ \/ status[e] = "UNSCHEDULED" /\ Return(e, "UNSCHEDULED") /\ UNCHANGED status
     \/ /\ status[e] # "UNSCHEDULED"
        /\ SetStatus(e, "BUSY") /\ GoTo(e, "poll") /\ UNCHANGED result
  /\ UNCHANGED <<now, time, unscheduled, woken_up, entries, wakeVars, async, current, cancelled>>

(* gst_poll_wait returns at the timeout, or early ...                      *)
PollTimesOut(e) ==
  /\ step[e] = "poll"
  /\ GoTo(e, "timeout")
  /\ UNCHANGED <<now, entryVars, entries, wakeVars, result, async, current, cancelled>>

(* ... or, with a result other than 0, on a wakeup or an error of poll().  *)
PollReturns(e) ==
  /\ step[e] = "poll"
  /\ GoTo(e, "woken")
  /\ UNCHANGED <<now, entryVars, entries, wakeVars, result, async, current, cancelled>>

(* Marked DONE, unless unscheduled.  After a wakeup meant for others a     *)
(* synchronous wait (restart) waits until they have noticed, the async     *)
(* thread returns the status it found: BUSY.                               *)
MarkDone(e) ==
  /\ step[e] \in {"woken", "timeout"}
  /\ \/ status[e] = "UNSCHEDULED" /\ GoTo(e, "cleanup") /\ UNCHANGED <<status, result>>
     \/ /\ status[e] # "UNSCHEDULED" /\ SetStatus(e, "DONE")
        /\ \/ step[e] = "woken" /\ e \in Async /\ Return(e, status[e])
           \/ step[e] = "woken" /\ e \in Sync /\ GoTo(e, "wakeup") /\ UNCHANGED result
           \/ step[e] = "timeout" /\ GoTo(e, "retime") /\ UNCHANGED result
  /\ UNCHANGED <<now, time, unscheduled, woken_up, entries, wakeVars, async, current, cancelled>>

Cleanup(e) ==
  /\ step[e] = "cleanup" /\ Unlocked
  /\ unscheduled' = [unscheduled EXCEPT ![e] = TRUE]
  /\ \/ woken_up[e] /\ RemoveWakeup
     \/ ~woken_up[e] /\ UNCHANGED <<wakeup_count, async>>
  /\ Return(e, "UNSCHEDULED")
  /\ UNCHANGED <<now, time, status, woken_up, entries, async_wakeup, stopping, current, cancelled>>

WaitWakeup(e) ==
  /\ step[e] = "wakeup" /\ Unlocked
  /\ wakeup_count = 0
  /\ GoTo(e, "retime")
  /\ UNCHANGED <<now, entryVars, entries, wakeVars, result, async, current, cancelled>>

Retime(e) ==
  /\ step[e] = "retime"
  /\ GoTo(e, IF time[e] > now THEN "busy" ELSE "finish")
  /\ UNCHANGED <<now, entryVars, entries, wakeVars, result, async, current, cancelled>>

(* The status is overwritten, whatever it has become.                      *)
FinishWait(e) ==
  /\ step[e] \in {"finish", "late"}
  /\ LET res == IF step[e] = "finish" THEN "OK" ELSE "EARLY"
     IN  SetStatus(e, res) /\ Return(e, res)
  /\ UNCHANGED <<now, time, unscheduled, woken_up, entries, wakeVars, async, current, cancelled>>

WaitStep(e) ==
  \/ Check(e) \/ ReadTime(e) \/ MarkBusy(e) \/ MarkDone(e)
  \/ Cleanup(e) \/ WaitWakeup(e) \/ Retime(e) \/ FinishWait(e)
  \/ Readable /\ PollReturns(e)
  \/ now >= time[e] /\ PollTimesOut(e)

-----------------------------------------------------------------------------
(* gst_clock_id_wait *)
Wait(e) ==
  /\ e \in Sync \cap use.entries /\ ~stopping
  /\ step[e] = "idle" /\ (use.reinit \/ result[e] = NONE)
  /\ GoTo(e, "check")
  /\ UNCHANGED <<now, entryVars, entries, wakeVars, result, async, current, cancelled>>

Returned(e) ==
  /\ e \in Sync
  /\ step[e] = "returned"
  /\ GoTo(e, "idle")
  /\ UNCHANGED <<now, entryVars, entries, wakeVars, result, async, current, cancelled>>

(* gst_clock_entry_reinit: not while an operation is pending on the entry. *)
EntryReinit(e) ==
  /\ use.reinit /\ e \in use.entries /\ ~stopping
  /\ step[e] = "idle" /\ ~Contains(entries, e)
  /\ time' \in {[time EXCEPT ![e] = t] : t \in 0..MaxTime}
  /\ SetStatus(e, "OK")
  /\ unscheduled' = [unscheduled EXCEPT ![e] = FALSE]
  /\ woken_up' = [woken_up EXCEPT ![e] = FALSE]
  /\ cancelled' = cancelled \ {e}
  /\ UNCHANGED <<now, entries, wakeVars, threadVars>>

(* gst_system_clock_start_async *)
StartAsync ==
  /\ async = "none" /\ ~stopping
  /\ async' = "spinup"
  /\ UNCHANGED <<now, entryVars, entries, wakeVars, step, result, current, cancelled>>

(* g_list_insert_sorted, of e at time t: before the first entry that is not*)
(* earlier.                                                                *)
InsertSorted(list, e, t) ==
  \E i \in 1..Len(list) + 1 :
    /\ \A j \in 1..i - 1 : time[list[j]] < t
    /\ i <= Len(list) => t <= time[list[i]]
    /\ entries' = InsertAt(list, i, e)

(* A new head: signal a thread that sleeps on the empty list, wake it from *)
(* its poll when it waits for the former head.                             *)
AddToHead(e) ==
  \/ /\ entries = <<>>
     /\ async' = AsyncWoken
     /\ UNCHANGED <<async_wakeup, wakeup_count>>
  \/ /\ entries # <<>> /\ status[Head(entries)] = "BUSY" /\ ~async_wakeup
     /\ async_wakeup' = TRUE
     /\ wakeup_count' = wakeup_count + 1
     /\ UNCHANGED async
  \/ /\ entries # <<>> /\ (status[Head(entries)] # "BUSY" \/ async_wakeup)
     /\ UNCHANGED <<async, async_wakeup, wakeup_count>>

(* gst_system_clock_id_wait_async, for an entry that was not unscheduled.  *)
WaitAsync(e) ==
  /\ e \in Async \cap use.entries /\ async # "none" /\ Unlocked /\ ~stopping
  /\ ~Contains(entries, e) /\ status[e] # "UNSCHEDULED"
  /\ use.reinit \/ result[e] = NONE
  /\ InsertSorted(entries, e, time[e])
  /\ \/ Head(entries') = e /\ AddToHead(e)
     \/ Head(entries') # e /\ UNCHANGED <<async, async_wakeup, wakeup_count>>
  /\ UNCHANGED <<now, entryVars, stopping, step, result, current, cancelled>>

(* gst_system_clock_id_unschedule.  The exchange and the wakeup are one    *)
(* step: a waiter that sees the new status next needs the lock.            *)
Unschedule(e) ==
  /\ e \in use.entries /\ Unlocked /\ ~stopping
  /\ status[e] # "UNSCHEDULED"
  /\ SetStatus(e, "UNSCHEDULED")
  /\ LET wake == status[e] = "BUSY" /\ ~unscheduled[e] /\ ~woken_up[e]
     IN  /\ wakeup_count' = IF wake THEN wakeup_count + 1 ELSE wakeup_count
         /\ woken_up' = IF wake THEN [woken_up EXCEPT ![e] = TRUE] ELSE woken_up
  /\ cancelled' = IF now < time[e] THEN cancelled \cup {e} ELSE cancelled
  /\ UNCHANGED <<now, time, unscheduled, entries, async_wakeup, stopping, threadVars>>

(* gst_system_clock_dispose, up to g_thread_join: nobody else has a        *)
(* reference any more.                                                     *)
Dispose ==
  /\ Unlocked /\ ~stopping /\ async # "none"
  /\ \A e \in Sync : step[e] = "idle"
  /\ stopping' = TRUE
  /\ status' = [e \in Entries |-> IF Contains(entries, e) THEN "UNSCHEDULED" ELSE status[e]]
  /\ wakeup_count' = wakeup_count + 1
  /\ async' = AsyncWoken
  /\ UNCHANGED <<now, time, unscheduled, woken_up, entries, async_wakeup, step, result,
                 current, cancelled>>

-----------------------------------------------------------------------------
(* gst_system_clock_async_thread *)
SpinUp ==
  /\ async = "spinup"
  /\ async' = "loop"
  /\ UNCHANGED <<now, entryVars, entries, wakeVars, step, result, current, cancelled>>

Awake ==
  /\ async = "awake"
  /\ async' = IF stopping THEN "exit" ELSE "loop"
  /\ UNCHANGED <<now, entryVars, entries, wakeVars, step, result, current, cancelled>>

Rest ==
  /\ async = "loop"
  /\ \/ stopping /\ async' = "exit"
     \/ ~stopping /\ entries = <<>> /\ async' = "sleep"
  /\ UNCHANGED <<now, entryVars, entries, wakeVars, step, result, current, cancelled>>

Pick ==
  /\ async = "loop" /\ ~stopping /\ entries # <<>>
  /\ wakeup_count' = IF async_wakeup THEN wakeup_count - 1 ELSE wakeup_count
  /\ async_wakeup' = FALSE
  /\ current' = Head(entries)
  /\ GoTo(Head(entries), "check")
  /\ async' = "waiting"
  /\ UNCHANGED <<now, entryVars, entries, stopping, result, cancelled>>

Handled(e) == async = "waiting" /\ current = e /\ step[e] = "returned"

(* g_list_remove *)
Without(e) == RemoveAt(entries, CHOOSE i \in 1..Len(entries) : entries[i] = e)

Drop(e) ==
  /\ entries' = Without(e)
  /\ current' = NONE
  /\ async' = "loop"
  /\ GoTo(e, "idle")

SkipUnscheduled(e) ==
  /\ Handled(e) /\ result[e] = "UNSCHEDULED"
  /\ Drop(e)
  /\ UNCHANGED <<now, entryVars, wakeVars, result, cancelled>>

(* Woken for a new head: the status is set back from DONE to OK.           *)
Restart(e) ==
  /\ Handled(e) /\ result[e] = "BUSY"
  /\ SetStatus(e, "OK")
  /\ current' = NONE
  /\ async' = "loop"
  /\ GoTo(e, "idle")
  /\ UNCHANGED <<now, time, unscheduled, woken_up, entries, wakeVars, result, cancelled>>

(* The callback runs without the lock.  The entry it was for is removed, or*)
(* the list, in order but for that entry, is sorted again (g_list_sort).   *)
Fire(e) ==
  /\ Handled(e) /\ result[e] \in {"OK", "EARLY"}
  /\ async' = "fire"
  /\ UNCHANGED <<now, entryVars, entries, wakeVars, step, result, current, cancelled>>

Fired(e) ==
  /\ async = "fire" /\ current = e
  /\ \/ e \notin use.periodic /\ Drop(e) /\ UNCHANGED time
     \/ /\ e \in use.periodic
        /\ time' = [time EXCEPT ![e] = @ + 1]
        /\ InsertSorted(Without(e), e, time[e] + 1)
        /\ current' = NONE /\ async' = "loop" /\ GoTo(e, "idle")
  /\ UNCHANGED <<now, status, unscheduled, woken_up, wakeVars, result, cancelled>>

AsyncStep ==
  \/ SpinUp \/ Awake \/ Rest \/ Pick
  \/ \E e \in Async : SkipUnscheduled(e) \/ Restart(e) \/ Fire(e) \/ Fired(e)

Next ==
  \/ Tick \/ StartAsync \/ AsyncStep \/ Dispose
  \/ \E e \in Entries :
       \/ Wait(e) \/ Returned(e) \/ EntryReinit(e) \/ WaitAsync(e) \/ Unschedule(e)
       \/ WaitStep(e) \/ PollTimesOut(e) \/ PollReturns(e)

Spec == Init /\ [][Next /\ UNCHANGED use]_vars

(* Time passes, every thread runs. *)
FairSpec ==
  /\ Spec /\ WF_clockVars(Tick) /\ WF_clockVars(AsyncStep)
  /\ \A e \in Entries : WF_clockVars(WaitStep(e)) /\ WF_clockVars(Returned(e))

-----------------------------------------------------------------------------
Results == {"OK", "EARLY", "UNSCHEDULED", "BUSY"}
TypeOK ==
  /\ now \in 0..MaxTime /\ time \in [Entries -> Nat]
  /\ status \in [Entries -> Results \cup {"DONE"}]
  /\ {unscheduled, woken_up} \subseteq [Entries -> BOOLEAN]
  /\ entries \in Seq(Async) /\ IsInjective(entries)
  /\ wakeup_count \in Nat /\ {async_wakeup, stopping} \subseteq BOOLEAN
  /\ step \in [Entries -> {"idle", "check", "time", "busy", "poll", "woken", "timeout",
                           "cleanup", "wakeup", "retime", "finish", "late", "returned"}]
  /\ result \in [Entries -> Results \cup {NONE}]
  /\ async \in {"none", "spinup", "loop", "sleep", "awake", "waiting", "fire", "exit"}
  /\ current \in Async \cup {NONE}
  /\ cancelled \subseteq Entries

(* wakeup_count counts the unscheduled entries that have not noticed yet,  *)
(* the async thread's own wakeup and the one of dispose: it neither leaks, *)
(* which would keep every waiter in wait_wakeup, nor drops too soon.       *)
WakeupsCounted ==
  wakeup_count = Cardinality({e \in Entries : woken_up[e] /\ ~unscheduled[e]})
                 + (IF async_wakeup THEN 1 ELSE 0) + (IF stopping THEN 1 ELSE 0)

(* gst_clock_id_wait: GST_CLOCK_OK means that the time was reached,        *)
(* whichever wakeups of other entries came in between.                     *)
NotBeforeTime ==
  \A e \in Entries : step[e] = "returned" /\ result[e] = "OK" => time[e] <= now

(* Every synchronous wait ends, at its time or when it is unscheduled, and *)
(* every asynchronous entry is served or skipped, when each is used once   *)
(* and none is periodic.                                                   *)
UsedOnce == ~use.reinit /\ use.periodic = {}
WaitsEnd ==
  UsedOnce =>
    /\ \A e \in Sync : step[e] # "idle" ~> step[e] = "idle"
    /\ \A e \in Async : Contains(entries, e) ~> (~Contains(entries, e) \/ stopping)

(* gst_system_clock_dispose: the thread it joins exits.                    *)
DisposeEnds == stopping ~> async = "exit"

-----------------------------------------------------------------------------
(* What the documentation says and the code does not keep.                 *)

(* gst_clock_id_unschedule (gstclock.c, lines 644-645): "After this call,  *)
(* @id cannot be used anymore to receive sync or async notifications".     *)
CancelledNotFired == async = "fire" => current \notin cancelled

(* gst_system_clock_id_wait_async, lines 776-778: "If we inserted the      *)
(* entry at the head of the list, we need to signal the thread as it might *)
(* either be waiting on it or waiting for a new entry."                    *)
WaitsForHead ==
  async = "waiting" /\ step[current] = "poll" /\ ~stopping =>
    time[current] <= time[Head(entries)] \/ Readable
=============================================================================
