# Verification of the GStreamer core (gstreamer-cmake)

The tree under `src/` is GStreamer 0.11.3 with its plug-in packages, adapted to
CMake.  This project models the part of it on which everything else runs and
which tests reach least: the threads of the core library and what they wait on.
Paths below are relative to `src/gstreamer-0.11.3/gst/` unless they begin with
`src/`.

## 1. The system

### Components, their state and their properties

| Component | Source | State | What makes it correct |
|---|---|---|---|
| **GstPoll** | `gstpoll.c` | descriptor arrays, rebuild flag, waiter count, flushing flag, `control_pending`, a socket pair | a wakeup raised by any thread reaches every waiter; flushing and changes are not missed |
| **GstAtomicQueue** | `gstatomicqueue.c` | a chain of arrays with head, tail_write, tail_read | a FIFO: nothing twice, nothing lost, per-producer order |
| **GstBufferPool** | `gstbufferpool.c` | atomic queue, poll, outstanding count, active, started, flushing | counts exact, an active pool keeps its buffers, deactivation releases waiters |
| **GstBus** (queue) | `gstbus.c`, `gstmessage.c` | atomic queue, timer poll, flushing flag, two locks, conditions inside messages | each message has one owner, an asynchronous poster is released, flushing ends |
| **GstBus** (watches) | `gstbus.c` | one GSource, two counts | the shared watch lives as long as anyone needs it |
| **GstTask** | `gsttask.c` (users: `gstpad.c`) | state, running, thread, a caller's mutex, one condition | one thread, mutex constant, quiet after pause, join returns |
| **GstSystemClock** | `gstsystemclock.c`, `gstclock.c` | sorted entries, statuses, timer poll, wakeup count, a thread | waits end at their time or when cancelled, never too early |
| GstClock | `gstclock.c` | calibration under a sequence lock, observations | slave and readers agree on a calibration |
| **GstElement, GstBin** | `gstelement.c`, `gstbin.c` (GstPipeline on top: `gstpipeline.c`) | current, next, pending and target state, the last return, a cookie, stored messages, continuations | a bin's state change completes exactly when its children's do, and always comes to an end |
| GstPad, GstGhostPad | `gstpad.c`, `gstghostpad.c` | peer, mode, flushing, probes, sticky events, a task | no data after flush or deactivation, events in order |
| GstObject, GstMiniObject | `gstobject.c`, `gstminiobject.c` | reference counts | freed once, not used after |
| GstBuffer, GstMemory | `gstbuffer.c`, `gstmemory.c` | shared memory, map counts | written only when exclusive |
| GstIterator | `gstiterator.c` | cookie of a list | each element once or a resync |
| caps, structures, values, events, queries, segments | `gstcaps.c`, ... | immutable data | algebraic laws |
| registry, plug-in loader, parser | `gstregistry*.c`, `gstpluginloader.c` | files, a child process | cache equals what the plug-ins say |
| **GstBaseSink** (preroll) | `../libs/gst/base/gstbasesink.c` | need, have and committed preroll, flushing | commits once, when it has data, to what is asked for then |
| **queue** | `../plugins/elements/gstqueue.c` | items, result, eos, two conditions, two tasks | order, nothing from before a flush, every call returns |
| other base classes | `../libs/gst/base/` | live lock, collected pads, adapters | streaming against state changes and flushing |
| queue2, multiqueue, tee, selectors | `../plugins/elements/` | bounded queues | as for queue, over many streams |
| network clock | `../libs/gst/net/` | packets, observations | clients converge |
| plug-in packages, gst-ffmpeg, build | other directories of `src/` | codecs, formats | outside of this project |

Those in bold are modelled, each as far as section 7 says.  `PROJECT.json` lists
them all with what is modelled and why the rest is not.

### How they interact

```
 streaming threads        application / main loop
      |  gst_bus_post            |  gst_bus_pop, watches
      v                          v
   GstBus --------------- GstAtomicQueue ------------- GstBufferPool
      \                                                  /
       \---- write_control / read_control / wait -------/
                            |
                         GstPoll <---- GstSystemClock (wakeup_count, one thread)
                            |
                       socket pair
   GstTask: runs a pad's loop; gst_pad_{start,pause,stop}_task drive it

   application --set_state--> GstBin --set_state--> GstElement / GstBaseSink
                                ^                        |
   pool thread --continue-------+<--ASYNC_START, ASYNC_DONE-- streaming thread

   upstream --chain, events, queries--> queue --push--> downstream
                          seeks, state changes ^ (task of its source pad)
```

Bus and pool keep an atomic queue beside a timer poll and write the control
socket once after each push, read it once after each pop.  The system clock
keeps a count of its own and writes for its first wakeup, reads for its last.

A bin changes its children one by one under its STATE_LOCK.  A sink returns
ASYNC, because its state changes when data arrives; its streaming thread then
commits the child's state and posts ASYNC_DONE, and the handler of that message,
in the streaming thread, commits the bin's state and pushes a continuation on
the thread pool if the target is further up.  A queue element decouples the
thread that fills it from the task that empties it; flushing and deactivation
have to stop both.

### What is hard

Everything above is concurrent; nothing is persisted, so crash recovery does
not arise.  The hard parts are lock-free counters next to a socket, flags read
without the lock that guards them, conditions signalled rather than broadcast,
memory that another thread frees, statuses changed by compare-and-exchange
while a thread sleeps, state changes that finish on threads which know nothing
of who asked for them, and locks let go of for signals and pushes.
`PROJECT.json` lists forty such hazards at their lines.

## 2. The modules

| Module | Models | Notes |
|---|---|---|
| `GstPollControl` | `raise_wakeup`, `release_wakeup` | operations only; extended by the next two and by GstBus and GstBufferPool |
| `GstPollTimer` | a timer poll under clients that pair writes with reads | the abstract specification that bus and pool implement |
| `GstPoll` | `gst_poll_wait`, flushing, restart, changes of the set, `release_all_wakeup` | descriptors |
| `AbstractQueue` | a FIFO with the history of what was taken | what GstAtomicQueue promises |
| `GstAtomicQueue` | push, pop, peek, length | each shared access is a step |
| `GstBufferPool` | configure, activate, acquire, release, deactivate | implements GstPollTimer |
| `GstBus` | post, pop, filter, flush, dispatch, GST_BUS_ASYNC | implements GstPollTimer |
| `GstBusWatch` | watches and emitters of the bus | |
| `GstTask` | state changes, join, `gst_task_func` | |
| `GstSystemClock` | waits, the async thread, unschedule, dispose | |
| `GstElement` | the state fields of an element and what each step of a change does to them | operations only; extended by GstBin |
| `GstBin` | a bin, sinks and a live source through their states, with preroll, seeks and errors | composes GstElement, GstBaseSink and GstBin |
| `GstBinView` | the bin and one child, a variable for each field: what holds of them at each stage of a change, and the steps in those terms | for `GstBin_proofs`, which instantiates it for each child; section 4 |
| `GstQueue` | the queue element between an upstream thread and its task | flushing and activation of both pads |
| `*_proofs` | the theorems about `GstPollTimer`, `GstPoll`, `GstBufferPool`, `GstBus`, `GstBusWatch`, `GstTask`, `GstSystemClock`, `GstBin`, `GstQueue` | TLAPS; section 4 |
| `MC*` | constants for TLC | |

### State and actions against the code

*One call is several actions* named for its steps; `pc[t]` (`step[e]` and
`async` in the clock) is the next step of thread `t`.  A region under a lock is
one action when nothing outside the lock reads or writes what it touches, and
is split where something does.  `map` in `PROJECT.json` gives every
definition's lines.

* **GstPollControl**: `Raise` and `Release` are the atomic additions,
  `WakeEvent` and `ReleaseEvent` the write and the read of the socket that may
  follow; `ctl[t]` says which one `t` owes.  `ReleaseEvent` finding no byte
  (EAGAIN on a socket that does not block) leaves the socket as it is.
* **GstPollTimer**: `queued` is the length of the client's queue, `todo[t]` the
  poll call `t` makes next.  `Enqueue` and `Dequeue` are the client's steps.
  The first copy of the descriptors is taken to be done (see section 6).
* **GstPoll**: `Enter`, `CheckFlushing`, `TestRebuild`, `CopyFds`, `CallPoll`,
  the four ways poll() returns, `ReleaseAll` in four steps, `Recheck`, `Leave`.
  A descriptor with the events it is watched for is one value.
* **GstAtomicQueue**: `Push` to `Reveal`, `Pop` to `Take`, `Length...`; the
  array that loses the race to become the next is never seen and left out.
  Positions do not wrap (2^32 in the code), memory is sequentially consistent.
* **GstBufferPool**: the tables `Writes` and `Reads` say which step follows
  each call of the poll.  A buffer is the configuration it was allocated with.
  A wait that the caller does not want (DONTWAIT) is the choice in
  `AcquireEmpty`.  A started-but-failed activation is `StartFails`.
* **GstBus**: a message is its address; `FreeSignal` and `FreeMemory` are the
  two halves of `_gst_message_free`, and the address can be allocated again.
  The sync handler's answer is the choice among `Reply...`.
* **GstBusWatch**: what the object lock covers is one action; `SourceRemove`
  comes after the unlock.  `users` and `enabled` are what the callers believe.
* **GstTask**: `careful` is chosen once, in `Init`: whether users keep to the
  discipline of `gstpad.c` (a stopped task is joined, by one thread, before it
  is used again) and the pool runs what it is given.  Safety is checked for
  both choices, liveness needs it.  `Signal` wakes any one of those who wait;
  `Spurious` wakes anybody.  `FuncPauses` is the function pausing its own task,
  as `gst_pad_pause_task` does from a loop function.
* **GstSystemClock**: `step[e]` is where the thread that waits for `e` is (the
  caller of `gst_clock_id_wait`, or the async thread for its `current` entry).
  Time is a counter that `Tick` advances.  `use[e]` says how the application
  uses an entry (once, again after it ended, or periodically); `Uses` names the
  combinations a run begins with.
* **GstElement, GstBin**: `el[e]` holds the five state fields of an element.
  `d` is the driver: whoever holds the bin's STATE_LOCK, the application in
  `SetState` or a pool thread in `Continue`, and the locals of
  `gst_bin_change_state_func` and of the child's `gst_element_set_state` under
  it.  `PickChild` reads the child's state, `CheckChild` decides under the bin's
  lock whether to skip it, `SetChild` and `Child...`, `Sink...` and `LiveChange`
  are its own change, `BinFinish` and `BinReturned` the end of the bin's.
  `conts` is the bag of continuations pushed on the pool.  `starts` are the
  children whose ASYNC_START the bin keeps.  `thread[c]` is the streaming thread
  of a sink (`Arrive`, `PostDone`, `Resume`), `flush[c]` a flushing seek that
  reaches it.  `LockedSeeks` says that the application sends seeks to the bin
  by `gst_element_send_event`, which holds the STATE_LOCK; `lowered` is a history
  variable: a lower state was asked for while a change was under way.
* **GstQueue**: a section under `qlock` is one action.  `up` is where the
  upstream thread is: waiting for space (`wait`), emitting a signal (`overrun`,
  `running`), or waiting for a query (`queryWait`); `lp` is where the task's
  function is, with `push` and `pushed` around the push without the lock and
  `query` for the peer query, which is made with the lock held.  `fl` is the
  thread of a flushing seek, `st` the thread that changes the state.  Pads that
  refuse data are `sinkFlushing` and `srcFlushing` (the latter stands for all
  that is downstream).  An item carries the history the properties read: its
  place, its segment, the call that brought it, the flushes before it.

## 3. The runs

Ten runs pass; each property has a mutant, a plausible bug in a mapped
definition, for which TLC finds it violated.

| Run | States | Shows |
|---|---|---|
| `poll_timer` | 2 thousand | a read overtaking its write loses no wakeup; the socket stays bounded; sleepers wake |
| `poll` | 640 thousand | flush and change are seen by whoever waits or will wait; the spinning ends |
| `queue` | 1.1 million | no duplicates, order of each producer, justified NULLs, and refinement of `AbstractQueue`, until the queue grows |
| `pool` | 300 thousand | exact outstanding count, buffers kept while active, pairing with the poll, release of waiters |
| `bus` | 200 thousand | ownership, pairing with the poll, asynchronous posters released, flushing ends |
| `watch` | 400 | the shared watch is attached while counted; the bus never points at a dead source |
| `task` | 7 thousand | one thread, one mutex, quiet after pause; with discipline, join returns and start runs |
| `clock` | 170 thousand | exact wakeup count, no OK before its time; waits end, entries are served, dispose can join |
| `bin` | 390 thousand | the bin agrees with its children, never rises above what was asked for last, sinks start together (but beside a live source), changes end and are seen to end |
| `queue_element` | 330 thousand | order, nothing stale after a flush, buffers under their segment, queries with their own answer; calls return and an end of stream arrives |
| `queue_lost`, `queue_element_eos` | until the counterexample | section 6 |

### Bounds and why they are enough

* Threads: three wherever a third thread can come between two others' steps;
  two producers and two consumers of the queue, two clients and two workers of
  a task (a second worker appears only if OneThread fails).
* `MaxQueued` 3: every thread of `poll_timer` can have an entry of its own.
  `MaxPending` 2: enough for the 0-1-2 transitions of the counter, which are
  the only ones its code distinguishes.
* `MinSize` 2 and `MaxPush` 3: the ring of two slots wraps, is full, and is
  grown while a push is under way.  `MaxLength` 2 keeps to the capacity of the
  first array, 3 (in `queue_lost`) exceeds it.
* `MaxBuffers` 1, configurations (1,1) and (0,0): one buffer is enough for
  every branch of acquire, release and stop, and the two configurations differ
  in preallocation and in whether acquire allocates or waits.
* Two messages, one of them unwanted by the filter; addresses are reused.
* `MaxWatchers` 3: more than the two at which the count does not reach 0.
* `MaxTime` 1 and two entries, both asynchronous or one of each kind, one of
  them periodic and used again or each used once (`MCUses`): entries before, at
  and after the present and each other.  With a third entry, as in the recipe
  `WaitsForHead` below, the liveness properties take too long.
* The bin has two children, both sinks or a sink and a live source: two are
  enough for one that is done and one that is not.  `MaxSets` 3 calls of
  set_state, to any state, let a change be overtaken twice; `MaxUpsets` 1 is one
  seek or error; a child may fail to start.  With three children, a live source
  and two sinks, `NoneBehind`, `NoneAhead` and `NeverAbove` were checked once
  more (no failures, minutes instead of seconds), and `ChangesEnd` with
  `MaxSets` 2 and no upset.  Three children also show why `PlayTogether` speaks
  of bins without a live source: a bin that answers NO_PREROLL waits for nobody,
  and tells a sink that has data to play while the other still prerolls.
* The queue element: capacities 1 and 2, thresholds 0 and 2 (so a threshold may
  exceed the capacity), the three ways of leaking, `MaxCalls` 3 (a segment, a
  buffer under it, and what comes after), one seek, restart or change of a
  limit, and downstream may answer EOS once.  `Strands` FALSE leaves out
  two changes of limits that strand the task (section 6).

### Fairness

Weak fairness of what a thread in a call does next (`Continue`, `Work`,
`WaitStep`, ...): the scheduler runs every thread, and no such step waits for
anything but what its guard says.  Calls are never forced to begin, except that
the main loop dispatches its watch (`Dispatch` in `bus`), without which an
asynchronous message need not be handled.  Strong fairness is used for locks
that others take again and again: `PopLock` (queue_lock of the bus), `DecLock`
(the pool's lock, against ever new activations) and `Acquire` (a task's mutex):
a mutex that is free infinitely often is given to a thread that keeps asking.
`Tick` is fair, because time passes; the bound `MaxTime` lets it stop.

In `bin`, `Drive` is the thread that holds the STATE_LOCK or one of the pool
that is free to take it; `Stream` includes the arrival of data at a sink that
can take it, since a sink without data never prerolls; a seek that was begun
goes on (`Flush`).  In `queue_element` each of the four threads goes on while
it is inside a call (`Upstream`, `Loop`, `Seek`, `ChangeState`); `Loop` includes
downstream's answer to what is pushed.  Nobody has to call, seek, or change a
state.

Deadlock is checked except in `pool` (an application may leave a thread waiting
for a buffer nobody returns), the clock (it ends when time stops and the
clock is disposed of), the bin and the queue element (the application may stop
asking, and data may stop coming).

## 4. The proofs

Eight modules `*_proofs`, one for each component, extend the component's module
and hold its theorems; `GstBus_proofs` extends both `GstBus` and `GstBusWatch`,
two parts of one object (the definitions of the second that every specification
has are named `WatchInit`, `WatchNext`, `WatchSpec`, `WatchTypeOK`).  They are proved for every value of the constants that
satisfies the module's named assumptions: any finite set of threads, any
entries, messages, items, capacities and bounds.  Every one is of the form
`Init => IInv`, `IInv /\ [Next]_vars => IInv'`, `IInv => property`; every `IInv`
was checked by TLC on the component's run before it was proved.  The theorems
named here are those listed in `PROJECT.json`.

| Module | Proved of `Spec` |
|---|---|
| `GstPollTimer_proofs` | `TypeOK`, `NoLostWakeup`, `SocketBounded` |
| `GstPoll_proofs` | `TypeOK`, `SpinEnds`, and `NothingMissed` of a poll that is not a timer |
| `GstBufferPool_proofs` | `TypeOK`, `OutstandingCounts`, `ActiveKeepsBuffers`, `ImplementsPollClient` |
| `GstBus_proofs` | `TypeOK`, `OwnedOnce`, `ImplementsPollClient`; of `WatchSpec`: `WatchTypeOK`, `SignalWatchServed`, `WatchIdAlive` |
| `GstTask_proofs` | `TypeOK`, `OneThread`, `QuietAfterPause` |
| `GstSystemClock_proofs` | `TypeOK`, `WakeupsCounted`, `NotBeforeTime` |
| `GstBin_proofs` | `TypeOK`, the action property `NeverAbove`, `NoneAhead`; `NoneBehind` without seeks or with seeks that take the STATE_LOCK; `PlayTogether` of runs that have neither errors nor other seeks |
| `GstQueue_proofs` | `TypeOK`, `InOrder`, `NoStale`, and the action properties `InSegment`, `OwnAnswer` |

### The inductive invariants and why they are needed

**GstPollTimer.**  `PendingCountsQueue`: `control_pending` = entries queued -
writes to be made + reads to be made (negative when a read comes first).
`BytesCoverPending`: bytes in the socket and bytes about to be written cover the
reads under way and, while the counter is positive, one more.
`SpareBytesBounded`: no more than that, up to one byte for each thread; a read
that came too early leaves its byte behind, but then the counter is negative and
another thread has still to write.  The argument counts: changing one thread's
value moves the number of threads with a given value by one at most
(`CountUpdate`), and each action is linear arithmetic.

**GstPoll.**  `SpinEnds` needs the same cover (`BytesCoverWakeups`) with the
loop of `release_all_wakeup` in between its load of the counter and its read
(`Releasing`).  `NothingMissed` speaks of moments when no call is under way; to
be inductive it has to say who will tell the waiter in the meantime.
`MissedIsSignalled`: if something has happened since the waiter looked
(`Missed`), the counter is positive or a thread is at the steps that read
`waiting` and raise a wakeup; it rests on `waiting` being the number of waiters
(`WaitingCounts`) and on the waiter's copy of the set (`CopyUpToDate`).  A timer
poll is excluded because its waiters may be several and the second of two first
waits polls an empty array (`WaitsOnControl`, section 6).

**GstBufferPool.**  `rec_lock` is held exactly within the calls that take it
(`LockHeld`); so flushing is the converse of active but within a deactivation
(`FlushingUnlessActive`), and an active pool has what its start allocated
(`StartedKeeps`).  `OutstandingCounts` is a count of threads, as above.
`BeforeConfig` says that nothing is allocated before the pool has a
configuration.

**GstBus.**  `Ownership`: a message that is allocated has one owner, its poster
until the push, the bus, or the thread that popped it until it is freed; the
messages on the bus are distinct, and none has a condition before its poster
chose GST_BUS_ASYNC.

**The two refinements.**  `ClientOfPoll` of both modules proves that `Init` maps
to `Init` of `GstPollTimer` and each step to a step or a stutter
(`StepRefines`, one case for each step of a call).  `WaitersAreWoken` then
instantiates the theorem `NoWakeupLost` under the same mapping: no thread sleeps
in a bus or a pool beside something to wake for.  The abstract specification is
proved once and used twice.

**GstBusWatch.**  `OneSource`: a source that is not free is the one the bus
points at.  So a watch is added only when the last source is gone, and a thread
between its unlock and its `g_source_remove` is alone (`RemovingAlone`), nobody
being counted meanwhile.

**GstTask.**  `running` protects the thread: there is one at most
(`AtMostOne`), the mutex it read stays the task's, and it holds that mutex
wherever it may call the function (`ThreadLocks`).  `QuietStrong` adds to
`QuietAfterPause` what the thread may be about to do.

**GstSystemClock.**  The status of an entry, changed by others with
compare-and-exchange, and the step of the thread that waits for it agree
(`StatusOfStep`); an entry that was given a wakeup stays UNSCHEDULED until its
thread took the wakeup back (`WokenIsCleanedUp`).  Without the latter the count
could be taken back twice.  `AsyncTurn` and `CurrentListed` say that the async
thread waits for one entry, which is in the list.

**GstBin.**  `CurrentContinuations`: a continuation with the present cookie is
for the present target, since the cookie changes whenever the target does; so
the driver that acts on one goes where the application wants.  `OnCourse`: the
transition under way leads towards what is pending, which is no more than the
target, so what set_state, a commit or the last ASYNC_DONE make current is no
more than the target.  `bin_handle_async_done` computes the next state from the
state the bin was in before (`gstbin.c:2988`), so it must also be known that a
bin on its way to PAUSED or above is at no time sent below, which `Near` says
for such aims and `Waiting` whenever no driver is under way.

`NoneBehind`, `NoneAhead` and `PlayTogether` relate the children to the bin.
What is known of a child depends on how far the driver has come: `GstBinView`
looks at the bin and one child, a variable for each field, and says by the
stages of the driver where that child is (`ViewInv`).  Between two drivers its
`Goal`, the state it is in or on its way to, lies between the bin's `Floor` and
`Ceiling`, and whenever the driver has it still to do, between the ends of the
driver's transition; it is where the transition leads when the driver leaves it,
or is known to be late (`ChildAtStages`).  A child that changes without a driver
is a sink on its way up (`ChildReturnsFit`), whose ASYNC_START the bin has, or a
seek or streaming thread is to post what settles it (`SinkAtStages`,
`ThreadsAtStages`); where the bin does not count on an ASYNC_DONE no ASYNC_START
is left (`NotAwaited`), since it would commit for a child that is not done; and
the bin's own fields and return fit the stage (`BinAtStages`, `BinReturnsFit`),
as what the last ASYNC_DONE does depends on them.  `Together` is what
`PlayTogether` needs: who is on its way to PLAYING is so by a driver or a bin
that goes there, and then nobody is below PAUSED.

No two children need be compared.  So an action of GstBin is, in the view of
each child, a step of the bin (`BinStep`), a step of that child (`ChildStep`),
or one of another child (`Aside`), in terms of some forty scalars (the lemmas
named `...Seen`); and a view keeps its invariant under each (`BinStepsView`,
`ChildStepsView`, `OthersView`, which holds because a message of another child
moves the bin only in ways this child's view allows for).  The end of
gst_bin_change_state_func is the one step that needs what all views say
together (`BinFinishSeen`).  `Level` is `ViewInv` of every child for runs
without errors and without seeks beside the STATE_LOCK; TLC checked it, with
`ViewTyped`, on the run `bin` before it was proved.

**GstQueue.**  The item that the task holds and the items in the queue are seen
as one sequence (`OnItsWay`): its numbers ascend between the last delivered and
the last accepted and are gapless unless one was dropped (`Ordered`), it is of
one flush generation while downstream takes data (`Fresh`), and each item's
segment is the one the last segment before it began (`Segmented`).  Each action
appends to it, removes from it at the front or behind the held item, or empties
it; the lemmas about sequences say what that keeps.  What makes an empty
sequence safe are the phases (`SeekPhases`, `RestartPhases`): from the start of a
flush or a deactivation to its end, the pads refuse data, the task is at rest
and the upstream thread is out.  `AnswerPending`: at most one query is in the
queue, the last item, or at the peer, as long as its caller waits.

### Assumptions

The named ASSUMEs of the modules, which TLC evaluates in the runs: sets of
threads are finite (`ThreadsAssumption`); the messages of the bus and the entries
of the clock are finite sets (their memory is); the bounds are natural numbers;
the limits of a configuration are ordered; `NONE` and `NO_SOURCE` are none of
the values.  The only other hypothesis is `~IsTimer` in `NothingIsMissed`.

Two definitions were written for the prover as well as for the reader: the list
of the clock is kept in order by inserting (`InsertSorted`, as
`g_list_insert_sorted` does), and `Buffers` of the queue element counts by
`Cardinality`.

## 5. What is only model-checked

* Liveness, in every run: fairness is about ENABLED, which is out of the
  prover's reach.
* `GstAtomicQueue`: `Contents` flattens a chain of arrays of any length, and what
  a fold or a recursive function computes for every input needs induction over
  data, whose theorems the installed provers cannot instantiate.  So
  `OnceInOrder`, `NothingLostIntact`, `EmptyPopJustified` and the refinement of
  `AbstractQueue` stay with TLC.
* `GstBin`: `PlayTogether` in runs with errors; with seeks sent to a sink beside
  the STATE_LOCK neither it nor `NoneBehind` holds (section 6).
* That the counterexamples of section 6 exist is TLC's result too.

`ImplementsQueue` is stated up to the point where the queue grows, because the
code does not implement a FIFO beyond it (section 6).

## 6. Where documentation and code part

Two runs show a documented promise that the code does not keep.

1. `queue_lost`: "Append @data to the tail of the queue"
   (`gstatomicqueue.c:341`).  A reader finds an array empty, then looks at its
   `next`.  If in between a slower writer reveals an item there and another has
   grown the queue, the reader leaves the array with the item in it
   (lines 304-314).  `NothingLostIntact`, `EmptyPopJustified` and
   `ImplementsQueue` say what holds until then.  With the 16 slots of
   `new_queue_mem`, 16 items have to be queued first.
2. `queue_element_eos`: after EOS from downstream "we dequeue all items until we
   see an item that we can push again, which is EOS or SEGMENT"
   (`gstqueue.c:1035-1036`) and "a new segment allows us to accept more buffers
   if we got EOS from downstream" (line 614).  When the queue holds a segment,
   `gst_queue_push_one` jumps back to push it (line 1053), but `result` is still
   GST_FLOW_EOS from the buffer: it returns that (line 1095), and the
   loop pauses its task (lines 1144-1159).  What follows the segment, an
   accepted end of stream included, stays in the queue.  `EosDelivered` says
   what holds otherwise.

The last section of a module, or a constant of it, states further sentences of
the documentation that TLC refutes.  Each is reproduced by putting it in place
of the INVARIANTS and PROPERTIES of a configuration, with SPECIFICATION Spec
unless the table says otherwise, and changing constants as said:

| Property | Module | Configuration | What happens |
|---|---|---|---|
| `BalancedReadsBlock` | GstPollTimer | `MCGstPollTimer.cfg` | a read before its write leaves a byte, so the next wait returns at once |
| `ResultHasActivity` | GstPoll | `MCGstPoll.cfg` | the control socket is counted in the result when a descriptor is active too |
| `WaitsOnControl` | GstPoll | `MCGstPoll.cfg`, IsTimer = TRUE | of two first waits on a timer one polls nothing |
| `LengthNotNegative` | GstAtomicQueue | `MCGstAtomicQueueLost.cfg`, MinSize = 1 | head and tail are read at different times |
| `EveryMemFreed` | GstAtomicQueue | `MCGstAtomicQueueLost.cfg`, MinSize = 1, MaxPush = 4, MaxLength = 4 (takes several minutes) | arrays between head and tail are not freed |
| `InactiveHoldsNothing` | GstBufferPool | `MCGstBufferPool.cfg` | a failed start leaves its buffers |
| `BuffersMatchConfig` | GstBufferPool | `MCGstBufferPool.cfg` | a pool that stayed started does not preallocate for a new configuration |
| `WaitsOnlyAtMax` | GstBufferPool | `MCGstBufferPool.cfg` | a thread waits although fewer buffers than the maximum are out |
| `FlushingBusStaysEmpty` | GstBus | `MCGstBus.cfg` | a post past the check arrives after the flush |
| `ConditionOutlivesWaiter` | GstBus | `MCGstBus.cfg` | the poster of a GST_BUS_ASYNC message "can continue" (`gstbus.c:354`), but the condition it continues to use is in the memory that `_gst_message_free` frees next (`gstmessage.c:187-200`) |
| `WatchersCounted`, `EmissionStops` | GstBusWatch | `MCGstBusWatch.cfg` | a failed add is not counted; emission cannot be disabled under a watch |
| `JoinersWaitForThread`, `RunningHasThread`, `StartedHasThread` | GstTask | `MCGstTask.cfg` | one signal for two joiners; a pool that fails; a start before the thread has gone |
| `CancelledNotFired` | GstSystemClock | `MCGstSystemClock.cfg`, Uses <- TwoOnce, MaxTime = 2 | after an unschedule an entry "cannot be used anymore to receive sync or async notifications" (`gstclock.c:644`), but one that comes between the wait's last look at the status and its assignment (`gstsystemclock.c:699-702`, `724-731`) is overwritten, and the callback runs |
| `WaitsForHead` | GstSystemClock | the same | a new head of the list does not wake the thread between picking and marking the old one |
| `LastAskReached` | GstBin | `MCGstBin.cfg`, SPECIFICATION FairSpec, MaxSets = 2, MaxUpsets = 0, MayFail = FALSE | see below |
| `NoneBehind` | GstBin | `MCGstBin.cfg`, LockedSeeks = FALSE | a seek sent to a sink itself while the bin changes its state takes the sink's state away behind the driver's back; the documentation asks for as much: `gst_element_lost_state` "can only be called when the element is currently not in error or an async state change" (`gstelement.c:2247-2248`), and gst_element_send_event takes the STATE_LOCK |
| `CallsReturn` | GstQueue | `MCGstQueue.cfg`, SPECIFICATION FairSpec, Strands = TRUE | a capacity lowered to the level while the task waits for its threshold wakes only upstream (`gstqueue.c:1338-1341`), although the queue is full and so no longer empty (lines 820-821); and a threshold set after the end of stream came holds back what is before it |

`LastAskReached`: `gst_element_set_state` may return ASYNC and "the element will
perform the remainder of the state change asynchronously in another thread",
which "an application can use gst_element_get_state() to wait for"
(`gstelement.c:2319-2322`).  When all children are done, `bin_handle_async_done`
leaves the bin's next state on the way to the old target (`gstbin.c:2988`).  An
application that now asks for that next state takes the busy exit of
`gst_element_set_state_func` (`gstelement.c:2403-2408`), its new cookie makes the
continuation return (`gstbin.c:2754`), and nobody goes on: the bin says ASYNC
for ever.  `ChangesEnd` says what holds for applications that wait for a change
before they ask for less.

Two properties of GstQueue exclude by their form what the code does not promise:
`InSegment` a queue that leaks downstream, which drops segments with the buffers
before the comment "We always handle events" (`gstqueue.c:889`) comes true; and
`CallsReturn` a query that waits behind items below the threshold, which the
task does not take out until more come.

## 7. Not modelled

Inside the modelled components:

* poll, queue, pool, bus: the Windows variants; the choice of system call in
  `gst_poll_wait`; readers of one descriptor's state; `LOW_MEM` (not compiled);
  subclassed pools; a bus without a poll and `gst_bus_poll`;
* task, clock: thread callbacks and priorities; periodic entries waited for
  synchronously; failure to create threads;
* bin: the aggregation of EOS and of other messages, children with a locked
  state or a state of their own, adding and removing children, resynchronised
  iteration, bins inside bins, what get_state returns and its timeout, the
  selection of a clock and the base time; sinks with `async` off, stepping, the
  wait for the clock and end of stream inside a sink;
* queue element: pull mode, levels in bytes and time, DISCONT marks, events
  other than segment and end of stream, events and queries that travel
  upstream, `silent`, flow results other than OK, EOS and FLUSHING and the
  error message they cause, seeks that race a state change, a wait that ends
  without a signal;
* everywhere: memory ordering weaker than that of GLib's atomics.

The other components and the reasons are in `PROJECT.json`.  Most of the tree by
size is codecs, demuxers, effects and tables, generated or of third parties:
sequential code whose correctness is that of a format, with no state of several
actors that these models could tell anything about.  What is left of the core
with a protocol of its own is in the plan below.

## 8. Plan

Done: GstPoll, since all others sleep on it; the atomic queue; its two users;
the task; the clock; GstBin over GstElement with the preroll of GstBaseSink; the
queue element; the safety of all of them but the atomic queue, and both
refinements of the timer poll, as theorems.

Next, models, in this order:

1. `GstPad`: chain and event functions against blocking probes, flushing and
   sticky events, which GstQueue takes as flags; the live lock of GstBaseSrc.
2. `GstMultiQueue` (wake-up of streams that are not linked), `GstCollectPads2`.
3. The end of a stream in GstBin and GstBaseSink, adding and removing children.
4. `GstMiniObject` reference counts; `GstIterator`'s cookies; GstClock's
   sequence lock; the network clock.

Abstract specifications worth stating: an element whose state is one variable
(for GstBin), a bounded FIFO with flush (for queue and multiqueue, which can
share `AbstractQueue`).

Theorems, next:

* `PlayTogether` of `GstBin` in runs with errors, whose views need weaker
  stages: after an error the bin may be anywhere between two commits;
* the invariants of one array of `GstAtomicQueue`: head <= tail_read <=
  tail_write <= head + size + 1, slots below tail_read filled.
