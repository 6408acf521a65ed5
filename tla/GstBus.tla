------------------------------- MODULE GstBus -------------------------------
(***************************************************************************)
(* Posting and popping on a GstBus (gstbus.c): posters push messages on an *)
(* atomic queue without a lock and write the control socket of a timer     *)
(* poll; poppers, the main loop's watch and set_flushing take them out     *)
(* under queue_lock.  A poster whose sync handler answers GST_BUS_ASYNC    *)
(* sleeps on a condition inside its own message until the message is freed.*)
(*                                                                         *)
(* pc[t] is the next step of the call thread t is in, op[t] the call.  The *)
(* queue is atomic here (see GstAtomicQueue); a message is its address,    *)
(* which may be allocated again once it was freed.                         *)
(***************************************************************************)
EXTENDS GstPollControl, SequencesExt

CONSTANTS
  Posters, Poppers,     \* the threads that post, that pop and flush, or both
  Messages,             \* addresses of messages: bounds how many exist at once
  Unwanted,             \* those a filtering pop does not match
  NONE

ASSUME BusAssumption ==
  /\ Posters \cup Poppers = Threads
  /\ Unwanted \subseteq Messages
  /\ NONE \notin Threads \cup Messages
  /\ IsFiniteSet(Messages)

VARIABLES
  queue,                \* the messages on the bus
  allocated,            \* the messages whose memory is not freed
  async,                \* those that have a condition somebody waits on
  flushing,             \* GST_BUS_FLUSHING
  object_lock, queue_lock,  \* the thread that holds the lock
  pc, op,
  msg                   \* msg[t]: the message t posts, or has popped

busVars == <<queue, allocated, async, flushing, object_lock, queue_lock, op, msg>>
vars == <<ctlVars, busVars, pc>>

(* gst_bus_init, gst_bus_constructed *)
Init ==
  /\ ControlInit
  /\ queue = <<>> /\ allocated = {} /\ async = {}
  /\ flushing = FALSE
  /\ object_lock = NONE /\ queue_lock = NONE
  /\ pc = [t \in Threads |-> "none"]
  /\ op = [t \in Threads |-> "none"]
  /\ msg = [t \in Threads |-> NONE]

(* The thread is at this step of its call and owes the socket nothing. *)
At(t, step) == pc[t] = step /\ ctl[t] = "idle"

GoTo(t, step) == pc' = [pc EXCEPT ![t] = step]

EndPost(t) == GoTo(t, "none") /\ msg' = [msg EXCEPT ![t] = NONE]

-----------------------------------------------------------------------------
(* Mutants: a post that looks at flushing without the lock, a pop that     *)
(* does not read the control socket, a message pushed without a wakeup, a  *)
(* dropped message that is freed and pushed all the same.                  *)
PostUnchecked(t, m) ==
  /\ At(t, "none") /\ t \in Posters
  /\ m \notin allocated
  /\ allocated' = allocated \cup {m}
  /\ msg' = [msg EXCEPT ![t] = m]
  /\ GoTo(t, "post_reply")
  /\ UNCHANGED <<ctlVars, queue, async, flushing, object_lock, queue_lock, op>>

PopUnread(t) ==
  /\ At(t, "pop_read")
  /\ GoTo(t, "pop_got")
  /\ UNCHANGED <<ctlVars, busVars>>

PostSilently(t) ==
  /\ \/ At(t, "post_write") /\ EndPost(t)
     \/ At(t, "async_write") /\ GoTo(t, "async_wait") /\ UNCHANGED msg
  /\ UNCHANGED <<ctlVars, queue, allocated, async, flushing, object_lock, queue_lock, op>>

DropStillQueued(t) ==
  /\ At(t, "post_reply")
  /\ allocated' = allocated \ {msg[t]}
  /\ queue' = Append(queue, msg[t])
  /\ GoTo(t, "post_write")
  /\ UNCHANGED <<ctlVars, async, flushing, object_lock, queue_lock, op, msg>>

-----------------------------------------------------------------------------
(* gst_bus_post: a message is refused, and freed, on a flushing bus.       *)
Post(t, m) ==
  /\ At(t, "none") /\ t \in Posters
  /\ object_lock = NONE /\ ~flushing
  /\ m \notin allocated
  /\ allocated' = allocated \cup {m}
  /\ msg' = [msg EXCEPT ![t] = m]
  /\ GoTo(t, "post_reply")
  /\ UNCHANGED <<ctlVars, queue, async, flushing, object_lock, queue_lock, op>>

(* The sync handler runs without a lock.  DROP: nothing more is done, the  *)
(* handler owns the message and frees it.                                  *)
ReplyDrop(t) ==
  /\ At(t, "post_reply")
  /\ allocated' = allocated \ {msg[t]}
  /\ EndPost(t)
  /\ UNCHANGED <<ctlVars, queue, async, flushing, object_lock, queue_lock, op>>

ReplyPass(t) ==
  /\ At(t, "post_reply")
  /\ queue' = Append(queue, msg[t])
  /\ GoTo(t, "post_write")
  /\ UNCHANGED <<ctlVars, allocated, async, flushing, object_lock, queue_lock, op, msg>>

(* The lock and condition of the message are made and the lock is taken    *)
(* before the push, until g_cond_wait.                                     *)
ReplyAsync(t) ==
  /\ At(t, "post_reply")
  /\ async' = async \cup {msg[t]}
  /\ queue' = Append(queue, msg[t])
  /\ GoTo(t, "async_write")
  /\ UNCHANGED <<ctlVars, allocated, flushing, object_lock, queue_lock, op, msg>>

(* gst_poll_write_control, first half; WakeEvent is the second.            *)
PostWrite(t) ==
  /\ \/ At(t, "post_write") /\ EndPost(t)
     \/ At(t, "async_write") /\ GoTo(t, "async_wait") /\ UNCHANGED msg
  /\ Raise(t)
  /\ UNCHANGED <<queue, allocated, async, flushing, object_lock, queue_lock, op>>

(* g_cond_wait may return without a signal, and no condition is tested. *)
Spurious(t) ==
  /\ At(t, "async_wait")
  /\ GoTo(t, "async_woken")
  /\ UNCHANGED <<ctlVars, busVars>>

(* After g_cond_wait: g_mutex_unlock, g_mutex_clear, g_cond_clear, all on  *)
(* memory inside the message.                                              *)
AsyncDone(t) ==
  /\ At(t, "async_woken")
  /\ EndPost(t)
  /\ UNCHANGED <<ctlVars, queue, allocated, async, flushing, object_lock, queue_lock, op>>

-----------------------------------------------------------------------------
(* gst_bus_timed_pop_filtered, with GST_MESSAGE_ANY or with a filter.      *)
Pop(t, how) ==
  /\ At(t, "none") /\ t \in Poppers
  /\ op' = [op EXCEPT ![t] = how]
  /\ GoTo(t, "pop_lock")
  /\ UNCHANGED <<ctlVars, queue, allocated, async, flushing, object_lock, queue_lock, msg>>

(* gst_bus_source_check and _dispatch: one pop, which need not wait, each  *)
(* time the descriptor is readable.                                        *)
Dispatch(t) == Readable /\ Pop(t, "pop")

(* gst_bus_set_flushing (TRUE): pops until empty under the object lock.    *)
SetFlushing(t) ==
  /\ At(t, "none") /\ t \in Poppers
  /\ object_lock = NONE
  /\ object_lock' = t
  /\ flushing' = TRUE
  /\ op' = [op EXCEPT ![t] = "flush"]
  /\ GoTo(t, "pop_lock")
  /\ UNCHANGED <<ctlVars, queue, allocated, async, queue_lock, msg>>

UnsetFlushing(t) ==
  /\ At(t, "none") /\ t \in Poppers
  /\ object_lock = NONE /\ flushing
  /\ flushing' = FALSE
  /\ UNCHANGED <<ctlVars, queue, allocated, async, object_lock, queue_lock, op, msg, pc>>

PopLock(t) ==
  /\ At(t, "pop_lock")
  /\ queue_lock = NONE
  /\ queue_lock' = t
  /\ GoTo(t, "pop_take")
  /\ UNCHANGED <<ctlVars, queue, allocated, async, flushing, object_lock, op, msg>>

PopTake(t) ==
  /\ At(t, "pop_take")
  /\ queue # <<>>
  /\ msg' = [msg EXCEPT ![t] = Head(queue)]
  /\ queue' = Tail(queue)
  /\ GoTo(t, "pop_read")
  /\ UNCHANGED <<ctlVars, allocated, async, flushing, object_lock, queue_lock, op>>

(* gst_poll_read_control, first half. *)
PopRead(t) ==
  /\ At(t, "pop_read")
  /\ Release(t)
  /\ GoTo(t, "pop_got")
  /\ UNCHANGED busVars

Discarded(t) == op[t] = "filter" /\ msg[t] \in Unwanted

(* A message that matches is returned without the lock, for the caller to  *)
(* unref; one that does not is unreffed here, under the lock.              *)
PopGot(t) ==
  /\ At(t, "pop_got")
  /\ queue_lock' = IF Discarded(t) THEN t ELSE NONE
  /\ GoTo(t, "free")
  /\ UNCHANGED <<ctlVars, queue, allocated, async, flushing, object_lock, op, msg>>

(* Nothing on the bus and timeout 0, or it expired: return NULL.  For      *)
(* set_flushing that ends the loop.                                        *)
PopReturns(t) ==
  /\ \/ At(t, "pop_take") /\ queue = <<>>
     \/ At(t, "pop_expired") /\ queue_lock = NONE
  /\ queue_lock' = NONE
  /\ object_lock' = IF op[t] = "flush" THEN NONE ELSE object_lock
  /\ op' = [op EXCEPT ![t] = "none"]
  /\ GoTo(t, "none")
  /\ UNCHANGED <<ctlVars, queue, allocated, async, flushing, msg>>

(* ... or a timeout: gst_poll_wait without the lock.                       *)
PopWaits(t) ==
  /\ At(t, "pop_take") /\ queue = <<>>
  /\ op[t] \in {"pop", "filter"}
  /\ queue_lock' = NONE
  /\ GoTo(t, "wait")
  /\ UNCHANGED <<ctlVars, queue, allocated, async, flushing, object_lock, op, msg>>

Woken(t) ==
  /\ At(t, "wait") /\ Readable
  /\ GoTo(t, "pop_lock")
  /\ UNCHANGED <<ctlVars, busVars>>

Expires(t) ==
  /\ At(t, "wait")
  /\ GoTo(t, "pop_expired")
  /\ UNCHANGED <<ctlVars, busVars>>

-----------------------------------------------------------------------------
(* _gst_message_free: the condition is signalled under the message's lock, *)
(* which its poster holds until it waits; then the memory goes.            *)
FreeSignal(t) ==
  LET poster(p) == p # t /\ msg[p] = msg[t]
      asleep(p) == pc[p] = "async_wait" /\ ctl[p] = "idle"
  IN  /\ At(t, "free") /\ msg[t] \in async
      /\ \A p \in Posters : poster(p) /\ pc[p] \in {"async_write", "async_wait"} => asleep(p)
      /\ pc' = [p \in Threads |->
                  IF p = t THEN "free_memory"
                  ELSE IF poster(p) /\ pc[p] = "async_wait" THEN "async_woken" ELSE pc[p]]
      /\ UNCHANGED <<ctlVars, busVars>>

FreeMemory(t) ==
  /\ \/ At(t, "free") /\ msg[t] \notin async
     \/ At(t, "free_memory")
  /\ allocated' = allocated \ {msg[t]}
  /\ async' = async \ {msg[t]}
  /\ msg' = [msg EXCEPT ![t] = NONE]
  /\ \/ /\ queue_lock = t          \* discarded: take the next
        /\ GoTo(t, "pop_take") /\ UNCHANGED op
     \/ /\ queue_lock # t /\ op[t] = "flush"
        /\ GoTo(t, "pop_lock") /\ UNCHANGED op
     \/ /\ queue_lock # t /\ op[t] # "flush"
        /\ GoTo(t, "none") /\ op' = [op EXCEPT ![t] = "none"]
  /\ UNCHANGED <<ctlVars, queue, flushing, object_lock, queue_lock>>

Finish(t) == FinishControl(t) /\ UNCHANGED <<busVars, pc>>

(* What a thread does without deciding to: the rest of a call it is in. *)
Continue(t) ==
  \/ ReplyDrop(t) \/ ReplyPass(t) \/ ReplyAsync(t)
  \/ PostWrite(t) \/ AsyncDone(t)
  \/ PopLock(t) \/ PopTake(t) \/ PopRead(t) \/ PopGot(t)
  \/ PopReturns(t) \/ PopWaits(t) \/ Woken(t)
  \/ FreeSignal(t) \/ FreeMemory(t) \/ Finish(t)

Next == \E t \in Threads :
  \/ \E m \in Messages : Post(t, m)
  \/ Pop(t, "pop") \/ Pop(t, "filter")
  \/ SetFlushing(t) \/ UnsetFlushing(t)
  \/ Expires(t) \/ Spurious(t) \/ Continue(t)

Spec == Init /\ [][Next]_vars

(* The scheduler runs every thread, and the main loop its watch; queue_lock*)
(* goes to a thread that keeps asking for it.                              *)
FairSpec == Spec /\ \A t \in Threads :
  WF_vars(Continue(t)) /\ WF_vars(Dispatch(t)) /\ SF_vars(PopLock(t))

-----------------------------------------------------------------------------
TypeOK ==
  /\ ControlTypeOK
  /\ queue \in Seq(Messages)
  /\ allocated \subseteq Messages /\ async \subseteq allocated
  /\ flushing \in BOOLEAN
  /\ {object_lock, queue_lock} \subseteq Threads \cup {NONE}
  /\ pc \in [Threads -> {"none", "post_reply", "post_write", "async_write",
                         "async_wait", "async_woken", "pop_lock", "pop_take",
                         "pop_read", "pop_got", "pop_expired", "wait", "free",
                         "free_memory"}]
  /\ op \in [Threads -> {"none", "pop", "filter", "flush"}]
  /\ msg \in [Threads -> Messages \cup {NONE}]

(* gst_bus_post gives the message away: once pushed it is in one place, on *)
(* the bus or in the hands of the one thread that popped it, and not freed.*)
OwnedOnce ==
  LET popped == {t \in Poppers : pc[t] \in {"pop_read", "pop_got", "free", "free_memory"}}
  IN  /\ IsInjective(queue)
      /\ \A t \in popped : msg[t] \in allocated /\ ~Contains(queue, msg[t])
      /\ \A t, u \in popped : msg[t] = msg[u] => t = u
      /\ ToSet(queue) \subseteq allocated

(* The control socket is used in the way GstPollTimer describes: every     *)
(* push is followed by one write, every pop by one read, so its theorem    *)
(* that no wakeup is lost holds for the bus.                               *)
Poll == INSTANCE GstPollTimer WITH
  MaxQueued <- Cardinality(Messages),
  queued <- Len(queue),
  todo <- [t \in Threads |->
             CASE pc[t] \in {"post_write", "async_write"} -> "write_control"
               [] pc[t] = "pop_read" -> "read_control"
               [] pc[t] = "wait" -> "wait"
               [] OTHER -> "none"]

ImplementsPollClient == Poll!Spec

(* gst_bus_post, GST_BUS_ASYNC: a poster that waits for its message to be  *)
(* handled is released, given a main loop that runs the bus's watch.       *)
AsyncDelivered == \A t \in Posters : pc[t] = "async_wait" ~> pc[t] # "async_wait"

(* gst_bus_set_flushing (TRUE) pops until the bus is empty while others    *)
(* post; only the posts already past the check can feed it.                *)
FlushEnds == \A t \in Poppers : op[t] = "flush" ~> op[t] # "flush"

-----------------------------------------------------------------------------
(* What the documentation says and the code does not keep.                 *)

(* gst_bus_set_flushing, lines 419-420: "Will flush future messages until  *)
(* gst_bus_set_flushing() sets @flushing to #FALSE."                       *)
FlushingBusStaysEmpty == flushing /\ object_lock = NONE => queue = <<>>

(* gst_bus_post, lines 354-355: "When the message is handled by the app    *)
(* and destroyed, the cond will be signalled and we can continue": what    *)
(* the poster continues to use is inside the message.                      *)
ConditionOutlivesWaiter ==
  \A t \in Posters : pc[t] \in {"async_wait", "async_woken"} => msg[t] \in allocated
=============================================================================
