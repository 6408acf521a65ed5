--------------------------- MODULE GstBufferPool ---------------------------
(***************************************************************************)
(* GstBufferPool with its default methods (gstbufferpool.c): threads       *)
(* acquire and release buffers without a lock, through an atomic queue and *)
(* the control socket of a timer poll, while others activate, deactivate   *)
(* and reconfigure the pool under its lock.                                *)
(*                                                                         *)
(* The control socket counts the buffers in the queue, plus one while the  *)
(* pool is flushing.  Buffers are identified by the configuration they     *)
(* were allocated with.  The queue is atomic here (see GstAtomicQueue).    *)
(* pc[t] is the next step of the call thread t is in.                      *)
(***************************************************************************)
EXTENDS GstPollControl, SequencesExt

CONSTANTS
  Configs,              \* configurations: records with min and max buffers
  AllocMayFail,         \* whether alloc_buffer may return an error
  MaxBuffers,           \* bound: buffers in existence
  NONE

ASSUME ConfigsAssumption ==
  /\ \A c \in Configs : {c.min, c.max} \subseteq Nat /\ (c.max = 0 \/ c.min <= c.max)
  /\ NONE \notin Configs \cup Threads
ASSUME AllocAssumption == AllocMayFail \in BOOLEAN /\ MaxBuffers \in Nat

VARIABLES
  queue,                \* the buffers in the pool
  held,                 \* the buffers users have
  outstanding,          \* the atomic counter
  flushing, started, active,
  config,               \* the configuration, NONE before set_config
  lock,                 \* the thread that holds rec_lock
  pc,
  left,                 \* left[t]: buffers default_start has still to allocate
  preallocated          \* history: buffers the last start has allocated

startVars == <<left, preallocated>>
poolVars == <<queue, held, outstanding, flushing, started, active, config, lock, startVars>>
vars == <<ctlVars, poolVars, pc>>

(* Before gst_buffer_pool_init. *)
Init ==
  /\ ControlInit
  /\ queue = <<>> /\ held = <<>>
  /\ outstanding = 0
  /\ flushing = FALSE /\ started = FALSE /\ active = FALSE
  /\ config = NONE
  /\ lock = NONE
  /\ pc \in {[t \in Threads |-> IF t = creator THEN "init" ELSE "none"] : creator \in Threads}
  /\ left = [t \in Threads |-> 0] /\ preallocated = 0

Constructed == \A t \in Threads : pc[t] \notin {"init", "init_write"}

(* The thread is at this step of its call and owes the socket nothing. *)
At(t, step) == pc[t] = step /\ ctl[t] = "idle"

GoTo(t, step) == pc' = [pc EXCEPT ![t] = step]

Call(t, step) == Constructed /\ At(t, "none") /\ GoTo(t, step)

-----------------------------------------------------------------------------
(* Mutants: an acquire that is not counted, a last release that does not   *)
(* look at flushing once more under the lock, a buffer taken without       *)
(* reading the socket, a woken thread that does not look at flushing.      *)
AcquireUncounted(t) ==
  /\ Call(t, "acq_flushing")
  /\ UNCHANGED <<ctlVars, poolVars>>

DecRecheckStops(t) ==
  /\ At(t, "dec_recheck")
  /\ GoTo(t, "stop")
  /\ UNCHANGED <<ctlVars, poolVars>>

AcquirePopUnread(t) ==
  /\ At(t, "acq_pop")
  /\ queue # <<>>
  /\ queue' = Tail(queue)
  /\ held' = Append(held, Head(queue))
  /\ GoTo(t, "none")
  /\ UNCHANGED <<ctlVars, outstanding, flushing, started, active, config, lock, startVars>>

WokenIgnoresFlushing(t) ==
  /\ At(t, "wait")
  /\ Readable
  /\ GoTo(t, "acq_pop")
  /\ UNCHANGED <<ctlVars, poolVars>>

-----------------------------------------------------------------------------
(* gst_buffer_pool_init: flushing, and the token in the socket. *)
Construct(t) ==
  /\ At(t, "init")
  /\ flushing' = TRUE
  /\ GoTo(t, "init_write")
  /\ UNCHANGED <<ctlVars, queue, held, outstanding, started, active, config, lock, startVars>>

(* gst_buffer_pool_set_config: refused while active or with buffers out.   *)
SetConfig(t) ==
  /\ Constructed /\ At(t, "none")
  /\ lock = NONE
  /\ ~active /\ outstanding = 0
  /\ config' \in Configs \ {config}
  /\ UNCHANGED <<ctlVars, queue, held, outstanding, flushing, started, active, lock, pc, startVars>>

(* gst_buffer_pool_set_active (TRUE), do_start: preallocate unless started.*)
Activate(t) ==
  /\ Call(t, "start")
  /\ lock = NONE /\ ~active /\ config # NONE
  /\ lock' = t
  /\ left' = [left EXCEPT ![t] = IF started THEN 0 ELSE config.min]
  /\ UNCHANGED <<ctlVars, queue, held, outstanding, flushing, started, active, config, preallocated>>

(* default_start: alloc_buffer, then release_buffer: a push and a write.   *)
StartAlloc(t) ==
  /\ At(t, "start")
  /\ left[t] > 0
  /\ Len(queue) + Len(held) < MaxBuffers
  /\ queue' = Append(queue, config)
  /\ left' = [left EXCEPT ![t] = @ - 1]
  /\ GoTo(t, "start_write")
  /\ UNCHANGED <<ctlVars, held, outstanding, flushing, started, active, config, lock, preallocated>>

(* An allocation fails: what was queued stays queued, started stays FALSE. *)
StartFails(t) ==
  /\ At(t, "start")
  /\ left[t] > 0 /\ AllocMayFail
  /\ left' = [left EXCEPT ![t] = 0]
  /\ lock' = NONE
  /\ GoTo(t, "none")
  /\ UNCHANGED <<ctlVars, queue, held, outstanding, flushing, started, active, config, preallocated>>

StartDone(t) ==
  /\ At(t, "start")
  /\ left[t] = 0
  /\ started' = TRUE
  /\ preallocated' = IF started THEN preallocated ELSE config.min
  /\ GoTo(t, "act_read")
  /\ UNCHANGED <<ctlVars, queue, held, outstanding, flushing, active, config, lock, left>>

ActivateDone(t) ==
  /\ At(t, "act_clear")
  /\ flushing' = FALSE
  /\ active' = TRUE
  /\ lock' = NONE
  /\ GoTo(t, "none")
  /\ UNCHANGED <<ctlVars, queue, held, outstanding, started, config, startVars>>

-----------------------------------------------------------------------------
(* gst_buffer_pool_set_active (FALSE) *)
Deactivate(t) ==
  /\ Call(t, "deact_write")
  /\ lock = NONE /\ active
  /\ lock' = t
  /\ flushing' = TRUE
  /\ UNCHANGED <<ctlVars, queue, held, outstanding, started, active, config, startVars>>

(* With buffers out the last dec_outstanding is to stop the pool.          *)
DeactivateCheck(t) ==
  /\ At(t, "deact_check")
  /\ IF outstanding = 0
     THEN GoTo(t, "deact_stop") /\ UNCHANGED <<active, lock>>
     ELSE GoTo(t, "none") /\ active' = FALSE /\ lock' = NONE
  /\ UNCHANGED <<ctlVars, queue, held, outstanding, flushing, started, config, startVars>>

(* do_stop and default_stop, for set_active and for dec_outstanding: when  *)
(* started, buffers are taken from the queue and freed one by one.         *)
StopPop(t) ==
  /\ At(t, "deact_stop") \/ At(t, "stop")
  /\ started /\ queue # <<>>
  /\ queue' = Tail(queue)
  /\ GoTo(t, IF pc[t] = "stop" THEN "stop_read" ELSE "deact_stop_read")
  /\ UNCHANGED <<ctlVars, held, outstanding, flushing, started, active, config, lock, startVars>>

StopDone(t) ==
  /\ At(t, "deact_stop") \/ At(t, "stop")
  /\ ~started \/ queue = <<>>
  /\ started' = FALSE
  /\ active' = IF pc[t] = "deact_stop" THEN FALSE ELSE active
  /\ lock' = NONE
  /\ GoTo(t, "none")
  /\ UNCHANGED <<ctlVars, queue, held, outstanding, flushing, config, startVars>>

-----------------------------------------------------------------------------
(* gst_buffer_pool_acquire_buffer: counted as outstanding from the start.  *)
Acquire(t) ==
  /\ Call(t, "acq_flushing")
  /\ outstanding' = outstanding + 1
  /\ UNCHANGED <<ctlVars, queue, held, flushing, started, active, config, lock, startVars>>

AcquireFlushing(t) ==
  /\ At(t, "acq_flushing")
  /\ GoTo(t, IF flushing THEN "dec" ELSE "acq_pop")
  /\ UNCHANGED <<ctlVars, poolVars>>

AcquirePop(t) ==
  /\ At(t, "acq_pop")
  /\ queue # <<>>
  /\ queue' = Tail(queue)
  /\ held' = Append(held, Head(queue))
  /\ GoTo(t, "acq_read")
  /\ UNCHANGED <<ctlVars, outstanding, flushing, started, active, config, lock, startVars>>

(* Nothing queued: without a maximum allocate one more, ...                *)
AcquireAlloc(t) ==
  /\ At(t, "acq_pop")
  /\ queue = <<>> /\ config.max = 0
  /\ Len(held) < MaxBuffers
  /\ held' = Append(held, config)
  /\ GoTo(t, "none")
  /\ UNCHANGED <<ctlVars, queue, outstanding, flushing, started, active, config, lock, startVars>>

AcquireAllocFails(t) ==
  /\ At(t, "acq_pop")
  /\ queue = <<>> /\ config.max = 0
  /\ AllocMayFail \/ Len(held) = MaxBuffers
  /\ GoTo(t, "dec")
  /\ UNCHANGED <<ctlVars, poolVars>>

(* ... else give up (ACQUIRE_FLAG_DONTWAIT) or wait on the control socket. *)
AcquireEmpty(t) ==
  /\ At(t, "acq_pop")
  /\ queue = <<>> /\ config.max > 0
  /\ \E next \in {"dec", "wait"} : GoTo(t, next)
  /\ UNCHANGED <<ctlVars, poolVars>>

AcquireWoken(t) ==
  /\ At(t, "wait")
  /\ Readable
  /\ GoTo(t, "acq_flushing")
  /\ UNCHANGED <<ctlVars, poolVars>>

(* gst_buffer_pool_release_buffer, by any thread: push, write, and count.  *)
ReleaseBuffer(t) ==
  /\ Call(t, "rel_write")
  /\ \E i \in DOMAIN held :
       /\ queue' = Append(queue, held[i])
       /\ held' = RemoveAt(held, i)
  /\ UNCHANGED <<ctlVars, outstanding, flushing, started, active, config, lock, startVars>>

(* dec_outstanding: the last one looks at flushing, takes the lock and     *)
(* looks again.                                                            *)
DecOutstanding(t) ==
  /\ At(t, "dec")
  /\ outstanding' = outstanding - 1
  /\ GoTo(t, IF outstanding = 1 THEN "dec_flushing" ELSE "none")
  /\ UNCHANGED <<ctlVars, queue, held, flushing, started, active, config, lock, startVars>>

DecFlushing(t) ==
  /\ At(t, "dec_flushing")
  /\ GoTo(t, IF flushing THEN "dec_lock" ELSE "none")
  /\ UNCHANGED <<ctlVars, poolVars>>

DecLock(t) ==
  /\ At(t, "dec_lock")
  /\ lock = NONE
  /\ lock' = t
  /\ GoTo(t, "dec_recheck")
  /\ UNCHANGED <<ctlVars, queue, held, outstanding, flushing, started, active, config, startVars>>

DecRecheck(t) ==
  /\ At(t, "dec_recheck")
  /\ GoTo(t, IF flushing THEN "stop" ELSE "none")
  /\ lock' = IF flushing THEN lock ELSE NONE
  /\ UNCHANGED <<ctlVars, queue, held, outstanding, flushing, started, active, config, startVars>>

-----------------------------------------------------------------------------
(* The calls of gst_poll_write_control and gst_poll_read_control, each     *)
(* with the step that follows it.                                          *)
Writes == [init_write |-> "none", start_write |-> "start",
           deact_write |-> "deact_check", rel_write |-> "dec"]
Reads == [act_read |-> "act_clear", acq_read |-> "none",
          stop_read |-> "stop", deact_stop_read |-> "deact_stop"]

WriteControl(t) ==
  /\ pc[t] \in DOMAIN Writes
  /\ Raise(t)
  /\ GoTo(t, Writes[pc[t]])
  /\ UNCHANGED poolVars

ReadControl(t) ==
  /\ pc[t] \in DOMAIN Reads
  /\ Release(t)
  /\ GoTo(t, Reads[pc[t]])
  /\ UNCHANGED poolVars

SocketCall(t) ==
  /\ FinishControl(t)
  /\ UNCHANGED <<poolVars, pc>>

-----------------------------------------------------------------------------
Continue(t) ==
  \/ Construct(t) \/ StartAlloc(t) \/ StartFails(t) \/ StartDone(t) \/ ActivateDone(t)
  \/ DeactivateCheck(t) \/ StopPop(t) \/ StopDone(t)
  \/ AcquireFlushing(t) \/ AcquirePop(t) \/ AcquireAlloc(t) \/ AcquireAllocFails(t)
  \/ AcquireEmpty(t) \/ AcquireWoken(t)
  \/ DecOutstanding(t) \/ DecFlushing(t) \/ DecLock(t) \/ DecRecheck(t)
  \/ WriteControl(t) \/ ReadControl(t) \/ SocketCall(t)

Next == \E t \in Threads :
  SetConfig(t) \/ Activate(t) \/ Deactivate(t) \/ Acquire(t) \/ ReleaseBuffer(t) \/ Continue(t)

Spec == Init /\ [][Next]_vars

(* A thread that can go on does; the lock is taken by whoever waits for it.*)
FairSpec == Spec /\ \A t \in Threads : WF_vars(Continue(t)) /\ SF_vars(DecLock(t))

-----------------------------------------------------------------------------
Steps == {"none", "init", "start", "act_clear", "deact_check", "deact_stop", "stop",
          "acq_flushing", "acq_pop", "wait", "dec", "dec_flushing", "dec_lock",
          "dec_recheck"} \cup DOMAIN Writes \cup DOMAIN Reads

TypeOK ==
  /\ ControlTypeOK
  /\ queue \in Seq(Configs) /\ held \in Seq(Configs)
  /\ outstanding \in 0..MaxBuffers + Cardinality(Threads)
  /\ {flushing, started, active} \subseteq BOOLEAN
  /\ config \in Configs \cup {NONE}
  /\ lock \in Threads \cup {NONE}
  /\ pc \in [Threads -> Steps]
  /\ left \in [Threads -> Nat] /\ preallocated \in Nat

Quiet == \A t \in Threads : pc[t] \in {"none", "wait"} /\ ctl[t] = "idle"

(* gst_buffer_pool_acquire_buffer, lines 993-995: buffers out and calls    *)
(* that may still get one are counted, "so that concurrent set_active      *)
(* doesn't clear the buffers".                                             *)
OutstandingCounts ==
  outstanding = Len(held) + Cardinality({t \in Threads : pc[t] \in
                  {"acq_flushing", "acq_pop", "wait", "rel_write", "dec"}})

(* gst_buffer_pool_set_active: the buffers allocated at the start are all  *)
(* there for as long as the pool is active, in the queue or with users,    *)
(* whatever stop was under way.                                            *)
ActiveKeepsBuffers == active /\ lock = NONE => Len(queue) + Len(held) >= preallocated

(* gst_buffer_pool_acquire_buffer: once the pool stays inactive no thread  *)
(* is left waiting for a buffer or looking for one over and over.          *)
FlushEndsWaits ==
  \A t \in Threads :
    <>[]flushing => []<>(pc[t] \notin {"acq_flushing", "acq_pop", "wait"})

-----------------------------------------------------------------------------
(* The pool is a client of the timer poll as GstPollTimer describes them:  *)
(* its entries are the buffers in the queue and the flushing token.        *)
Token == IF flushing /\ ~\E t \in Threads : pc[t] \in {"act_read", "act_clear"} THEN 1 ELSE 0

Poll == INSTANCE GstPollTimer WITH
  MaxQueued <- MaxBuffers + 1,
  queued <- Len(queue) + Token,
  todo <- [t \in Threads |->
             IF pc[t] \in DOMAIN Writes THEN "write_control"
             ELSE IF pc[t] \in DOMAIN Reads THEN "read_control"
             ELSE IF pc[t] = "wait" THEN "wait" ELSE "none"]

ImplementsPollClient == Poll!Spec

-----------------------------------------------------------------------------
(* What the documentation says and the code does not keep.                 *)

(* gst_buffer_pool_set_active, lines 333-335: "Deactivating will free the  *)
(* resources again when there are no outstanding buffers. When there are   *)
(* outstanding buffers, they will be freed as soon as they are all         *)
(* returned to the pool."                                                  *)
InactiveHoldsNothing == Quiet /\ ~active /\ outstanding = 0 => queue = <<>>

(* gst_buffer_pool_set_active, lines 330-331: "Activating the bufferpool   *)
(* will preallocate all resources in the pool based on the configuration": *)
(* no buffer of an earlier configuration is given out.                     *)
BuffersMatchConfig == active => \A i \in DOMAIN queue : queue[i] = config

(* gst_buffer_pool_config_get_params, lines 816-817, "the maximum amount   *)
(* of buffers to allocate": a thread waits only when that many are out.    *)
WaitsOnlyAtMax ==
  \A t \in Threads : Quiet /\ pc[t] = "wait" /\ active /\ queue = <<>> => Len(held) >= config.max
=============================================================================
