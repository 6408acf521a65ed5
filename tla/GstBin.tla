------------------------------- MODULE GstBin -------------------------------
(***************************************************************************)
(* State changes of a top-level bin (gstbin.c, gstelement.c) over children *)
(* that are sinks built on GstBaseSink, which change to PAUSED             *)
(* asynchronously when data reaches them, or live sources, which change    *)
(* with NO_PREROLL.                                                        *)
(*                                                                         *)
(* The bin's STATE_LOCK is held for a whole change, so one driver at a     *)
(* time goes through the children: the application in set_state, or a      *)
(* thread of the pool in gst_bin_continue_func.  The streaming threads     *)
(* preroll meanwhile and post ASYNC_DONE, and a flushing seek posts        *)
(* ASYNC_START; both run the bin's message handler in the posting thread   *)
(* under the bin's object lock.  Every action is what happens under one    *)
(* object lock or PREROLL_LOCK.                                            *)
(***************************************************************************)
EXTENDS GstElement, FiniteSets, Bags

CONSTANTS
  Children,             \* the elements in the bin
  Bin,                  \* the bin
  NONE,
  Goals,                \* the states the application asks for
  MaxSets,              \* bound on calls of gst_element_set_state
  MaxUpsets,            \* bound on seeks and errors together
  MayFail,              \* whether a child may fail to start
  LockedSeeks           \* whether seeks come through gst_element_send_event

ASSUME BinAssumption ==
  /\ Bin \notin Children /\ NONE \notin Children \cup {Bin}
  /\ Goals \subseteq States
  /\ MaxSets \in Nat /\ MaxUpsets \in Nat /\ MayFail \in BOOLEAN
  /\ LockedSeeks \in BOOLEAN

VARIABLES
  live,                 \* the children that are live sources
  el,                   \* el[e]: the state fields of bin and children
  cookie,               \* state_cookie of the bin
  polling,              \* a driver is among the children
  pendingDone,          \* pending_async_done
  starts,               \* children whose ASYNC_START is in the bin's message list
  conts,                \* the continuations pushed on the thread pool
  d,                    \* the driver: where it is and what it holds in locals
  sink,                 \* the GstBaseSink fields of each child
  thread,               \* thread[c]: where its streaming thread is
  flush,                \* flush[c]: where a seeking thread is
  getter,               \* a thread in gst_element_get_state
  sets, flushes, errors, \* calls and errors so far
  lowered               \* history: a set_state came before the last change was
                        \* done, and asked for less

appVars   == <<sets, flushes, errors, lowered>>
binVars   == <<cookie, polling, pendingDone, starts, conts>>
sinkVars  == <<sink, thread, flush>>
vars == <<live, el, binVars, d, sinkVars, getter, appVars>>

Sinks == Children \ live
Continuations == [cookie : 0 .. MaxSets, pending : States]

Driver(pc) == [pc |-> pc, from |-> NULL, to |-> NULL, todo |-> {}, child |-> NONE,
               snap |-> NewElement, cfrom |-> NULL, cto |-> NULL, res |-> "SUCCESS",
               async |-> FALSE, noPreroll |-> FALSE, failed |-> FALSE]

NewSink == [need |-> FALSE, have |-> FALSE, async |-> FALSE, committed |-> FALSE,
            flushing |-> FALSE, active |-> FALSE]

Init ==
  /\ live \in SUBSET Children /\ Cardinality(live) <= 1
  /\ el = [e \in Children \cup {Bin} |-> NewElement]
  /\ cookie = 0 /\ polling = FALSE /\ pendingDone = FALSE
  /\ starts = {} /\ conts = EmptyBag
  /\ d = Driver("idle")
  /\ sink = [c \in Children |-> NewSink]
  /\ thread = [c \in Children |-> "idle"]
  /\ flush = [c \in Children |-> "none"]
  /\ getter = "none"
  /\ sets = 0 /\ flushes = 0 /\ errors = 0 /\ lowered = FALSE

(* The bin's STATE_LOCK: for set_state, for a continuation, and for a seek  *)
(* that the application sends to the bin itself.                           *)
StateLockFree == d.pc = "idle" /\ (LockedSeeks => \A c \in Children : flush[c] = "none")

Broadcast == IF getter = "wait" THEN "woken" ELSE getter

-----------------------------------------------------------------------------
(* bin_handle_async_done: commit the state that was being reached (PLAYING *)
(* only after the children were told to play), and go on to the target if  *)
(* that is not it.                                                         *)
DoneState(b) == IF b.next # PLAYING THEN b.next ELSE b.current

BinDone(b) ==
  IF DoneState(b) = b.target
  THEN [b EXCEPT !.current = b.target, !.next = VOID_PENDING, !.pending = VOID_PENDING,
                 !.return = "SUCCESS"]
  ELSE [b EXCEPT !.current = DoneState(b), !.next = GetNext(b.current, b.target),
                 !.pending = b.target, !.return = "ASYNC"]

DoneIgnored(b, busy) == b.return = "FAILURE" \/ busy \/ Settled(b)

HandleAsyncDone(busy) ==
  LET b == el[Bin]
      ignored == DoneIgnored(b, busy)
  IN  /\ el' = IF ignored THEN el ELSE [el EXCEPT ![Bin] = BinDone(b)]
      /\ IF ~ignored /\ DoneState(b) # b.target
         THEN conts' = conts (+) SetToBag({[cookie |-> cookie, pending |-> b.target]})
         ELSE UNCHANGED conts
      /\ getter' = IF ~ignored /\ DoneState(b) = b.target THEN Broadcast ELSE getter

(* bin_handle_async_start: a settled bin loses its state. *)
StartIgnored(b) == b.return = "FAILURE" \/ polling \/ ~Settled(b) \/ b.return = "NO_PREROLL"

HandleAsyncStart ==
  el' = [el EXCEPT ![Bin] = IF StartIgnored(@) THEN @ ELSE Lost(@)]

(* gst_bin_handle_message_func: both messages are ignored on the way to    *)
(* READY and below.                                                        *)
PostAsyncStart(c) ==
  /\ IF el[Bin].target <= READY
     THEN UNCHANGED <<el, starts>>
     ELSE starts' = starts \cup {c} /\ HandleAsyncStart
  /\ UNCHANGED <<cookie, polling, pendingDone, conts, getter>>

(* Mutant: the first ASYNC_DONE is taken for all. *)
PostAsyncDoneFirst(c) ==
  /\ IF el[Bin].target <= READY
     THEN UNCHANGED <<el, starts, pendingDone, conts, getter>>
     ELSE /\ starts' = starts \ {c}
          /\ HandleAsyncDone(polling)
          /\ pendingDone' = (pendingDone \/ (polling /\ el[Bin].return # "FAILURE"))
  /\ UNCHANGED <<cookie, polling>>

PostAsyncDone(c) ==
  /\ IF el[Bin].target <= READY
     THEN UNCHANGED <<el, starts, pendingDone, conts, getter>>
     ELSE /\ starts' = starts \ {c}
          /\ IF starts' = {}
             THEN /\ HandleAsyncDone(polling)
                  /\ pendingDone' = (pendingDone \/ (polling /\ el[Bin].return # "FAILURE"))
             ELSE UNCHANGED <<el, pendingDone, conts, getter>>
  /\ UNCHANGED <<cookie, polling>>

-----------------------------------------------------------------------------
(* The application asks the bin for a state; the cookie counts the asks    *)
(* for another state than the last.                                        *)
SetState(state) ==
  /\ StateLockFree /\ sets < MaxSets
  /\ sets' = sets + 1
  /\ lowered' = (lowered \/ (~Settled(el[Bin]) /\ state < el[Bin].target))
  /\ cookie' = IF state # el[Bin].target THEN cookie + 1 ELSE cookie
  /\ IF IsBusy(el[Bin], state)
     THEN /\ el' = [el EXCEPT ![Bin] = Aimed(@, state)]
          /\ UNCHANGED <<d, getter>>
     ELSE /\ el' = [el EXCEPT ![Bin] = Started(@, state)]
          /\ d' = [Driver("start") EXCEPT !.from = StartOf(el[Bin], state),
                                          !.to = GetNext(StartOf(el[Bin], state), state)]
          /\ getter' = Broadcast
  /\ UNCHANGED <<live, polling, pendingDone, starts, conts, sinkVars, flushes, errors>>

(* Mutant: a continuation goes on whatever was asked for since. *)
NeverOvertaken(k) == FALSE

(* gst_bin_continue_func, dropped when another state was asked for since.  *)
Overtaken(k) == k.cookie # cookie

Continue(k) ==
  /\ StateLockFree
  /\ BagIn(k, conts)
  /\ conts' = conts (-) SetToBag({k})
  /\ LET b  == el[Bin]
         to == GetNext(b.current, k.pending)
     IN  IF Overtaken(k)
         THEN UNCHANGED <<el, d>>
         ELSE /\ el' = [el EXCEPT ![Bin] = [b EXCEPT !.next = to, !.pending = k.pending,
                                                     !.return = "ASYNC"]]
              /\ d' = [Driver("start") EXCEPT !.from = b.current, !.to = to]
  /\ UNCHANGED <<live, cookie, polling, pendingDone, starts, sinkVars, getter, appVars>>

(* gst_bin_change_state_func up to the first child. *)
BinStart ==
  /\ d.pc = "start"
  /\ starts' = IF d.to = READY THEN {} ELSE starts
  /\ polling' = TRUE
  /\ d' = [d EXCEPT !.pc = "child", !.todo = Children]
  /\ UNCHANGED <<live, el, cookie, pendingDone, conts, sinkVars, getter, appVars>>

(* gst_bin_element_set_state reads the child's state, then decides under   *)
(* the bin's lock, then changes the child.  Sinks come before sources.     *)
PickChild(c) ==
  /\ d.pc = "child" /\ ~d.failed
  /\ c \in d.todo
  /\ c \in live => d.todo \subseteq live
  /\ d' = [d EXCEPT !.pc = IF el[c].return = "NO_PREROLL" THEN "set" ELSE "check",
                    !.child = c, !.snap = el[c]]
  /\ UNCHANGED <<live, el, binVars, sinkVars, getter, appVars>>

(* What the driver does with a child's result before it takes the next.    *)
Collected(result) ==
  [d EXCEPT !.pc = "child", !.todo = @ \ {d.child}, !.child = NONE, !.snap = NewElement,
            !.cfrom = NULL, !.cto = NULL, !.res = "SUCCESS",
            !.async = @ \/ result = "ASYNC",
            !.noPreroll = @ \/ result = "NO_PREROLL",
            !.failed = result = "FAILURE"]

(* Mutant: a child that is busy is left to finish. *)
NeededSettled(s, pending) ==
  \/ d.to = PLAYING
  \/ pending > s.current /\ d.to > s.current
  \/ pending < s.current /\ d.to < s.current

Needed(s, pending) ==
  \/ d.to = PLAYING \/ ~Settled(s)
  \/ pending > s.current /\ d.to > s.current
  \/ pending < s.current /\ d.to < s.current

CheckChild ==
  /\ d.pc = "check"
  /\ d' = IF ~Needed(d.snap, el[Bin].pending) THEN Collected(d.snap.return)
          ELSE IF d.child \in starts /\ d.to > d.from THEN Collected("ASYNC")
          ELSE [d EXCEPT !.pc = "set"]
  /\ UNCHANGED <<live, el, binVars, sinkVars, getter, appVars>>

SetChild ==
  /\ d.pc = "set"
  /\ LET c == d.child
         from == StartOf(el[c], d.to)
     IN  IF IsBusy(el[c], d.to)
         THEN /\ el' = [el EXCEPT ![c] = Aimed(@, d.to)]
              /\ d' = Collected("ASYNC")
         ELSE /\ el' = [el EXCEPT ![c] = Started(@, d.to)]
              /\ d' = [d EXCEPT !.pc = "change", !.snap = NewElement,
                                !.cfrom = from, !.cto = GetNext(from, d.to)]
  /\ UNCHANGED <<live, binVars, sinkVars, getter, appVars>>

-----------------------------------------------------------------------------
(* The change_state functions of the children.                             *)
ChildReturns(ret) == d' = [d EXCEPT !.pc = "returned", !.res = ret]
Transition(from, to) == d.pc = "change" /\ d.cfrom = from /\ d.cto = to

(* gst_element_change_state_func of a child that is there already, and the *)
(* transitions with no effect on the state machine.                        *)
ChildSame ==
  /\ d.pc = "change" /\ d.cfrom = d.cto
  /\ ChildReturns(el[d.child].return)
  /\ UNCHANGED <<live, el, binVars, sinkVars, getter, appVars>>

ChildStarts ==
  /\ Transition(NULL, READY)
  /\ \/ ChildReturns("SUCCESS")
     \/ MayFail /\ ChildReturns("FAILURE")
  /\ UNCHANGED <<live, el, binVars, sinkVars, getter, appVars>>

ChildStops ==
  /\ Transition(READY, NULL)
  /\ ChildReturns("SUCCESS")
  /\ UNCHANGED <<live, el, binVars, sinkVars, getter, appVars>>

(* gst_base_src_change_state: a live source produces in PLAYING only.      *)
LiveChange ==
  /\ d.pc = "change" /\ d.child \in live
  /\ PAUSED \in {d.cfrom, d.cto} /\ d.cfrom # d.cto
  /\ ChildReturns(IF d.cto = PAUSED THEN "NO_PREROLL" ELSE "SUCCESS")
  /\ UNCHANGED <<live, el, binVars, sinkVars, getter, appVars>>

NeedsPreroll(c) == ~sink[c].have

Woken(c) == IF thread[c] = "wait" THEN [thread EXCEPT ![c] = "woken"] ELSE thread
MutexFree(c) == thread[c] # "post"      \* PREROLL_LOCK

(* A sink that is to preroll says so before it returns ASYNC. *)
SinkGoesAsync(c, s) ==
  /\ sink' = [sink EXCEPT ![c] = [s EXCEPT !.need = TRUE, !.async = TRUE, !.committed = FALSE]]
  /\ PostAsyncStart(c)
  /\ ChildReturns("ASYNC")
  /\ UNCHANGED <<thread>>

SinkPauses ==
  /\ Transition(READY, PAUSED) /\ d.child \in Sinks
  /\ MutexFree(d.child)
  /\ SinkGoesAsync(d.child, [sink[d.child] EXCEPT !.have = FALSE, !.flushing = FALSE,
                                                  !.active = TRUE])
  /\ UNCHANGED <<live, flush, appVars>>

SinkPlays ==
  /\ Transition(PAUSED, PLAYING) /\ d.child \in Sinks
  /\ MutexFree(d.child)
  /\ LET c == d.child
     IN  IF NeedsPreroll(c)
         THEN SinkGoesAsync(c, sink[c])
         ELSE /\ sink' = [sink EXCEPT ![c].async = FALSE, ![c].need = FALSE]
              /\ thread' = Woken(c)
              /\ ChildReturns("SUCCESS")
              /\ UNCHANGED <<el, binVars, getter>>
  /\ UNCHANGED <<live, flush, appVars>>

SinkUnplays ==
  /\ Transition(PLAYING, PAUSED) /\ d.child \in Sinks
  /\ MutexFree(d.child)
  /\ LET c == d.child
     IN  IF NeedsPreroll(c) /\ el[c].target > READY
         THEN SinkGoesAsync(c, sink[c])
         ELSE /\ sink' = [sink EXCEPT ![c].async = IF NeedsPreroll(c) THEN @ ELSE FALSE,
                                      ![c].need = TRUE]
              /\ ChildReturns("SUCCESS")
              /\ UNCHANGED <<el, binVars, thread, getter>>
  /\ UNCHANGED <<live, flush, appVars>>

(* PAUSED to READY: the pad is deactivated, which sends the streaming      *)
(* thread away, and only then a sink that had not prerolled says that it   *)
(* is done.                                                                *)
SinkDeactivates ==
  /\ Transition(PAUSED, READY) /\ d.child \in Sinks
  /\ MutexFree(d.child)
  /\ sink' = [sink EXCEPT ![d.child].active = FALSE, ![d.child].flushing = TRUE,
                          ![d.child].need = TRUE, ![d.child].have = FALSE]
  /\ thread' = Woken(d.child)
  /\ d' = [d EXCEPT !.pc = "drain"]
  /\ UNCHANGED <<live, el, binVars, flush, getter, appVars>>

StreamLockFree(c) == thread[c] = "idle" /\ flush[c] # "post"

SinkUnpauses ==
  /\ d.pc = "drain" /\ StreamLockFree(d.child)
  /\ sink' = [sink EXCEPT ![d.child].committed = TRUE]
  /\ IF ~sink[d.child].committed
     THEN PostAsyncDone(d.child)
     ELSE UNCHANGED <<el, binVars, getter>>
  /\ ChildReturns("SUCCESS")
  /\ UNCHANGED <<live, thread, flush, appVars>>

(* gst_element_change_state of the child, with what its change_state       *)
(* returned.                                                               *)
ChildReturned ==
  /\ d.pc = "returned"
  /\ LET c == d.child
         e == el[c]
         ret == IF d.res = "ASYNC" THEN "SUCCESS" ELSE d.res
     IN  \/ /\ d.res = "FAILURE"
            /\ el' = [el EXCEPT ![c] = Aborted(e)]
            /\ d' = Collected("FAILURE")
         \/ /\ d.res = "ASYNC" /\ e.target > READY
            /\ d' = Collected("ASYNC")
            /\ UNCHANGED el
         \/ /\ d.res # "FAILURE" /\ ~(d.res = "ASYNC" /\ e.target > READY)
            /\ el' = [el EXCEPT ![c] = Committed(e, ret)]
            /\ d' = IF Continues(e)
                    THEN [d EXCEPT !.pc = "change", !.res = "SUCCESS", !.cfrom = e.next,
                                   !.cto = GetNext(e.next, e.pending)]
                    ELSE Collected(ret)
  /\ UNCHANGED <<live, binVars, sinkVars, getter, appVars>>

-----------------------------------------------------------------------------
(* The end of gst_bin_change_state_func: with every child done already the *)
(* bin commits at once.                                                    *)
BinResult ==
  LET parent == IF d.from = d.to THEN el[Bin].return ELSE "SUCCESS"
  IN  CASE d.failed \/ parent = "FAILURE" -> "FAILURE"
        [] ~d.failed /\ parent # "FAILURE" /\ d.noPreroll -> "NO_PREROLL"
        [] ~d.failed /\ parent # "FAILURE" /\ ~d.noPreroll /\ d.async -> "ASYNC"
        [] OTHER -> parent

(* Mutant: children that were done before the end are waited for. *)
BinFinishLate ==
  /\ d.pc = "child" /\ (d.todo = {} \/ d.failed)
  /\ polling' = FALSE
  /\ pendingDone' = FALSE
  /\ d' = [Driver("bin_returned") EXCEPT !.res = BinResult]
  /\ UNCHANGED <<live, el, cookie, starts, conts, getter, sinkVars, appVars>>

(* Mutant: the end does not look for children that are still to preroll. *)
BinFinishEarly ==
  /\ d.pc = "child" /\ (d.todo = {} \/ d.failed)
  /\ polling' = FALSE
  /\ IF (BinResult = "ASYNC" \/ pendingDone) /\ el[Bin].target > READY
     THEN HandleAsyncDone(FALSE)
     ELSE UNCHANGED <<el, conts, getter>>
  /\ pendingDone' = FALSE
  /\ d' = [Driver("bin_returned") EXCEPT !.res = BinResult]
  /\ UNCHANGED <<live, cookie, starts, sinkVars, appVars>>

BinFinish ==
  /\ d.pc = "child" /\ (d.todo = {} \/ d.failed)
  /\ polling' = FALSE
  /\ IF /\ BinResult = "ASYNC" \/ pendingDone
        /\ el[Bin].target > READY
        /\ starts = {}
     THEN HandleAsyncDone(FALSE)
     ELSE UNCHANGED <<el, conts, getter>>
  /\ pendingDone' = FALSE
  /\ d' = [Driver("bin_returned") EXCEPT !.res = BinResult]
  /\ UNCHANGED <<live, cookie, starts, sinkVars, appVars>>

(* gst_element_change_state of the bin. *)
BinReturned ==
  /\ d.pc = "bin_returned"
  /\ LET b == el[Bin]
         ret == IF d.res = "ASYNC" THEN "SUCCESS" ELSE d.res
     IN  \/ /\ d.res = "FAILURE"
            /\ el' = [el EXCEPT ![Bin] = Aborted(b)]
            /\ d' = Driver("idle")
            /\ getter' = IF Settled(b) \/ b.return = "FAILURE" THEN getter ELSE Broadcast
         \/ /\ d.res = "ASYNC" /\ b.target > READY
            /\ d' = Driver("idle")
            /\ UNCHANGED <<el, getter>>
         \/ /\ d.res # "FAILURE" /\ ~(d.res = "ASYNC" /\ b.target > READY)
            /\ el' = [el EXCEPT ![Bin] = Committed(b, ret)]
            /\ d' = IF Continues(b)
                    THEN [Driver("start") EXCEPT !.from = b.next,
                                                 !.to = GetNext(b.next, b.pending)]
                    ELSE Driver("idle")
            /\ getter' = IF Commits(b) /\ ~Continues(b) THEN Broadcast ELSE getter
  /\ UNCHANGED <<live, binVars, sinkVars, appVars>>
-----------------------------------------------------------------------------
(* The streaming thread of a sink, under the PREROLL_LOCK.                 *)

(* gst_base_sink_commit_state *)
CanCommit(e) == e.pending \in {PAUSED, PLAYING}

CommitPending(e) ==
  [e EXCEPT !.current = e.pending, !.next = VOID_PENDING, !.pending = VOID_PENDING,
            !.return = "SUCCESS"]

Waits(c, s) ==
  /\ sink' = [sink EXCEPT ![c] = [s EXCEPT !.have = TRUE]]
  /\ thread' = [thread EXCEPT ![c] = "wait"]

Goes(c, s) ==
  /\ sink' = [sink EXCEPT ![c] = [s EXCEPT !.have = FALSE]]
  /\ thread' = [thread EXCEPT ![c] = "idle"]

(* gst_base_sink_do_preroll: commit when that was left to the preroll, and *)
(* wait until the preroll is no longer needed.                             *)
Preroll(c) ==
  LET s == [sink[c] EXCEPT !.have = FALSE]
      e == el[c]
  IN  \/ ~s.need /\ Goes(c, s) /\ UNCHANGED el
      \/ s.need /\ ~s.async /\ Waits(c, s) /\ UNCHANGED el
      \/ /\ s.need /\ s.async /\ CanCommit(e)
         /\ el' = [el EXCEPT ![c] = CommitPending(e)]
         /\ sink' = [sink EXCEPT ![c] = [s EXCEPT !.async = FALSE, !.committed = TRUE,
                                                  !.need = e.pending # PLAYING]]
         /\ thread' = [thread EXCEPT ![c] = "post"]
      \/ /\ s.need /\ s.async /\ Settled(e) /\ e.current = PAUSED
         /\ Waits(c, [s EXCEPT !.async = FALSE])
         /\ UNCHANGED el
      \/ /\ s.need /\ s.async /\ ~CanCommit(e) /\ ~(Settled(e) /\ e.current = PAUSED)
         /\ Goes(c, [s EXCEPT !.async = FALSE, !.need = FALSE,
                              !.flushing = @ \/ ~Settled(e) \/ e.current # PLAYING])
         /\ UNCHANGED el

(* A buffer arrives at a sink that needs to preroll; one that plays        *)
(* renders it, which changes nothing here.                                 *)
Arrive(c) ==
  /\ thread[c] = "idle" /\ flush[c] # "post"
  /\ sink[c].active /\ ~sink[c].flushing /\ sink[c].need
  /\ Preroll(c)
  /\ UNCHANGED <<live, binVars, d, flush, getter, appVars>>

PostDone(c) ==
  /\ thread[c] = "post"
  /\ PostAsyncDone(c)
  /\ IF sink[c].need THEN Waits(c, sink[c]) ELSE Goes(c, sink[c])
  /\ UNCHANGED <<live, d, flush, appVars>>

(* gst_base_sink_wait_preroll returns. *)
Resume(c) ==
  /\ thread[c] = "woken"
  /\ IF sink[c].flushing
     THEN Goes(c, sink[c]) /\ UNCHANGED el
     ELSE Preroll(c)
  /\ UNCHANGED <<live, binVars, d, flush, getter, appVars>>

(* A streaming thread finds an error and posts it. *)
PostError(c) ==
  /\ flushes + errors < MaxUpsets /\ thread[c] = "idle" /\ sink[c].active
  /\ errors' = errors + 1
  /\ el[Bin].return # "FAILURE"
  /\ el' = [el EXCEPT ![Bin].return = "FAILURE"]
  /\ getter' = Broadcast
  /\ UNCHANGED <<live, binVars, d, sinkVars, sets, flushes, lowered>>

-----------------------------------------------------------------------------
(* A flushing seek: gst_base_sink_flush_start sends the streaming thread   *)
(* away, takes its STREAM_LOCK and calls gst_element_lost_state, which     *)
(* posts ASYNC_START after it let go of the object lock.                   *)
FlushStart(c) ==
  /\ flush[c] = "none" /\ flushes + errors < MaxUpsets
  /\ LockedSeeks => StateLockFree
  /\ sink[c].active /\ ~sink[c].flushing /\ MutexFree(c)
  /\ flushes' = flushes + 1
  /\ sink' = [sink EXCEPT ![c].need = TRUE, ![c].have = FALSE, ![c].flushing = TRUE]
  /\ thread' = Woken(c)
  /\ flush' = [flush EXCEPT ![c] = "start"]
  /\ UNCHANGED <<live, el, binVars, d, getter, sets, errors, lowered>>

FlushLoses(c) ==
  /\ flush[c] = "start" /\ thread[c] = "idle"
  /\ sink' = [sink EXCEPT ![c].async = TRUE]
  /\ el' = [el EXCEPT ![c] = IF @.return # "FAILURE" /\ Settled(@) THEN Lost(@) ELSE @]
  /\ flush' = [flush EXCEPT ![c] = IF el[c].return = "FAILURE" THEN "stop" ELSE "post"]
  /\ UNCHANGED <<live, binVars, d, thread, getter, appVars>>

FlushPosts(c) ==
  /\ flush[c] = "post"
  /\ PostAsyncStart(c)
  /\ flush' = [flush EXCEPT ![c] = "stop"]
  /\ UNCHANGED <<live, d, sink, thread, appVars>>

(* FLUSH_STOP is refused by a pad that is not active. *)
FlushStop(c) ==
  /\ flush[c] = "stop" /\ thread[c] = "idle"
  /\ sink' = [sink EXCEPT ![c].flushing = IF sink[c].active THEN FALSE ELSE @]
  /\ flush' = [flush EXCEPT ![c] = "none"]
  /\ UNCHANGED <<live, el, binVars, d, thread, getter, appVars>>

-----------------------------------------------------------------------------
(* gst_element_get_state_func on the bin, without timeout, when it has to  *)
(* wait: it does so once, whatever it finds when it is woken.              *)
GetState ==
  /\ getter = "none"
  /\ el[Bin].return = "ASYNC" /\ ~Settled(el[Bin])
  /\ getter' = "wait"
  /\ UNCHANGED <<live, el, binVars, d, sinkVars, appVars>>

GetReturns ==
  /\ getter = "woken"
  /\ getter' = "none"
  /\ UNCHANGED <<live, el, binVars, d, sinkVars, appVars>>

-----------------------------------------------------------------------------
Drive ==
  \/ \E k \in BagToSet(conts) : Continue(k)
  \/ BinStart \/ (\E c \in Children : PickChild(c)) \/ CheckChild \/ SetChild
  \/ ChildSame \/ ChildStarts \/ ChildStops \/ LiveChange
  \/ SinkPauses \/ SinkPlays \/ SinkUnplays \/ SinkDeactivates \/ SinkUnpauses
  \/ ChildReturned \/ BinFinish \/ BinReturned

Stream(c) == Arrive(c) \/ PostDone(c) \/ Resume(c)
Flush(c) == FlushLoses(c) \/ FlushPosts(c) \/ FlushStop(c)

Next ==
  \/ \E state \in Goals : SetState(state)
  \/ Drive
  \/ \E c \in Children : Stream(c) \/ PostError(c) \/ FlushStart(c) \/ Flush(c)
  \/ GetState \/ GetReturns

Spec == Init /\ [][Next]_vars

(* The threads run: the driver and the pool, data for every sink that can  *)
(* take it, and the rest of a seek that was begun.                         *)
FairSpec ==
  /\ Spec
  /\ WF_vars(Drive)
  /\ \A c \in Children : WF_vars(Stream(c)) /\ WF_vars(Flush(c))
  /\ WF_vars(GetReturns)
-----------------------------------------------------------------------------
(* Every variable holds what the code's fields can hold; a live source has *)
(* no preroll of its own.                                                  *)
TypeOK ==
  /\ el \in [Children \cup {Bin} -> Elements]
  /\ cookie \in 0 .. MaxSets
  /\ starts \subseteq Sinks
  /\ IsABag(conts) /\ BagToSet(conts) \subseteq Continuations
  /\ d.from \in States /\ d.to \in States /\ d.cfrom \in States /\ d.cto \in States
  /\ \A c \in live : thread[c] = "idle" /\ flush[c] = "none" /\ sink[c] = NewSink

(* Nothing is under way but the data flow itself. *)
AtRest ==
  /\ d.pc = "idle" /\ conts = EmptyBag
  /\ \A c \in Children : thread[c] # "post" /\ flush[c] = "none"

Complete == AtRest /\ Settled(el[Bin]) /\ el[Bin].return = "SUCCESS" /\ errors = 0

(* A bin that says its change succeeded has no child that lags behind:     *)
(* bin_handle_async_done commits only for the last ASYNC_DONE, however the *)
(* commits of the streaming threads, their messages, the driver's steps    *)
(* and seeks of the application interleave.                                *)
NoneBehind == Complete => \A c \in Children : el[c].current >= el[Bin].current

(* Without seeks no child is ahead of the bin either: a change downwards   *)
(* that overtakes one upwards reaches every child.                         *)
NoneAhead ==
  Complete /\ flushes = 0 => \A c \in Children : el[c].current <= el[Bin].current

(* The bin never rises above the state last asked for: a continuation that *)
(* waited for the STATE_LOCK while the application changed its mind does   *)
(* nothing.                                                                *)
NeverAbove ==
  [][el'[Bin].current > el[Bin].current => el'[Bin].current <= el'[Bin].target]_vars

(* Playback starts together: no sink plays before all have prerolled.  A   *)
(* bin with a live source does not wait for its sinks.                     *)
PlayTogether ==
  [][live = {} => \A c \in Sinks :
       el[c].current # PLAYING /\ el'[c].current = PLAYING
         => \A s \in Sinks : el[s].current >= PAUSED]_vars

Reached == Settled(el[Bin]) /\ el[Bin].current = el[Bin].target
Failed == el[Bin].return = "FAILURE"

(* The bin comes to the state asked for, through the continuations, unless *)
(* it fails, for applications that wait for a change to be done before     *)
(* they ask for less.                                                      *)
StateReached == ~Reached ~> (Reached \/ Failed \/ lowered)

(* gst_element_get_state without a timeout returns: every way a change can *)
(* end wakes who waits for it.                                             *)
GetEnds == getter = "wait" ~> (getter = "none" \/ lowered)

(* A change of state comes to an end that whoever waits for it sees.       *)
ChangesEnd == StateReached /\ GetEnds

(* The same for every application: a change can be waited for              *)
(* (gst_element_set_state's documentation).                                *)
LastAskReached == ~Reached ~> (Reached \/ Failed)
=============================================================================
