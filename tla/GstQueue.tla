------------------------------ MODULE GstQueue ------------------------------
(***************************************************************************)
(* The queue element (plugins/elements/gstqueue.c): the upstream thread    *)
(* puts buffers, serialized events and serialized queries into it, the     *)
(* task of its source pad takes them out and pushes them downstream.  A    *)
(* seeking thread flushes it, a thread changing the element's state starts *)
(* and stops it, the application changes its limits.                       *)
(*                                                                         *)
(* qlock makes each critical section one action; the lock is free while a  *)
(* signal is emitted and while an item is pushed, and is held during the   *)
(* query of the peer.  The STREAM_LOCK of the sink pad is held while up is *)
(* not idle, the one of the source pad while lp is not off.  Whether the   *)
(* pads refuse data is kept as flags: sinkFlushing for the sink pad,       *)
(* srcFlushing for the source pad and all that is downstream of it.        *)
(***************************************************************************)
EXTENDS Integers, FiniteSets, Sequences, SequencesExt

CONSTANTS
  Leaks,                \* values of the property "leaky"
  Capacities,           \* values of "max-size-buffers"
  Thresholds,           \* values of "min-threshold-buffers"
  Kinds,                \* what upstream sends
  MaxCalls,             \* bound on what upstream sends
  MaxUpsets,            \* bound on seeks, restarts and changes of the properties
                        \* together
  MaxEos,               \* bound on EOS as downstream's answer to a buffer
  Strands               \* whether the application changes limits when that strands
                        \* the task: see SetCapacity and SetThreshold

ASSUME QueueAssumption ==
  /\ Leaks \subseteq {"no", "upstream", "downstream"}
  /\ Capacities \subseteq Nat /\ Thresholds \subseteq Nat
  /\ Kinds \subseteq {"buffer", "segment", "eos", "query"}
  /\ {MaxCalls, MaxUpsets, MaxEos} \subseteq Nat /\ Strands \in BOOLEAN

VARIABLES
  leaky, max_size, min_threshold, orig_min_threshold,
  items,                \* the GQueue
  srcresult,            \* "OK", "FLUSHING" or "EOS"
  eos, unexpected,
  last_query,           \* the call of the query whose answer is kept
  up, arg,              \* the upstream thread, and the item it brings
  lp, data, result,     \* the task's function, its item, the result of its push
  task,                 \* state of the task of the source pad
  fl,                   \* the seeking thread
  st,                   \* the thread that changes the state
  sinkFlushing, srcFlushing,
  calls, upsets, answers,
  upSeg, downSeg,       \* history: the segment upstream is in, and downstream
  in, out,              \* history: items accepted since the last flush, and the
                        \* number of the last one delivered
  gap,                  \* history: an item was dropped since the last flush
  gen                   \* history: how often the stream was flushed downstream

config   == <<leaky, max_size, min_threshold, orig_min_threshold>>
flags    == <<srcresult, eos, unexpected>>
loopVars == <<lp, data, result, task>>
upVars   == <<up, arg, calls>>
pads     == <<sinkFlushing, srcFlushing>>
outside  == <<fl, st, pads, upsets, answers>>
history  == <<upSeg, downSeg, in, out, gap, gen>>
vars == <<config, items, flags, last_query, upVars, loopVars, outside, history>>

(* An item carries its place in the stream, the segment it belongs to, the *)
(* call that brought it and the number of flushes before it.               *)
NoItem == [kind |-> "none", n |-> 0, seg |-> 0, id |-> 0, gen |-> 0]

Init ==
  /\ leaky \in Leaks /\ max_size \in Capacities
  /\ min_threshold \in Thresholds /\ orig_min_threshold = min_threshold
  /\ items = <<>>
  /\ srcresult = "FLUSHING" /\ eos = FALSE /\ unexpected = FALSE
  /\ last_query = 0
  /\ up = "idle" /\ arg = NoItem
  /\ lp = "off" /\ data = NoItem /\ result = "OK" /\ task = "stopped"
  /\ fl = "idle" /\ st = "down"
  /\ sinkFlushing = TRUE /\ srcFlushing = TRUE
  /\ calls = 0 /\ upsets = 0 /\ answers = 0
  /\ upSeg = 0 /\ downSeg = 0 /\ in = 0 /\ out = 0 /\ gap = FALSE
  /\ gen = 0

(* Mutant: the lock is free while the peer is queried. *)
QLockNotHeld == TRUE

QLockFree == lp # "query"

-----------------------------------------------------------------------------
(* Levels.  Only buffers count; a filled queue is never empty, whatever    *)
(* the threshold.                                                          *)
Buffers(q) == Cardinality({i \in DOMAIN q : q[i].kind = "buffer"})
IsFilled(q, max) == max > 0 /\ Buffers(q) >= max
IsEmpty(q, min, max) ==
  \/ q = <<>>
  \/ min > 0 /\ Buffers(q) < min /\ ~IsFilled(q, max)

(* gst_queue_leak_downstream: the items of q that remain. *)
LeakDownstream(q, max) ==
  LET cut == CHOOSE k \in 0 .. Len(q) :
               /\ ~IsFilled(SubSeq(q, k + 1, Len(q)), max)
               /\ \A j \in 0 .. k - 1 : IsFilled(SubSeq(q, j + 1, Len(q)), max)
  IN  SubSeq(q, cut + 1, Len(q))

(* GST_QUEUE_SIGNAL_ADD, GST_QUEUE_SIGNAL_DEL: only who waits is woken. *)
AfterAdd == IF lp = "wait" THEN "woken" ELSE lp
AfterDel == CASE up = "wait"      -> "woken"
              [] up = "queryWait" -> "queryWoken"
              [] OTHER            -> up

-----------------------------------------------------------------------------
(* The upstream thread.  A pad that is flushing refuses all but queries;   *)
(* the pad is asked before the queue's lock is taken.                      *)
Call(kind) ==
  /\ up = "idle" /\ calls < MaxCalls
  /\ IF kind = "query" THEN st \notin {"down", "srcActive"} ELSE ~sinkFlushing
  /\ fl # "locked"
  /\ up' = IF kind = "query" THEN "query" ELSE "call"
  /\ arg' = [NoItem EXCEPT !.kind = kind, !.id = calls + 1]
  /\ calls' = calls + 1
  /\ UNCHANGED <<config, items, flags, last_query, loopVars, outside, history>>

Return == up' = "idle" /\ arg' = NoItem

(* Mutants: events overtake buffers; the end of stream leaves the          *)
(* threshold as it is.                                                     *)
EnqueueEventsFirst(q) ==
  LET item == [arg EXCEPT !.n = in + 1, !.seg = upSeg, !.gen = gen]
  IN  /\ items' = IF item.kind = "buffer" THEN Append(q, item) ELSE <<item>> \o q
      /\ eos' = (eos \/ item.kind = "eos")
      /\ min_threshold' = IF item.kind = "eos" THEN 0 ELSE min_threshold
      /\ unexpected' = (unexpected /\ item.kind # "segment")
      /\ lp' = AfterAdd
      /\ in' = in + 1
      /\ upSeg' = IF item.kind = "segment" THEN in + 1 ELSE upSeg
      /\ UNCHANGED <<leaky, max_size, orig_min_threshold, srcresult, data, result, task,
                     calls, outside, downSeg, out, gen>>

EnqueueUnderThreshold(q) ==
  LET item == [arg EXCEPT !.n = in + 1, !.seg = upSeg, !.gen = gen]
  IN  /\ items' = Append(q, item)
      /\ eos' = (eos \/ item.kind = "eos")
      /\ unexpected' = (unexpected /\ item.kind # "segment")
      /\ lp' = AfterAdd
      /\ in' = in + 1
      /\ upSeg' = IF item.kind = "segment" THEN in + 1 ELSE upSeg
      /\ UNCHANGED <<config, srcresult, data, result, task,
                     calls, outside, downSeg, out, gen>>

(* gst_queue_locked_enqueue_buffer and _event onto what is left in q, and  *)
(* the same for a query.                                                   *)
Enqueue(q) ==
  LET item == [arg EXCEPT !.n = in + 1, !.seg = upSeg, !.gen = gen]
  IN  /\ items' = Append(q, item)
      /\ eos' = (eos \/ item.kind = "eos")
      /\ min_threshold' = IF item.kind = "eos" THEN 0 ELSE min_threshold
      /\ unexpected' = (unexpected /\ item.kind # "segment")
      /\ lp' = AfterAdd
      /\ in' = in + 1
      /\ upSeg' = IF item.kind = "segment" THEN in + 1 ELSE upSeg
      /\ UNCHANGED <<leaky, max_size, orig_min_threshold, srcresult, data, result, task,
                     calls, outside, downSeg, out, gen>>

Accept == Enqueue(items) /\ Return /\ UNCHANGED <<last_query, gap>>

Refused ==
  /\ Return
  /\ UNCHANGED <<config, items, flags, last_query, loopVars, calls, outside, history>>

UpAt(pc) ==
  /\ up' = pc
  /\ UNCHANGED <<config, items, flags, last_query, arg, loopVars, calls, outside, history>>

(* gst_queue_handle_sink_event, serialized events *)
SinkEvent ==
  /\ up = "call" /\ arg.kind # "buffer" /\ QLockFree
  /\ IF srcresult # "OK" \/ eos THEN Refused ELSE Accept

(* gst_queue_chain.  At "call" the flags are looked at; at "overrun" and   *)
(* "running" a signal is being emitted.                                    *)
Leak ==
  /\ Return /\ gap' = TRUE
  /\ UNCHANGED <<config, items, flags, last_query, loopVars, calls, outside,
                 upSeg, downSeg, in, out, gen>>

(* Mutant: the two ways of leaking are mixed up. *)
MakeRoomSwapped ==
  CASE leaky = "downstream" -> Leak
    [] leaky = "upstream"   -> /\ Enqueue(LeakDownstream(items, max_size)) /\ Return
                               /\ gap' = TRUE /\ UNCHANGED last_query
    [] leaky = "no"         -> UpAt("wait")

MakeRoom ==
  CASE leaky = "upstream"   -> Leak
    [] leaky = "downstream" -> /\ Enqueue(LeakDownstream(items, max_size)) /\ Return
                               /\ gap' = TRUE /\ UNCHANGED last_query
    [] leaky = "no"         -> UpAt("wait")

Chain ==
  /\ up = "call" /\ arg.kind = "buffer" /\ QLockFree
  /\ IF srcresult # "OK" \/ eos \/ unexpected THEN Refused
     ELSE IF IsFilled(items, max_size) THEN UpAt("overrun") ELSE Accept

ChainOverrun ==
  /\ up = "overrun" /\ QLockFree
  /\ IF srcresult # "OK" THEN Refused
     ELSE IF IsFilled(items, max_size) THEN MakeRoom ELSE Accept

ChainWoken ==
  /\ up = "woken" /\ QLockFree
  /\ IF srcresult # "OK" THEN Refused
     ELSE UpAt(IF IsFilled(items, max_size) THEN "wait" ELSE "running")

ChainRunning ==
  /\ up = "running" /\ QLockFree
  /\ IF srcresult # "OK" THEN Refused
     ELSE IF IsFilled(items, max_size) THEN UpAt("overrun") ELSE Accept

(* gst_queue_handle_sink_query: once the queue is empty, the query has     *)
(* been answered.  (The flag eos is not looked at.)                        *)
SinkQuery ==
  /\ up = "query" /\ QLockFree
  /\ IF srcresult # "OK" THEN Refused
     ELSE Enqueue(items) /\ up' = "queryWait" /\ UNCHANGED <<arg, last_query, gap>>

SinkQueryWoken ==
  /\ up = "queryWoken" /\ QLockFree
  /\ IF srcresult = "OK" /\ items # <<>> THEN UpAt("queryWait") ELSE Refused

Upstream == SinkEvent \/ Chain \/ ChainOverrun \/ ChainWoken \/ ChainRunning
              \/ SinkQuery \/ SinkQueryWoken

-----------------------------------------------------------------------------
(* gst_queue_loop.  The task calls it as long as it is started, with the   *)
(* STREAM_LOCK of the source pad.                                          *)
LoopUnchanged == UNCHANGED <<config, arg, calls, fl, st, pads, upsets, upSeg, in, gen>>

LoopAt(pc) ==
  /\ lp' = pc
  /\ UNCHANGED <<items, flags, last_query, up, data, result, task, answers, downSeg, out, gap>>
  /\ LoopUnchanged

AfterLoop == IF task = "started" THEN "entry" ELSE "off"

(* The function gives up: gst_pad_pause_task, which only waits when it is  *)
(* another thread's call, and does nothing to a task the pad has lost.     *)
GiveUp(res) ==
  /\ srcresult' = res
  /\ task' = IF task = "started" THEN "paused" ELSE task
  /\ up' = AfterDel
  /\ lp' = "off" /\ data' = NoItem /\ result' = "OK"
  /\ UNCHANGED <<items, eos, unexpected, last_query, answers, downSeg, out, gap>>
  /\ LoopUnchanged

TaskRuns == lp = "off" /\ task = "started" /\ LoopAt("entry")

(* gst_queue_locked_dequeue and the first half of gst_queue_push_one.      *)
Dequeue ==
  /\ items' = Tail(items) /\ data' = Head(items)
  /\ up' = AfterDel
  /\ lp' = IF Head(items).kind = "query" THEN "query" ELSE "push"
  /\ UNCHANGED <<flags, last_query, result, task, answers, downSeg, out, gap>>
  /\ LoopUnchanged

EmptyNow == IsEmpty(items, min_threshold, max_size)

(* Mutant: the wait starts without another look at the queue. *)
LoopUnderrunBlind ==
  /\ lp = "underrun" /\ (IF srcresult # "OK" THEN GiveUp(srcresult) ELSE LoopAt("wait"))

(* At "underrun" and "running" the signals are being emitted; the queue is *)
(* looked at again before the wait.                                        *)
LoopEntry ==
  /\ lp = "entry" /\ (IF srcresult # "OK" THEN GiveUp(srcresult)
                      ELSE IF EmptyNow THEN LoopAt("underrun") ELSE Dequeue)

LoopUnderrun ==
  /\ lp = "underrun" /\ (IF srcresult # "OK" THEN GiveUp(srcresult)
                         ELSE LoopAt(IF EmptyNow THEN "wait" ELSE "running"))

LoopWoken ==
  /\ lp = "woken" /\ (IF srcresult # "OK" THEN GiveUp(srcresult)
                      ELSE LoopAt(IF EmptyNow THEN "wait" ELSE "running"))

LoopRunning ==
  /\ lp = "running" /\ (IF srcresult # "OK" THEN GiveUp(srcresult)
                        ELSE IF EmptyNow THEN LoopAt("underrun") ELSE Dequeue)

-----------------------------------------------------------------------------
(* gst_pad_push and gst_pad_push_event.  Downstream takes what is pushed   *)
(* unless it is flushing; it may answer a buffer with EOS.                 *)
Push(res) ==
  /\ lp = "push"
  /\ (res = "FLUSHING") = srcFlushing
  /\ res = "EOS" => data.kind = "buffer" /\ answers < MaxEos
  /\ answers' = IF res = "EOS" THEN answers + 1 ELSE answers
  /\ lp' = "pushed"
  /\ result' = IF data.kind = "buffer" THEN res ELSE result
  /\ IF srcFlushing
     THEN gap' = TRUE /\ UNCHANGED <<downSeg, out>>
     ELSE /\ out' = data.n
          /\ downSeg' = IF data.kind = "segment" THEN data.n ELSE downSeg
          /\ UNCHANGED gap
  /\ UNCHANGED <<items, flags, last_query, up, data, task>>
  /\ LoopUnchanged

(* The rest of gst_queue_push_one, under the lock again, and of the loop.  *)
Carry ==
  /\ srcresult' = "OK"
  /\ lp' = AfterLoop /\ data' = NoItem /\ result' = "OK"
  /\ UNCHANGED task

(* Downstream is at its end: nothing is pushed up to the next segment or   *)
(* end of stream; without one, upstream is told to stop.                   *)
Pushable(q) == {i \in DOMAIN q : q[i].kind \in {"segment", "eos"}}

SkipToPushable ==
  LET found == Pushable(items)
      first == CHOOSE i \in found : \A j \in found : i <= j
      skipped == IF found = {} THEN items ELSE SubSeq(items, 1, first - 1)
  IN  /\ IF found = {}
         THEN Carry /\ items' = <<>> /\ unexpected' = TRUE
         ELSE /\ items' = SubSeq(items, first + 1, Len(items))
              /\ data' = items[first] /\ lp' = "push"
              /\ UNCHANGED <<srcresult, unexpected, result, task>>
      /\ last_query' = IF \E q \in ToSet(skipped) : q.kind = "query"
                       THEN (CHOOSE q \in ToSet(skipped) : q.kind = "query").id
                       ELSE last_query
      /\ gap' = (gap \/ skipped # <<>>)
      /\ up' = IF items = <<>> THEN up ELSE AfterDel
      /\ UNCHANGED <<eos, answers, downSeg, out>>
      /\ LoopUnchanged

Pushed ==
  /\ lp = "pushed"
  /\ CASE srcresult # "OK" -> GiveUp("FLUSHING")
       [] srcresult = "OK" /\ data.kind = "eos" -> GiveUp("EOS")
       [] srcresult = "OK" /\ data.kind = "buffer" /\ result = "EOS" -> SkipToPushable
       [] srcresult = "OK" /\ data.kind = "segment" /\ result = "EOS" -> GiveUp("EOS")
       [] srcresult = "OK" /\ result = "FLUSHING" -> GiveUp("FLUSHING")
       [] OTHER -> /\ Carry
                   /\ UNCHANGED <<items, eos, unexpected, last_query, up, answers,
                                  downSeg, out, gap>>
                   /\ LoopUnchanged

(* gst_pad_peer_query, with the lock held. *)
PeerQuery ==
  /\ lp = "query"
  /\ last_query' = data.id
  /\ out' = data.n
  /\ Carry
  /\ UNCHANGED <<items, eos, unexpected, up, answers, downSeg, gap>>
  /\ LoopUnchanged

Loop == \/ TaskRuns \/ LoopEntry \/ LoopUnderrun \/ LoopWoken \/ LoopRunning
        \/ (\E res \in {"OK", "FLUSHING", "EOS"} : Push(res)) \/ Pushed \/ PeerQuery

-----------------------------------------------------------------------------
(* gst_queue_locked_flush, and what each thread sees of it.                *)
LockedFlush ==
  /\ items' = <<>> /\ min_threshold' = orig_min_threshold
  /\ up' = AfterDel
  /\ upSeg' = 0 /\ downSeg' = 0 /\ in' = 0 /\ out' = 0 /\ gap' = FALSE

(* FLUSH_START: the sink pad, the source pad and downstream refuse data;   *)
(* then the queue does, and both its waits end; then the task is paused,   *)
(* and the seeking thread waits for its function to return.                *)
FlushStart ==
  /\ fl = "idle" /\ st = "up" /\ upsets < MaxUpsets
  /\ fl' = "start" /\ upsets' = upsets + 1
  /\ sinkFlushing' = TRUE /\ srcFlushing' = TRUE
  /\ UNCHANGED <<config, items, flags, last_query, upVars, loopVars, st, answers, history>>

FlushStartLocked ==
  /\ fl = "start" /\ QLockFree
  /\ fl' = "pause"
  /\ srcresult' = "FLUSHING"
  /\ lp' = AfterAdd /\ up' = AfterDel
  /\ UNCHANGED <<config, items, eos, unexpected, last_query, arg, calls, data, result, task,
                 st, pads, upsets, answers, history>>

PauseTask ==
  /\ fl = "pause"
  /\ fl' = "paused"
  /\ task' = IF task = "started" THEN "paused" ELSE task
  /\ UNCHANGED <<config, items, flags, last_query, upVars, lp, data, result, st,
                 pads, upsets, answers, history>>

(* Mutant: the seeking thread does not wait for the function. *)
FlushStopAtOnce ==
  /\ fl = "paused"
  /\ fl' = "stop" /\ sinkFlushing' = FALSE
  /\ UNCHANGED <<config, items, flags, last_query, upVars, loopVars, st, srcFlushing,
                 upsets, answers, history>>

(* FLUSH_STOP: the sink pad accepts data, the STREAM_LOCK is taken, the    *)
(* event is sent downstream, and then the queue is emptied and goes on.    *)
FlushStop ==
  /\ fl = "paused" /\ lp = "off"
  /\ fl' = "stop" /\ sinkFlushing' = FALSE
  /\ UNCHANGED <<config, items, flags, last_query, upVars, loopVars, st, srcFlushing,
                 upsets, answers, history>>

FlushStopForwarded ==
  /\ fl = "stop" /\ up = "idle"
  /\ fl' = "locked" /\ srcFlushing' = FALSE /\ gen' = gen + 1
  /\ UNCHANGED <<config, items, flags, last_query, upVars, loopVars, st, sinkFlushing,
                 upsets, answers, upSeg, downSeg, in, out, gap>>

FlushStopLocked ==
  /\ fl = "locked" /\ QLockFree
  /\ fl' = "idle"
  /\ LockedFlush
  /\ srcresult' = "OK" /\ eos' = FALSE /\ unexpected' = FALSE
  /\ task' = "started"
  /\ UNCHANGED <<leaky, max_size, orig_min_threshold, last_query, arg, calls, lp, data,
                 result, st, pads, upsets, answers, gen>>

Seek == FlushStartLocked \/ PauseTask \/ FlushStop \/ FlushStopForwarded \/ FlushStopLocked

-----------------------------------------------------------------------------
(* The pads are activated on the way to PAUSED and deactivated on the way  *)
(* to READY, each time the source pad first.  Downstream changes first.    *)
StateUnchanged ==
  UNCHANGED <<leaky, max_size, orig_min_threshold, last_query, arg, calls, data, result,
              fl, answers>>

Activate ==
  /\ st = "down"
  /\ st' = "srcActive"
  /\ srcresult' = "OK" /\ eos' = FALSE /\ unexpected' = FALSE
  /\ task' = "started" /\ srcFlushing' = FALSE
  /\ UNCHANGED <<min_threshold, items, up, lp, sinkFlushing, upsets, history>>
  /\ StateUnchanged

ActivateSink ==
  /\ st = "srcActive" /\ QLockFree
  /\ st' = "up"
  /\ srcresult' = "OK" /\ eos' = FALSE /\ unexpected' = FALSE
  /\ sinkFlushing' = FALSE
  /\ UNCHANGED <<min_threshold, items, up, lp, task, srcFlushing, upsets, history>>
  /\ StateUnchanged

DownstreamStops ==
  /\ st = "up" /\ fl = "idle" /\ upsets < MaxUpsets
  /\ st' = "leaving" /\ upsets' = upsets + 1 /\ srcFlushing' = TRUE
  /\ UNCHANGED <<min_threshold, items, flags, up, lp, task, sinkFlushing, history>>
  /\ StateUnchanged

Deactivate ==
  /\ st = "leaving" /\ QLockFree
  /\ st' = "stopTask"
  /\ srcresult' = "FLUSHING"
  /\ lp' = AfterAdd
  /\ UNCHANGED <<min_threshold, items, eos, unexpected, up, task, pads, upsets, history>>
  /\ StateUnchanged

(* gst_pad_stop_task, and then gst_task_join once the function returned.   *)
StopTask ==
  /\ st = "stopTask"
  /\ st' = "join" /\ task' = "stopped"
  /\ UNCHANGED <<min_threshold, items, flags, up, lp, pads, upsets, history>>
  /\ StateUnchanged

DeactivateSink ==
  /\ st = "join" /\ lp = "off"
  /\ st' = "sinkInactive" /\ sinkFlushing' = TRUE
  /\ UNCHANGED <<min_threshold, items, flags, up, lp, task, srcFlushing, upsets, history>>
  /\ StateUnchanged

DeactivateSinkLocked ==
  /\ st = "sinkInactive" /\ QLockFree
  /\ st' = "drain"
  /\ srcresult' = "FLUSHING" /\ LockedFlush
  /\ UNCHANGED <<eos, unexpected, lp, task, pads, upsets, gen>>
  /\ StateUnchanged

(* post_activate waits for the STREAM_LOCK of the sink pad. *)
Deactivated ==
  /\ st = "drain" /\ up = "idle"
  /\ st' = "down" /\ gen' = gen + 1
  /\ UNCHANGED <<min_threshold, items, flags, up, lp, task, pads, upsets, upSeg, downSeg,
                 in, out, gap>>
  /\ StateUnchanged

ChangeState == ActivateSink \/ Deactivate \/ StopTask \/ DeactivateSink
                 \/ DeactivateSinkLocked \/ Deactivated

-----------------------------------------------------------------------------
(* gst_queue_set_property.  A capacity that is lowered to the level can    *)
(* end the task's wait for its threshold, but only the upstream thread is  *)
(* woken; a threshold that is set after the end of stream holds that back. *)
SetCapacity(max) ==
  /\ upsets < MaxUpsets /\ QLockFree /\ max # max_size
  /\ Strands \/ max > max_size \/ min_threshold = 0
  /\ upsets' = upsets + 1
  /\ max_size' = max
  /\ IF leaky = "downstream"
     THEN /\ items' = LeakDownstream(items, max)
          /\ gap' = (gap \/ items' # items)
     ELSE UNCHANGED <<items, gap>>
  /\ up' = AfterDel
  /\ UNCHANGED <<leaky, min_threshold, orig_min_threshold, flags, last_query, arg, calls,
                 loopVars, fl, st, pads, answers, upSeg, downSeg, in, out, gen>>

SetThreshold(min) ==
  /\ upsets < MaxUpsets /\ QLockFree /\ min # min_threshold
  /\ Strands \/ ~eos
  /\ upsets' = upsets + 1
  /\ min_threshold' = min /\ orig_min_threshold' = min
  /\ lp' = AfterAdd
  /\ UNCHANGED <<leaky, max_size, items, flags, last_query, upVars, data, result, task,
                 fl, st, pads, answers, history>>

-----------------------------------------------------------------------------
Next ==
  \/ \E kind \in Kinds : Call(kind)
  \/ Upstream \/ Loop
  \/ FlushStart \/ Seek
  \/ Activate \/ DownstreamStops \/ ChangeState
  \/ \E max \in Capacities : SetCapacity(max)
  \/ \E min \in Thresholds : SetThreshold(min)

Spec == Init /\ [][Next]_vars

(* Threads that are inside a call go on; downstream takes or refuses what  *)
(* is pushed.  Nobody has to call, seek, or change the state.              *)
Fairness == WF_vars(Upstream) /\ WF_vars(Loop) /\ WF_vars(Seek) /\ WF_vars(ChangeState)

FairSpec == Spec /\ Fairness

-----------------------------------------------------------------------------
TypeOK ==
  /\ leaky \in Leaks /\ max_size \in Capacities
  /\ orig_min_threshold \in Thresholds /\ min_threshold \in Thresholds \cup {0}
  /\ srcresult \in {"OK", "FLUSHING", "EOS"}
  /\ {eos, unexpected, sinkFlushing, srcFlushing, gap} \subseteq BOOLEAN
  /\ up \in {"idle", "call", "overrun", "wait", "woken", "running", "query", "queryWait",
             "queryWoken"}
  /\ lp \in {"off", "entry", "underrun", "wait", "woken", "running", "push", "pushed", "query"}
  /\ task \in {"stopped", "started", "paused"}
  /\ (lp \in {"push", "pushed", "query"}) = (data # NoItem)
  /\ (up = "idle") = (arg = NoItem)

(* What is on its way: the item being pushed and the items in the queue.   *)
OnItsWay == (IF lp \in {"push", "query"} THEN <<data>> ELSE <<>>) \o items

(* Items leave in the order they came; and unless something was dropped,   *)
(* by a leak, after downstream's EOS, or by a push into a flush, everything *)
(* accepted since the last flush was delivered or is on its way.           *)
InOrder ==
  LET way == OnItsWay
  IN  /\ \A i \in DOMAIN way :
            way[i].n > IF i = 1 THEN (IF fl = "locked" THEN 0 ELSE out) ELSE way[i - 1].n
      /\ ~gap => out + Len(way) = in

(* After a flush, and after a restart, nothing from before can go          *)
(* downstream: neither what the queue held nor what its task was pushing.  *)
NoStale ==
  ~srcFlushing /\ fl # "locked" => \A item \in ToSet(OnItsWay) : item.gen = gen

(* A buffer goes downstream under the segment upstream sent it in, though  *)
(* items before it are thrown away, unless the queue leaks downstream.     *)
InSegment ==
  [][leaky # "downstream" /\ lp = "push" /\ data.kind = "buffer" /\ out' = data.n
       => data.seg = downSeg]_vars

(* A query that returns what the queue says was answered says what         *)
(* downstream answered to this query, not to an earlier one.               *)
OwnAnswer ==
  [][up = "queryWoken" /\ up' = "idle" /\ srcresult = "OK" => last_query = arg.id]_vars

(* Every call of upstream returns, every seek ends and every deactivation  *)
(* of the pads ends, whoever waits for whom.  (A query waits for ever when *)
(* what is before it stays below the threshold.)                           *)
BelowThreshold == items # <<>> /\ EmptyNow

CallsReturn ==
  /\ up # "idle" ~> up = "idle" \/ (up = "queryWait" /\ BelowThreshold)
  /\ fl # "idle" ~> fl = "idle"
  /\ st \notin {"up", "down"} ~> st \in {"up", "down"}

(* An end of stream that was accepted arrives downstream, whatever was     *)
(* below the threshold when it came, unless it is flushed.                 *)
EosOnItsWay == \E item \in ToSet(OnItsWay) : item.kind = "eos"
EosArrives == EosOnItsWay ~> ~EosOnItsWay

(* The same for a queue whose task was not shut down before, as it is when *)
(* downstream answers EOS to a buffer that a segment follows.              *)
EosDelivered == EosOnItsWay ~> ~EosOnItsWay \/ srcresult = "EOS"
=============================================================================
