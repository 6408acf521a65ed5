---------------------------- MODULE GstBusWatch ----------------------------
(***************************************************************************)
(* The watches of a GstBus (gstbus.c): the one main loop source a bus may  *)
(* have, attached by gst_bus_add_watch or shared, with a count, by the     *)
(* callers of gst_bus_add_signal_watch.  The bus keeps no reference on the *)
(* source; the source clears watch_id when it is finalized, which GLib     *)
(* puts off while the source is being dispatched.                          *)
(*                                                                         *)
(* Also the count of sync-message emitters, which lives beside the other.  *)
(* Each operation holds the object lock from its first test to its last    *)
(* assignment and is one action; g_source_remove comes after the unlock.   *)
(***************************************************************************)
EXTENDS Integers, FiniteSets, TLC

CONSTANTS
  Callers,              \* the threads that add and remove watches
  Sources,              \* addresses of GSources: bounds how many exist
  MaxWatchers,          \* bound: signal watchers and emitters
  NO_SOURCE             \* no source: NULL, and the id 0

ASSUME WatchAssumption ==
  /\ NO_SOURCE \notin Sources
  /\ MaxWatchers \in Nat

VARIABLES
  source,               \* source[s]: "free", attached by the "app" or for "signal"s,
                        \* or "destroyed" and not finalized yet
  dispatching,          \* the source the main loop is dispatching
  watch_id,             \* the bus's pointer to its source
  signal_watch_id, num_signal_watchers,
  num_sync_message_emitters,
  removing,             \* removing[t]: the source t is about to g_source_remove
  users,                \* signal watches added and not yet removed, by the callers
  enabled               \* sync message emissions enabled and not yet disabled

watchVars == <<source, watch_id, signal_watch_id, num_signal_watchers, removing, users>>
emitVars == <<num_sync_message_emitters, enabled>>
allWatchVars == <<watchVars, emitVars, dispatching>>

WatchInit ==
  /\ source = [s \in Sources |-> "free"]
  /\ dispatching = NO_SOURCE
  /\ watch_id = NO_SOURCE /\ signal_watch_id = NO_SOURCE /\ num_signal_watchers = 0
  /\ num_sync_message_emitters = 0
  /\ removing = [t \in Callers |-> NO_SOURCE]
  /\ users = 0 /\ enabled = 0

Idle(t) == removing[t] = NO_SOURCE

-----------------------------------------------------------------------------
(* Mutants: the last remove looks at the count before it is decremented, a *)
(* finalized source leaves watch_id.                                       *)
RemoveLastEarly(t) ==
  /\ Idle(t) /\ num_signal_watchers > 0
  /\ num_signal_watchers' = num_signal_watchers - 1
  /\ users' = users - 1
  /\ signal_watch_id' = NO_SOURCE
  /\ removing' = [removing EXCEPT ![t] = signal_watch_id]
  /\ UNCHANGED <<source, watch_id, emitVars, dispatching>>

FinalizeKeepsWatch(s) ==
  /\ source[s] = "destroyed" /\ dispatching # s
  /\ source' = [source EXCEPT ![s] = "free"]
  /\ UNCHANGED <<watch_id, signal_watch_id, num_signal_watchers, removing, users,
                 emitVars, dispatching>>

-----------------------------------------------------------------------------
(* gst_bus_add_watch_full_unlocked when it succeeds. *)
Attach(s, owner) ==
  /\ watch_id = NO_SOURCE
  /\ source[s] = "free"
  /\ source' = [source EXCEPT ![s] = owner]
  /\ watch_id' = s

AddWatch(t) ==
  /\ Idle(t)
  /\ \E s \in Sources : Attach(s, "app")
  /\ UNCHANGED <<signal_watch_id, num_signal_watchers, removing, users, emitVars,
                 dispatching>>

(* The application removes its own watch with g_source_remove. *)
RemoveWatch(t) ==
  /\ Idle(t)
  /\ watch_id # NO_SOURCE /\ source[watch_id] = "app"
  /\ source' = [source EXCEPT ![watch_id] = "destroyed"]
  /\ UNCHANGED <<watch_id, signal_watch_id, num_signal_watchers, removing, users,
                 emitVars, dispatching>>

(* gst_bus_add_signal_watch_full: one more user of the source,             *)
ShareSignalWatch(t) ==
  /\ Idle(t) /\ users < MaxWatchers
  /\ num_signal_watchers > 0
  /\ num_signal_watchers' = num_signal_watchers + 1
  /\ users' = users + 1
  /\ UNCHANGED <<source, watch_id, signal_watch_id, removing, emitVars, dispatching>>

(* the first,                                                              *)
AddSignalWatch(t) ==
  /\ Idle(t) /\ users < MaxWatchers
  /\ num_signal_watchers = 0
  /\ \E s \in Sources : Attach(s, "signal") /\ signal_watch_id' = s
  /\ num_signal_watchers' = 1
  /\ users' = users + 1
  /\ UNCHANGED <<removing, emitVars, dispatching>>

(* or add_failed: the caller is not told, its watch is not counted.        *)
AddSignalWatchFails(t) ==
  /\ Idle(t) /\ users < MaxWatchers
  /\ num_signal_watchers = 0
  /\ watch_id # NO_SOURCE
  /\ signal_watch_id' = NO_SOURCE
  /\ users' = users + 1
  /\ UNCHANGED <<source, watch_id, num_signal_watchers, removing, emitVars, dispatching>>

(* gst_bus_remove_signal_watch, up to the unlock; the last one removes the *)
(* source afterwards.                                                      *)
RemoveSignalWatch(t) ==
  /\ Idle(t) /\ num_signal_watchers > 0
  /\ num_signal_watchers' = num_signal_watchers - 1
  /\ users' = users - 1
  /\ \/ num_signal_watchers > 1 /\ UNCHANGED <<signal_watch_id, removing>>
     \/ /\ num_signal_watchers = 1
        /\ signal_watch_id' = NO_SOURCE
        /\ removing' = [removing EXCEPT ![t] = signal_watch_id]
  /\ UNCHANGED <<source, watch_id, emitVars, dispatching>>

(* ... its error path: nothing to remove.                                  *)
RemoveSignalWatchFails(t) ==
  /\ Idle(t) /\ num_signal_watchers = 0 /\ users > 0
  /\ users' = users - 1
  /\ UNCHANGED <<source, watch_id, signal_watch_id, num_signal_watchers, removing,
                 emitVars, dispatching>>

SourceRemove(t) ==
  /\ ~Idle(t)
  /\ source' = [source EXCEPT ![removing[t]] = "destroyed"]
  /\ removing' = [removing EXCEPT ![t] = NO_SOURCE]
  /\ UNCHANGED <<watch_id, signal_watch_id, num_signal_watchers, users, emitVars,
                 dispatching>>

(* g_main_dispatch keeps a reference on the source during the callback.    *)
DispatchBegin(s) ==
  /\ dispatching = NO_SOURCE /\ source[s] \in {"app", "signal"}
  /\ dispatching' = s
  /\ UNCHANGED <<watchVars, emitVars>>

(* gst_bus_source_dispatch returns what the handler returned; the handler  *)
(* of a signal watch (gst_bus_async_signal_func) always returns TRUE.      *)
DispatchEnd ==
  /\ dispatching # NO_SOURCE
  /\ dispatching' = NO_SOURCE
  /\ \/ UNCHANGED source
     \/ /\ source[dispatching] = "app"
        /\ source' = [source EXCEPT ![dispatching] = "destroyed"]
  /\ UNCHANGED <<watch_id, signal_watch_id, num_signal_watchers, removing, users, emitVars>>

(* gst_bus_source_finalize *)
Finalize(s) ==
  /\ source[s] = "destroyed" /\ dispatching # s
  /\ source' = [source EXCEPT ![s] = "free"]
  /\ watch_id' = IF watch_id = s THEN NO_SOURCE ELSE watch_id
  /\ UNCHANGED <<signal_watch_id, num_signal_watchers, removing, users, emitVars, dispatching>>

EnableEmission(t) ==
  /\ Idle(t) /\ num_sync_message_emitters < MaxWatchers
  /\ num_sync_message_emitters' = num_sync_message_emitters + 1
  /\ enabled' = enabled + 1
  /\ UNCHANGED <<watchVars, dispatching>>

(* gst_bus_disable_sync_message_emission returns at once when there is a   *)
(* signal watch.                                                           *)
DisableEmission(t) ==
  /\ Idle(t) /\ enabled > 0
  /\ enabled' = enabled - 1
  /\ num_sync_message_emitters' =
       IF num_signal_watchers = 0 THEN num_sync_message_emitters - 1
       ELSE num_sync_message_emitters
  /\ UNCHANGED <<watchVars, dispatching>>

WatchNext ==
  \/ \E t \in Callers :
       \/ AddWatch(t) \/ RemoveWatch(t)
       \/ ShareSignalWatch(t) \/ AddSignalWatch(t) \/ AddSignalWatchFails(t)
       \/ RemoveSignalWatch(t) \/ RemoveSignalWatchFails(t) \/ SourceRemove(t)
       \/ EnableEmission(t) \/ DisableEmission(t)
  \/ \E s \in Sources : DispatchBegin(s) \/ Finalize(s)
  \/ DispatchEnd

WatchSpec == WatchInit /\ [][WatchNext]_allWatchVars

-----------------------------------------------------------------------------
WatchTypeOK ==
  /\ source \in [Sources -> {"free", "app", "signal", "destroyed"}]
  /\ {dispatching, watch_id, signal_watch_id} \subseteq Sources \cup {NO_SOURCE}
  /\ {num_signal_watchers, num_sync_message_emitters, users, enabled} \subseteq Nat
  /\ removing \in [Callers -> Sources \cup {NO_SOURCE}]

(* gst_bus_add_signal_watch_full: while any caller's watch is counted, the *)
(* source that serves them all is attached, whatever the others removed;   *)
(* when none is, g_assert (signal_watch_id == 0) holds for the next.       *)
SignalWatchServed ==
  IF num_signal_watchers > 0
  THEN signal_watch_id # NO_SOURCE /\ source[signal_watch_id] = "signal"
  ELSE signal_watch_id = NO_SOURCE

(* The bus holds no reference on its source, yet never points at one that  *)
(* is gone: the next watch would be refused for ever.                      *)
WatchIdAlive == watch_id # NO_SOURCE => source[watch_id] # "free"

-----------------------------------------------------------------------------
(* What the documentation says and the code does not keep.                 *)

(* gst_bus_add_signal_watch_full, line 1226: "this should not fail         *)
(* because the counter above takes care of it"; every watch is counted.    *)
WatchersCounted == users = num_signal_watchers

(* gst_bus_disable_sync_message_emission, lines 1173-1175: emissions "will *)
(* only be stopped after all calls ... were cancelled by calling this      *)
(* function", and then they are.                                           *)
EmissionStops == enabled = 0 => num_sync_message_emitters = 0
=============================================================================
