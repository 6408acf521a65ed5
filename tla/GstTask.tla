------------------------------ MODULE GstTask ------------------------------
(***************************************************************************)
(* GstTask (gsttask.c): a function called again and again by a thread of a *)
(* pool while the task is STARTED.  Clients start, pause, stop and join it *)
(* from other threads.  Two locks are involved: the task's object lock,    *)
(* under which each action below that is said to hold it is atomic, and    *)
(* the lock given by gst_task_set_lock (in GstPad the stream lock), which  *)
(* the thread holds whenever it is not paused.  One condition serves the   *)
(* paused thread and the joiners; it is only ever signalled, never         *)
(* broadcast, so a signal may go to either.                                *)
(***************************************************************************)
EXTENDS Integers, FiniteSets, TLC

CONSTANTS
  Clients,              \* threads that use the task
  Workers,              \* threads of the pool
  Locks,                \* mutexes that gst_task_set_lock may be given
  NONE

ASSUME TaskAssumption ==
  /\ Clients \cap Workers = {} /\ NONE \notin Clients \cup Workers \cup Locks

VARIABLES
  careful,              \* whether users and pool keep to the discipline below
  state,                \* "STARTED", "PAUSED" or "STOPPED"; read with and without the lock
  running,              \* a thread is scheduled or in gst_task_func
  thread,               \* the thread in gst_task_func
  lock,                 \* the mutex given to gst_task_set_lock
  holder,               \* holder[l]: the thread that holds mutex l
  using,                \* using[w]: the mutex gst_task_func read from the task
  pc,
  quiet                 \* a client held the mutex while the task was not STARTED,
                        \* and the state did not change since

taskVars == <<careful, state, running, thread, lock, holder, using, quiet>>
vars == <<taskVars, pc>>

Threads == Clients \cup Workers

Init ==
  /\ careful \in BOOLEAN
  /\ state = "STOPPED" /\ running = FALSE /\ thread = NONE
  /\ lock = NONE
  /\ holder = [l \in Locks |-> NONE]
  /\ using = [w \in Workers |-> NONE]
  /\ pc = [t \in Threads |-> "none"]
  /\ quiet = FALSE

(* The discipline GstPad adds: a stopped task is joined before it is used  *)
(* again (gst_pad_stop_task takes it from the pad first), by one thread    *)
(* (whoever took it); and the pool runs what is pushed.                    *)
MayJoin == careful => \A c \in Clients : pc[c] = "none"
MayUse == MayJoin /\ (careful /\ state = "STOPPED" => ~running)

GoTo(t, step) == pc' = [pc EXCEPT ![t] = step]

WokenStep(step) == IF step = "paused" THEN "resuming" ELSE "join_check"

(* GST_TASK_SIGNAL wakes one of the threads that wait, if there is one: p  *)
(* is what pc becomes besides.                                             *)
Signal(p) ==
  LET waiters == {t \in Threads : pc[t] \in {"paused", "join_wait"}}
  IN  \/ waiters = {} /\ pc' = p
      \/ \E t \in waiters : pc' = [p EXCEPT ![t] = WokenStep(pc[t])]

-----------------------------------------------------------------------------
(* Mutants: a lock replaced under a running task, a resumed thread that    *)
(* does not look at the state again, an exit without signal.               *)
SetLockAlways(c, l) ==
  /\ pc[c] = "none" /\ l # lock
  /\ lock' = l
  /\ UNCHANGED <<careful, state, running, thread, holder, using, quiet, pc>>

ResumeUnchecked(w) ==
  /\ pc[w] = "resumed"
  /\ GoTo(w, "func")
  /\ UNCHANGED taskVars

ExitSilently(w) ==
  /\ pc[w] = "exit"
  /\ running' = FALSE
  /\ using' = [using EXCEPT ![w] = NONE]
  /\ GoTo(w, "none")
  /\ UNCHANGED <<careful, state, thread, lock, holder, quiet>>

-----------------------------------------------------------------------------
(* start_task: push gst_task_func on the pool.  When that fails the flag   *)
(* stays.                                                                  *)
Schedule ==
  /\ running' = TRUE
  /\ \/ \E w \in Workers : pc[w] = "none" /\ GoTo(w, "scheduled")
     \/ ~careful /\ UNCHANGED pc

(* Mutant: no signal for the paused thread. *)
SetStateSilently(new) ==
  /\ state # new
  /\ state' = new
  /\ \/ state = "STOPPED" /\ ~running /\ Schedule
     \/ (running \/ state # "STOPPED") /\ UNCHANGED <<running, pc>>
  /\ quiet' = FALSE
  /\ UNCHANGED <<careful, thread, lock, holder, using>>

(* gst_task_set_state, holding the object lock: a new thread only when     *)
(* none is scheduled, a signal for one that is paused.                     *)
SetState(new) ==
  /\ state # new
  /\ state' = new
  /\ \/ state = "STOPPED" /\ ~running /\ Schedule
     \/ state = "STOPPED" /\ running /\ UNCHANGED <<running, pc>>
     \/ state = "PAUSED" /\ Signal(pc) /\ UNCHANGED running
     \/ state = "STARTED" /\ UNCHANGED <<running, pc>>
  /\ quiet' = FALSE
  /\ UNCHANGED <<careful, thread, lock, holder, using>>

Start(c) == pc[c] = "none" /\ lock # NONE /\ MayUse /\ SetState("STARTED")
Pause(c) == pc[c] = "none" /\ lock # NONE /\ MayUse /\ SetState("PAUSED")
Stop(c)  == pc[c] = "none" /\ SetState("STOPPED")

(* gst_task_set_lock: refused while running. *)
SetLock(c, l) ==
  /\ pc[c] = "none" /\ l # lock
  /\ ~running
  /\ lock' = l
  /\ UNCHANGED <<careful, state, running, thread, holder, using, quiet, pc>>

(* A client takes the task's mutex, as gst_pad_pause_task does to wait for *)
(* the end of the iteration.                                               *)
Hold(c) ==
  /\ pc[c] = "none"
  /\ lock # NONE /\ holder[lock] = NONE
  /\ holder' = [holder EXCEPT ![lock] = c]
  /\ quiet' = (quiet \/ state # "STARTED")
  /\ UNCHANGED <<careful, state, running, thread, lock, using, pc>>

LetGo(c) ==
  \E l \in Locks :
    /\ holder[l] = c
    /\ holder' = [holder EXCEPT ![l] = NONE]
    /\ UNCHANGED <<careful, state, running, thread, lock, using, quiet, pc>>

(* gst_task_join, up to the first g_cond_wait; not with the mutex held.    *)
Join(c) ==
  /\ pc[c] = "none" /\ MayJoin
  /\ \A l \in Locks : holder[l] # c
  /\ state' = "STOPPED"
  /\ quiet' = (quiet /\ state = "STOPPED")
  /\ Signal([pc EXCEPT ![c] = IF running THEN "join_wait" ELSE "none"])
  /\ thread' = IF running THEN thread ELSE NONE
  /\ UNCHANGED <<careful, running, lock, holder, using>>

JoinCheck(c) ==
  /\ pc[c] = "join_check"
  /\ GoTo(c, IF running THEN "join_wait" ELSE "none")
  /\ thread' = IF running THEN thread ELSE NONE
  /\ UNCHANGED <<careful, state, running, lock, holder, using, quiet>>

-----------------------------------------------------------------------------
(* gst_task_func.  A task stopped before its thread runs: exit at once.    *)
Enter(w) ==
  /\ pc[w] = "scheduled"
  /\ \/ state = "STOPPED" /\ GoTo(w, "exit") /\ UNCHANGED <<thread, using>>
     \/ /\ state # "STOPPED"
        /\ thread' = w
        /\ using' = [using EXCEPT ![w] = lock]
        /\ GoTo(w, "locking")
  /\ UNCHANGED <<careful, state, running, lock, holder, quiet>>

Acquire(w) ==
  /\ pc[w] \in {"locking", "resuming"}
  /\ holder[using[w]] = NONE
  /\ holder' = [holder EXCEPT ![using[w]] = w]
  /\ GoTo(w, IF pc[w] = "locking" THEN "loop" ELSE "resumed")
  /\ UNCHANGED <<careful, state, running, thread, lock, using, quiet>>

LetGoMutex(w) == holder' = [holder EXCEPT ![using[w]] = NONE]

(* GET_TASK_STATE, read without the object lock. *)
Loop(w) ==
  /\ pc[w] = "loop"
  /\ \/ state = "STOPPED" /\ LetGoMutex(w) /\ GoTo(w, "leave")
     \/ state = "PAUSED" /\ GoTo(w, "pausing") /\ UNCHANGED holder
     \/ state = "STARTED" /\ GoTo(w, "func") /\ UNCHANGED holder
  /\ UNCHANGED <<careful, state, running, thread, lock, using, quiet>>

FuncReturns(w) ==
  /\ pc[w] = "func"
  /\ GoTo(w, "loop")
  /\ UNCHANGED taskVars

(* The function pauses its own task, as sources do at the end of a stream. *)
FuncPauses(w) ==
  /\ pc[w] = "func" /\ MayUse
  /\ SetState("PAUSED")

(* The mutex is released, the condition signalled and waited on, all under *)
(* the object lock.                                                        *)
GoPaused(w) == LetGoMutex(w) /\ Signal([pc EXCEPT ![w] = "paused"])

(* The state is read again under the object lock; when it is no longer     *)
(* PAUSED the function is called, even if it is STOPPED.                   *)
Pausing(w) ==
  /\ pc[w] = "pausing"
  /\ \/ state = "PAUSED" /\ GoPaused(w)
     \/ state # "PAUSED" /\ GoTo(w, "func") /\ UNCHANGED holder
  /\ UNCHANGED <<careful, state, running, thread, lock, using, quiet>>

Resume(w) ==
  /\ pc[w] = "resumed"
  /\ \/ state = "STOPPED" /\ LetGoMutex(w) /\ GoTo(w, "leave")
     \/ state = "PAUSED" /\ GoPaused(w)
     \/ state = "STARTED" /\ GoTo(w, "func") /\ UNCHANGED holder
  /\ UNCHANGED <<careful, state, running, thread, lock, using, quiet>>

(* g_cond_wait may return without a signal. *)
Spurious(t) ==
  /\ pc[t] \in {"paused", "join_wait"}
  /\ GoTo(t, WokenStep(pc[t]))
  /\ UNCHANGED taskVars

(* Then leave_thread runs without a lock.                                  *)
Leave(w) ==
  /\ pc[w] = "leave"
  /\ thread' = NONE
  /\ GoTo(w, "exit")
  /\ UNCHANGED <<careful, state, running, lock, holder, using, quiet>>

Exit(w) ==
  /\ pc[w] = "exit"
  /\ running' = FALSE
  /\ using' = [using EXCEPT ![w] = NONE]
  /\ Signal([pc EXCEPT ![w] = "none"])
  /\ UNCHANGED <<careful, state, thread, lock, holder, quiet>>

Work(w) ==
  \/ Enter(w) \/ Acquire(w) \/ Loop(w) \/ FuncReturns(w) \/ Pausing(w)
  \/ Resume(w) \/ Leave(w) \/ Exit(w)

Next ==
  \/ \E c \in Clients :
       \/ Start(c) \/ Pause(c) \/ Stop(c) \/ \E l \in Locks : SetLock(c, l)
       \/ Hold(c) \/ LetGo(c) \/ Join(c) \/ JoinCheck(c)
  \/ \E w \in Workers : Work(w) \/ FuncPauses(w)
  \/ \E t \in Threads : Spurious(t)

Spec == Init /\ [][Next]_vars

(* The pool runs its threads; clients finish a join they were woken from   *)
(* and let go of the mutex, which the task's thread gets in the end.       *)
FairSpec ==
  /\ Spec
  /\ \A w \in Workers : WF_vars(Work(w)) /\ SF_vars(Acquire(w))
  /\ \A c \in Clients : WF_vars(JoinCheck(c)) /\ WF_vars(LetGo(c))

-----------------------------------------------------------------------------
TypeOK ==
  /\ state \in {"STARTED", "PAUSED", "STOPPED"}
  /\ {running, quiet} \subseteq BOOLEAN
  /\ thread \in Workers \cup {NONE}
  /\ lock \in Locks \cup {NONE}
  /\ holder \in [Locks -> Threads \cup {NONE}]
  /\ using \in [Workers -> Locks \cup {NONE}]
  /\ \A w \in Workers :
       pc[w] \in {"none", "scheduled", "locking", "loop", "func", "pausing",
                  "paused", "resuming", "resumed", "leave", "exit"}
  /\ \A c \in Clients : pc[c] \in {"none", "join_wait", "join_check"}

(* gst_task_func marks "our state running so that nobody can mess with the *)
(* mutex": a task has one thread at most, only while running, and the      *)
(* mutex that thread took is still the task's.                             *)
OneThread ==
  /\ Cardinality({w \in Workers : pc[w] # "none"}) <= 1
  /\ \A w \in Workers : pc[w] # "none" => running
  /\ \A w \in Workers : using[w] \in {NONE, lock}

(* A client that pauses or stops the task and then takes its mutex knows   *)
(* that the function is not running and will not run while the state stays.*)
QuietAfterPause == quiet => \A w \in Workers : pc[w] # "func"

(* gst_task_join, with the discipline: it returns once the thread has left *)
(* the function, if nobody uses the task again first.                      *)
JoinReturns ==
  \A c \in Clients :
    careful => (pc[c] # "none" ~> (pc[c] = "none" \/ state # "STOPPED"))

(* gst_task_start, with the discipline: the function is called, unless the *)
(* task is paused or stopped again.                                        *)
StartedRuns ==
  careful =>
    (state = "STARTED" ~> (state # "STARTED" \/ \E w \in Workers : pc[w] = "func"))

-----------------------------------------------------------------------------
(* What the comments say of every use holds only with the discipline.      *)

(* gst_task_func: running and "the SIGNAL this is the sign for the _join() *)
(* to complete": no joiner sleeps when the thread has gone.                *)
JoinersWaitForThread == \A c \in Clients : pc[c] = "join_wait" => running

(* start_task, lines 634-635: "mark task as running so that a join will    *)
(* wait until we schedule and exit the task function".                     *)
RunningHasThread == running => \E w \in Workers : pc[w] # "none"

(* gst_task_set_state, lines 692-693: "If the task already has a thread    *)
(* scheduled we don't have to do anything."                                *)
StartedHasThread == state = "STARTED" => running
=============================================================================
