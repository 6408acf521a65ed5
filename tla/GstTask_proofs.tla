--------------------------- MODULE GstTask_proofs ---------------------------
(***************************************************************************)
(* The safety invariants of GstTask hold for any clients, pool threads and *)
(* mutexes, with the discipline of GstPad and without it.  The argument    *)
(* rests on what running protects: a thread is scheduled only when none    *)
(* is, so there is one at most (AtMostOne), the mutex it read stays the    *)
(* task's, and it holds that mutex wherever it may call the function       *)
(* (ThreadLocks).  A client that gets the mutex therefore sees the thread  *)
(* outside of all that, and what it does next depends on the state alone   *)
(* (QuietStrong).                                                          *)
(***************************************************************************)
EXTENDS GstTask, FiniteSetTheorems, TLAPS

(* The domain of pc, which TypeOK leaves open. *)
PcTyped == pc = [t \in Threads |-> pc[t]]

(* A thread of the pool exists only while running, and alone. *)
AtMostOne ==
  /\ \A w \in Workers : pc[w] # "none" => running
  /\ \A v, w \in Workers : pc[v] # "none" /\ pc[w] # "none" => v = w

(* The mutex: a task that was started has one; the thread keeps the one it *)
(* read, and holds it from the test of the state to the next wait.         *)
ThreadLocks ==
  /\ state # "STOPPED" => lock # NONE
  /\ \A w \in Workers :
       /\ pc[w] \in {"none", "scheduled"} => using[w] = NONE
       /\ pc[w] = "exit" => using[w] \in {NONE, lock}
       /\ pc[w] \notin {"none", "scheduled", "exit"} => using[w] = lock /\ lock # NONE
       /\ pc[w] \in {"loop", "func", "pausing", "resumed"} => holder[lock] = w

(* What the thread may be about to do while a client may count on quiet:   *)
(* "pausing" calls the function when the state is no longer PAUSED.        *)
QuietStrong ==
  quiet =>
    /\ state # "STARTED"
    /\ \A w \in Workers :
         pc[w] # "func" /\ (pc[w] = "pausing" => state = "PAUSED")

IInv ==
  /\ TypeOK
  /\ PcTyped
  /\ AtMostOne
  /\ ThreadLocks
  /\ QuietStrong

-----------------------------------------------------------------------------
LEMMA InitIInv == Init => IInv
BY TaskAssumption
   DEF Init, IInv, TypeOK, PcTyped, AtMostOne, ThreadLocks, QuietStrong, Threads

(* A signal moves one waiter at most, out of its wait. *)
LEMMA SignalMoves ==
  ASSUME TypeOK, PcTyped, NEW p, p = [t \in Threads |-> p[t]],
         \A t \in Threads : pc[t] \in {"paused", "join_wait"} => p[t] = pc[t],
         Signal(p)
  PROVE  /\ PcTyped'
         /\ \A t \in Threads :
              \/ pc'[t] = p[t]
              \/ p[t] = "paused" /\ pc'[t] = "resuming"
              \/ p[t] = "join_wait" /\ pc'[t] = "join_check"
BY DEF Signal, PcTyped, WokenStep

(* A signal with nothing else happening to pc is the case p = pc. *)
LEMMA SetStateIInv ==
  ASSUME IInv, NEW new \in {"STARTED", "PAUSED", "STOPPED"}, SetState(new),
         new # "STOPPED" => lock # NONE
  PROVE  IInv'
<1> USE TaskAssumption DEF IInv
<1>1. CASE state = "STOPPED" /\ ~running /\ Schedule
  <2>1. \A w \in Workers : pc[w] = "none" /\ using[w] = NONE
    BY <1>1 DEF AtMostOne, ThreadLocks
  <2>2. /\ PcTyped'
        /\ \A c \in Clients : pc'[c] = pc[c]
        /\ \A w \in Workers : pc'[w] \in {"none", "scheduled"}
        /\ \A v, w \in Workers : pc'[v] # "none" /\ pc'[w] # "none" => v = w
    BY <1>1, <2>1 DEF Schedule, GoTo, PcTyped, Threads
  <2>3. TypeOK'
    BY <1>1, <2>2 DEF SetState, Schedule, TypeOK
  <2>4. AtMostOne'
    BY <1>1, <2>2 DEF Schedule, AtMostOne
  <2>5. ThreadLocks'
    BY <2>1, <2>2 DEF SetState, ThreadLocks
  <2>6. QuietStrong'
    BY DEF SetState, QuietStrong
  <2> QED
    BY <2>2, <2>3, <2>4, <2>5, <2>6
<1>2. CASE UNCHANGED <<running, pc>>
  BY <1>2 DEF SetState, TypeOK, PcTyped, AtMostOne, ThreadLocks, QuietStrong
<1>3. CASE Signal(pc) /\ UNCHANGED running
  <2>1. /\ PcTyped'
        /\ \A t \in Threads :
             \/ pc'[t] = pc[t]
             \/ pc[t] = "paused" /\ pc'[t] = "resuming"
             \/ pc[t] = "join_wait" /\ pc'[t] = "join_check"
    BY <1>3, SignalMoves DEF PcTyped
  <2>2. TypeOK'
    BY <1>3, <2>1 DEF SetState, TypeOK, Threads
  <2>3. AtMostOne'
    BY <1>3, <2>1 DEF SetState, TypeOK, AtMostOne, Threads
  <2>4. ThreadLocks'
    BY <1>3, <2>1 DEF SetState, TypeOK, ThreadLocks, Threads
  <2>5. QuietStrong'
    BY DEF SetState, QuietStrong
  <2> QED
    BY <2>1, <2>2, <2>3, <2>4, <2>5
<1> QED
  BY <1>1, <1>2, <1>3 DEF SetState

(* The clients' actions that touch neither the state nor a signal. *)
LEMMA ClientIInv ==
  ASSUME IInv, NEW c \in Clients,
         \/ \E l \in Locks : SetLock(c, l)
         \/ Hold(c) \/ LetGo(c) \/ JoinCheck(c)
  PROVE  IInv'
<1> USE TaskAssumption DEF IInv
<1>1. CASE \E l \in Locks : SetLock(c, l)
  <2>1. \A w \in Workers : pc[w] = "none"
    BY <1>1 DEF SetLock, AtMostOne
  <2>2. TypeOK' /\ PcTyped' /\ AtMostOne' /\ QuietStrong'
    BY <1>1 DEF SetLock, TypeOK, PcTyped, AtMostOne, QuietStrong
  <2>3. ThreadLocks'
    BY <1>1, <2>1 DEF SetLock, ThreadLocks, TypeOK
  <2> QED
    BY <2>2, <2>3
<1>2. CASE Hold(c)
  <2>1. \A w \in Workers : pc[w] \notin {"loop", "func", "pausing", "resumed"}
    BY <1>2 DEF Hold, TypeOK, ThreadLocks
  <2>2. TypeOK' /\ PcTyped' /\ AtMostOne'
    BY <1>2 DEF Hold, TypeOK, PcTyped, AtMostOne, Threads
  <2>3. ThreadLocks'
    BY <1>2, <2>1 DEF Hold, ThreadLocks
  <2>4. QuietStrong'
    BY <1>2, <2>1 DEF Hold, QuietStrong, TypeOK
  <2> QED
    BY <2>2, <2>3, <2>4
<1>3. CASE LetGo(c)
  <2>1. TypeOK' /\ PcTyped' /\ AtMostOne' /\ QuietStrong'
    BY <1>3 DEF LetGo, TypeOK, PcTyped, AtMostOne, QuietStrong
  <2>2. ThreadLocks'
    BY <1>3 DEF LetGo, ThreadLocks, TypeOK
  <2> QED
    BY <2>1, <2>2
<1>4. CASE JoinCheck(c)
  <2>1. /\ PcTyped'
        /\ \A t \in Threads : t # c => pc'[t] = pc[t]
        /\ pc'[c] \in {"join_wait", "none"}
    BY <1>4 DEF JoinCheck, GoTo, PcTyped, Threads
  <2>2. \A w \in Workers : pc'[w] = pc[w]
    BY <2>1 DEF Threads
  <2>3. TypeOK'
    BY <1>4, <2>1, <2>2 DEF JoinCheck, TypeOK, Threads
  <2>4. AtMostOne' /\ ThreadLocks' /\ QuietStrong'
    BY <1>4, <2>2 DEF JoinCheck, AtMostOne, ThreadLocks, QuietStrong
  <2> QED
    BY <2>1, <2>3, <2>4
<1> QED
  BY <1>1, <1>2, <1>3, <1>4

LEMMA JoinIInv ==
  ASSUME IInv, NEW c \in Clients, Join(c)
  PROVE  IInv'
<1> USE TaskAssumption DEF IInv
<1> DEFINE p == [pc EXCEPT ![c] = IF running THEN "join_wait" ELSE "none"]
<1>1. /\ p = [t \in Threads |-> p[t]]
      /\ p[c] \in {"join_wait", "none"}
      /\ \A t \in Threads : t # c => p[t] = pc[t]
      /\ pc[c] = "none"
      /\ Signal(p)
  BY DEF Join, PcTyped, Threads
<1> HIDE DEF p
<1>2. /\ PcTyped'
      /\ \A t \in Threads :
           \/ pc'[t] = p[t]
           \/ p[t] = "paused" /\ pc'[t] = "resuming"
           \/ p[t] = "join_wait" /\ pc'[t] = "join_check"
  BY <1>1, SignalMoves
<1>3. /\ \A w \in Workers : pc'[w] = pc[w] \/ (pc[w] = "paused" /\ pc'[w] = "resuming")
      /\ \A d \in Clients : pc'[d] \in {"none", "join_wait", "join_check"}
  <2>1. ASSUME NEW w \in Workers
        PROVE  pc'[w] = pc[w] \/ (pc[w] = "paused" /\ pc'[w] = "resuming")
    <3>1. w \in Threads /\ w # c /\ pc[w] # "join_wait"
      BY DEF TypeOK, Threads
    <3>2. p[w] = pc[w]
      BY <1>1, <3>1
    <3> QED
      BY <1>2, <3>1, <3>2
  <2>2. ASSUME NEW d \in Clients
        PROVE  pc'[d] \in {"none", "join_wait", "join_check"}
    <3>1. d \in Threads /\ p[d] \in {"none", "join_wait", "join_check"}
      BY <1>1 DEF TypeOK, Threads
    <3> QED
      BY <1>2, <3>1
  <2> QED
    BY <2>1, <2>2
<1>4. TypeOK'
  BY <1>3 DEF Join, TypeOK
<1>5. AtMostOne'
  BY <1>3 DEF Join, AtMostOne
<1>6. ThreadLocks'
  BY <1>3 DEF Join, ThreadLocks
<1>7. QuietStrong'
  BY <1>3 DEF Join, QuietStrong, TypeOK
<1> QED
  BY <1>2, <1>4, <1>5, <1>6, <1>7

(* Where the thread is about to wait, and where it leaves, it signals.     *)
LEMMA SignallingWorkerIInv ==
  ASSUME IInv, NEW w \in Workers, NEW step \in {"paused", "none"},
         Signal([pc EXCEPT ![w] = step]),
         pc[w] \in {"pausing", "resumed", "exit"},
         UNCHANGED <<state, thread, lock, quiet>>,
         \/ step = "paused" /\ pc[w] # "exit" /\ LetGoMutex(w) /\ UNCHANGED <<running, using>>
         \/ /\ step = "none" /\ running' = FALSE /\ UNCHANGED holder
            /\ using' = [using EXCEPT ![w] = NONE]
  PROVE  IInv'
<1> USE TaskAssumption DEF IInv
<1> DEFINE p == [pc EXCEPT ![w] = step]
<1>1. /\ p = [t \in Threads |-> p[t]]
      /\ p[w] = step
      /\ \A t \in Threads : t # w => p[t] = pc[t]
      /\ Signal(p)
  BY DEF PcTyped, Threads
<1> HIDE DEF p
<1>2. /\ PcTyped'
      /\ \A t \in Threads :
           \/ pc'[t] = p[t]
           \/ p[t] = "paused" /\ pc'[t] = "resuming"
           \/ p[t] = "join_wait" /\ pc'[t] = "join_check"
  BY <1>1, SignalMoves
<1>3. /\ IF step = "none" THEN pc'[w] = "none" ELSE pc'[w] \in {"paused", "resuming"}
      /\ \A v \in Workers : v # w => pc[v] = "none" /\ pc'[v] = "none"
      /\ \A d \in Clients : pc'[d] \in {"none", "join_wait", "join_check"}
  <2>1. IF step = "none" THEN pc'[w] = "none" ELSE pc'[w] \in {"paused", "resuming"}
    BY <1>1, <1>2 DEF Threads
  <2>2. ASSUME NEW v \in Workers, v # w
        PROVE  pc[v] = "none" /\ pc'[v] = "none"
    BY <1>1, <1>2, <2>2 DEF AtMostOne, Threads
  <2>3. ASSUME NEW d \in Clients
        PROVE  pc'[d] \in {"none", "join_wait", "join_check"}
    <3>1. d \in Threads /\ p[d] \in {"none", "join_wait", "join_check"}
      BY <1>1 DEF TypeOK, Threads
    <3> QED
      BY <1>2, <3>1
  <2> QED
    BY <2>1, <2>2, <2>3
<1>4. using[w] \in {NONE, lock}
  BY DEF ThreadLocks
<1>5. TypeOK'
  BY <1>3 DEF TypeOK, LetGoMutex
<1>6. AtMostOne'
  BY <1>3 DEF AtMostOne
<1>7. ThreadLocks'
  BY <1>3 DEF ThreadLocks, TypeOK
<1>8. QuietStrong'
  BY <1>3 DEF QuietStrong
<1> QED
  BY <1>2, <1>5, <1>6, <1>7, <1>8

(* The other steps of the thread: no signal, only the thread's own pc.     *)
LEMMA QuietWorkerIInv ==
  ASSUME IInv, NEW w \in Workers,
         \/ Enter(w) \/ Acquire(w) \/ Loop(w) \/ FuncReturns(w) \/ Leave(w)
         \/ Pausing(w) /\ state # "PAUSED"
         \/ Resume(w) /\ state # "PAUSED"
         \/ Spurious(w)
  PROVE  IInv'
<1> USE TaskAssumption DEF IInv
<1>1. /\ pc[w] # "none"
      /\ \A v \in Workers : v # w => pc[v] = "none"
      /\ running
  BY DEF Enter, Acquire, Loop, FuncReturns, Leave, Pausing, Resume, Spurious, AtMostOne
<1>2. PICK step : pc' = [pc EXCEPT ![w] = step]
  BY DEF Enter, Acquire, Loop, FuncReturns, Leave, Pausing, Resume, Spurious, GoTo
<1>3. /\ PcTyped'
      /\ pc'[w] = step
      /\ \A t \in Threads : t # w => pc'[t] = pc[t]
  BY <1>2 DEF PcTyped, Threads
<1>4. /\ \A v \in Workers : v # w => pc'[v] = "none"
      /\ \A c \in Clients : pc'[c] = pc[c]
  BY <1>1, <1>3 DEF Threads
<1>5. UNCHANGED <<state, running, lock, quiet>>
  BY DEF Enter, Acquire, Loop, FuncReturns, Leave, Pausing, Resume, Spurious, taskVars
<1>6. AtMostOne'
  BY <1>1, <1>4, <1>5 DEF AtMostOne
<1>7. CASE Enter(w)
  <2>1. /\ using[w] = NONE /\ UNCHANGED holder
        /\ \/ pc'[w] = "exit" /\ UNCHANGED <<thread, using>>
           \/ /\ pc'[w] = "locking" /\ lock # NONE
              /\ thread' = w /\ using' = [using EXCEPT ![w] = lock]
    BY <1>7, <1>3 DEF Enter, GoTo, PcTyped, Threads, ThreadLocks
  <2>2. TypeOK'
    BY <1>4, <1>5, <2>1 DEF TypeOK
  <2>3. ThreadLocks' /\ QuietStrong'
    BY <1>1, <1>4, <1>5, <2>1 DEF TypeOK, ThreadLocks, QuietStrong
  <2> QED
    BY <1>3, <1>6, <2>2, <2>3
<1>8. CASE Acquire(w)
  <2>1. pc'[w] \in {"loop", "resumed"} /\ using[w] = lock /\ lock \in Locks
    BY <1>8, <1>1, <1>3 DEF Acquire, GoTo, PcTyped, Threads, ThreadLocks, TypeOK
  <2>2. TypeOK'
    BY <1>8, <1>4, <1>5, <2>1 DEF Acquire, TypeOK, Threads
  <2>3. ThreadLocks' /\ QuietStrong'
    BY <1>8, <1>1, <1>4, <1>5, <2>1 DEF Acquire, TypeOK, ThreadLocks, QuietStrong
  <2> QED
    BY <1>3, <1>6, <2>2, <2>3
<1>9. CASE \/ Loop(w) \/ FuncReturns(w)
           \/ Pausing(w) /\ state # "PAUSED"
           \/ Resume(w) /\ state # "PAUSED"
  <2>1. /\ pc[w] \in {"loop", "func", "pausing", "resumed"}
        /\ using[w] = lock /\ lock \in Locks /\ holder[lock] = w
    BY <1>9 DEF Loop, FuncReturns, Pausing, Resume, ThreadLocks, TypeOK
  <2>2. /\ pc'[w] \in {"leave", "pausing", "func", "loop"}
        /\ UNCHANGED <<thread, using>>
        /\ \/ pc'[w] = "leave" /\ LetGoMutex(w)
           \/ UNCHANGED holder
    <3>1. CASE Loop(w)
      BY <3>1, <1>3 DEF Loop, GoTo, PcTyped, Threads
    <3>2. CASE FuncReturns(w)
      BY <3>2, <1>3 DEF FuncReturns, GoTo, PcTyped, Threads, taskVars
    <3>3. CASE Pausing(w) /\ state # "PAUSED"
      BY <3>3, <1>3 DEF Pausing, GoTo, PcTyped, Threads
    <3>4. CASE Resume(w) /\ state # "PAUSED"
      BY <3>4, <1>3 DEF Resume, GoTo, PcTyped, Threads
    <3> QED
      BY <3>1, <3>2, <3>3, <3>4, <1>9
  <2>3. TypeOK'
    BY <1>4, <1>5, <2>1, <2>2 DEF TypeOK, LetGoMutex
  <2>4. ThreadLocks'
    BY <1>1, <1>4, <1>5, <2>1, <2>2 DEF TypeOK, ThreadLocks, LetGoMutex
  <2>5. QuietStrong'
    <3>1. CASE Loop(w)
      BY <3>1, <1>3, <1>4, <1>5 DEF Loop, GoTo, QuietStrong, PcTyped, Threads
    <3>2. CASE FuncReturns(w)
      BY <3>2, <1>3, <1>4, <1>5 DEF FuncReturns, GoTo, QuietStrong
    <3>3. CASE Pausing(w) /\ state # "PAUSED"
      BY <3>3, <1>3, <1>4, <1>5 DEF Pausing, GoTo, QuietStrong, PcTyped, Threads
    <3>4. CASE Resume(w) /\ state # "PAUSED"
      BY <3>4, <1>3, <1>4, <1>5 DEF Resume, GoTo, QuietStrong, PcTyped, Threads
    <3> QED
      BY <3>1, <3>2, <3>3, <3>4, <1>9
  <2> QED
    BY <1>3, <1>6, <2>3, <2>4, <2>5
<1>10. CASE Leave(w)
  <2>1. pc'[w] = "exit"
    BY <1>10, <1>3 DEF Leave, GoTo, PcTyped, Threads
  <2>2. TypeOK' /\ ThreadLocks' /\ QuietStrong'
    BY <1>10, <1>1, <1>4, <1>5, <2>1 DEF Leave, TypeOK, ThreadLocks, QuietStrong
  <2> QED
    BY <1>3, <1>6, <2>2
<1>11. CASE Spurious(w)
  <2>1. pc[w] = "paused" /\ pc'[w] = "resuming"
    BY <1>11, <1>3 DEF Spurious, GoTo, WokenStep, TypeOK, PcTyped, Threads
  <2>2. TypeOK' /\ ThreadLocks' /\ QuietStrong'
    BY <1>11, <1>1, <1>4, <1>5, <2>1 DEF Spurious, taskVars, TypeOK, ThreadLocks, QuietStrong
  <2> QED
    BY <1>3, <1>6, <2>2
<1> QED
  BY <1>7, <1>8, <1>9, <1>10, <1>11

(* A joiner that wakes for no reason. *)
LEMMA SpuriousJoinerIInv ==
  ASSUME IInv, NEW c \in Clients, Spurious(c)
  PROVE  IInv'
<1> USE TaskAssumption DEF IInv
<1>1. /\ PcTyped'
      /\ pc'[c] = "join_check"
      /\ \A t \in Threads : t # c => pc'[t] = pc[t]
  BY DEF Spurious, GoTo, WokenStep, TypeOK, PcTyped, Threads
<1>2. \A w \in Workers : pc'[w] = pc[w]
  BY <1>1 DEF Threads
<1>3. TypeOK'
  BY <1>1, <1>2 DEF Spurious, taskVars, TypeOK, Threads
<1>4. AtMostOne' /\ ThreadLocks' /\ QuietStrong'
  BY <1>2 DEF Spurious, taskVars, AtMostOne, ThreadLocks, QuietStrong
<1> QED
  BY <1>1, <1>3, <1>4

LEMMA NextIInv == IInv /\ [Next]_vars => IInv'
<1> SUFFICES ASSUME IInv, [Next]_vars
             PROVE  IInv'
  OBVIOUS
<1>1. ASSUME NEW c \in Clients, Start(c) \/ Pause(c) \/ Stop(c)
      PROVE  IInv'
  BY <1>1, SetStateIInv DEF Start, Pause, Stop
<1>2. ASSUME NEW c \in Clients,
             (\E l \in Locks : SetLock(c, l)) \/ Hold(c) \/ LetGo(c) \/ JoinCheck(c)
      PROVE  IInv'
  BY <1>2, ClientIInv
<1>3. ASSUME NEW c \in Clients, Join(c)
      PROVE  IInv'
  BY <1>3, JoinIInv
<1>4. ASSUME NEW w \in Workers, Work(w)
      PROVE  IInv'
  <2>1. CASE \/ Enter(w) \/ Acquire(w) \/ Loop(w) \/ FuncReturns(w) \/ Leave(w)
             \/ Pausing(w) /\ state # "PAUSED"
             \/ Resume(w) /\ state # "PAUSED"
    BY <2>1, QuietWorkerIInv
  <2>2. CASE (Pausing(w) \/ Resume(w)) /\ state = "PAUSED"
    <3>1. /\ GoPaused(w) /\ pc[w] \in {"pausing", "resumed"}
          /\ UNCHANGED <<running, using, state, thread, lock, quiet>>
      BY <2>2 DEF Pausing, Resume
    <3> QED
      BY <3>1, SignallingWorkerIInv DEF GoPaused
  <2>3. CASE Exit(w)
    BY <2>3, SignallingWorkerIInv DEF Exit
  <2> QED
    BY <1>4, <2>1, <2>2, <2>3 DEF Work
<1>5. ASSUME NEW w \in Workers, FuncPauses(w)
      PROVE  IInv'
  <2>1. lock # NONE
    BY <1>5 DEF FuncPauses, IInv, ThreadLocks
  <2> QED
    BY <1>5, <2>1, SetStateIInv DEF FuncPauses
<1>6. ASSUME NEW t \in Threads, Spurious(t)
      PROVE  IInv'
  BY <1>6, QuietWorkerIInv, SpuriousJoinerIInv DEF Threads
<1>7. CASE UNCHANGED vars
  BY <1>7
     DEF vars, taskVars, IInv, TypeOK, PcTyped, AtMostOne, ThreadLocks, QuietStrong
<1> QED
  BY <1>1, <1>2, <1>3, <1>4, <1>5, <1>6, <1>7 DEF Next

LEMMA Inductive == Spec => []IInv
BY InitIInv, NextIInv, PTL DEF Spec

(* A set whose members are all equal has one member at most. *)
LEMMA AtMostOneMember ==
  ASSUME NEW S, \A a, b \in S : a = b
  PROVE  Cardinality(S) <= 1
<1>1. CASE S = {}
  BY <1>1, FS_EmptySet
<1>2. CASE S # {}
  <2>1. PICK a \in S : TRUE
    BY <1>2
  <2>2. S = {a}
    BY <2>1
  <2>3. Cardinality({a}) = 1
    BY FS_Singleton
  <2> QED
    BY <2>2, <2>3
<1> QED
  BY <1>1, <1>2

-----------------------------------------------------------------------------
(* Every variable of a task keeps its type. *)
THEOREM TypeCorrect == Spec => []TypeOK
<1>1. IInv => TypeOK
  BY DEF IInv
<1> QED
  BY <1>1, Inductive, PTL

(* gst_task_func: a task has one thread at most, only while running, and   *)
(* the mutex that thread took is still the task's.                         *)
THEOREM AtMostOneThread == Spec => []OneThread
<1>1. ASSUME IInv
      PROVE  OneThread
  <2>1. Cardinality({w \in Workers : pc[w] # "none"}) <= 1
    BY <1>1, AtMostOneMember DEF IInv, AtMostOne
  <2>2. \A w \in Workers : pc[w] # "none" => running
    BY <1>1 DEF IInv, AtMostOne
  <2>3. \A w \in Workers : using[w] \in {NONE, lock}
    BY <1>1 DEF IInv, ThreadLocks
  <2> QED
    BY <2>1, <2>2, <2>3 DEF OneThread
<1> QED
  BY <1>1, Inductive, PTL

(* gst_task_pause and gst_task_stop followed by taking the task's mutex:   *)
(* the function is not running, and will not run while the state stays.    *)
THEOREM QuietIsKept == Spec => []QuietAfterPause
<1>1. IInv => QuietAfterPause
  BY DEF IInv, QuietStrong, QuietAfterPause
<1> QED
  BY <1>1, Inductive, PTL
=============================================================================
