------------------------ MODULE GstBufferPool_proofs ------------------------
(***************************************************************************)
(* The safety invariants of GstBufferPool hold for every finite set of     *)
(* threads, any configurations and any bound on the buffers, and the pool  *)
(* is a client of the timer poll, so that what GstPollTimer_proofs proves  *)
(* of such clients holds of it.                                            *)
(*                                                                         *)
(* The argument: rec_lock orders everything that starts, stops and flushes *)
(* (LockSteps), so flushing is the converse of active except while a       *)
(* deactivation is under way (FlushingUnlessActive); buffers are freed     *)
(* only by the holder of the lock and only in a pool that is not active    *)
(* any more (StartedKeeps).  Counting is one fact: a step of a thread t    *)
(* changes pc at t only.                                                   *)
(***************************************************************************)
EXTENDS GstBufferPool, FiniteSetTheorems, SequenceTheorems, TLAPS

DeactSteps == {"deact_write", "deact_check", "deact_stop", "deact_stop_read"}
StopSteps == {"stop", "stop_read", "deact_stop", "deact_stop_read"}
StartSteps == {"start", "start_write"}
LockSteps == DeactSteps \cup StopSteps \cup StartSteps \cup {"act_read", "act_clear", "dec_recheck"}

CountedSteps == {"acq_flushing", "acq_pop", "wait", "rel_write", "dec"}
Counted == {t \in Threads : pc[t] \in CountedSteps}

Step(t) ==
  SetConfig(t) \/ Activate(t) \/ Deactivate(t) \/ Acquire(t) \/ ReleaseBuffer(t) \/ Continue(t)

(* The calls under way before gst_buffer_pool_init returns, and before the *)
(* first set_config: nothing can have been allocated.                      *)
BeforeConfig ==
  /\ \A t \in Threads : pc[t] \in {"init", "init_write"} =>
       /\ config = NONE /\ lock = NONE
       /\ \A u \in Threads : u # t => pc[u] = "none"
  /\ (\E t \in Threads : pc[t] = "init") => ~flushing
  /\ config = NONE =>
       /\ queue = <<>> /\ held = <<>> /\ ~started /\ ~active
       /\ flushing \/ \E t \in Threads : pc[t] = "init"
       /\ \A t \in Threads : pc[t] \in {"none", "init", "init_write", "acq_flushing", "dec",
                                        "dec_flushing", "dec_lock", "dec_recheck", "stop"}

(* rec_lock is held exactly within the calls that take it. *)
LockHeld == \A t \in Threads : lock = t <=> pc[t] \in LockSteps

FlushingUnlessActive ==
  /\ \A t \in Threads : pc[t] \in DeactSteps => active /\ flushing
  /\ \A t \in Threads : pc[t] \in StopSteps \ DeactSteps => flushing
  /\ \A t \in Threads : pc[t] \in StartSteps \cup {"act_read", "act_clear"} => flushing
  /\ (\A t \in Threads : pc[t] \notin DeactSteps \cup {"init"}) => active = ~flushing
  /\ (\E t \in Threads : pc[t] = "init") => ~active

(* What a start allocated is there until a stop frees it: a start counts   *)
(* down what is missing, a pool that is started misses nothing.            *)
StartedKeeps ==
  /\ active => started
  /\ \A t \in Threads :
       /\ pc[t] \in {"act_read", "act_clear"} => started
       /\ pc[t] \in StartSteps => config # NONE
       /\ pc[t] \in StartSteps =>
            IF started THEN left[t] = 0 ELSE Len(queue) + Len(held) + left[t] >= config.min
  /\ started /\ (\A t \in Threads : pc[t] \notin StopSteps) =>
       Len(queue) + Len(held) >= preallocated

IInv ==
  /\ TypeOK
  /\ OutstandingCounts
  /\ Len(queue) + Len(held) <= MaxBuffers
  /\ BeforeConfig
  /\ LockHeld
  /\ FlushingUnlessActive
  /\ StartedKeeps

-----------------------------------------------------------------------------
LEMMA WritesReads ==
  /\ DOMAIN Writes = {"init_write", "start_write", "deact_write", "rel_write"}
  /\ Writes["init_write"] = "none" /\ Writes["start_write"] = "start"
  /\ Writes["deact_write"] = "deact_check" /\ Writes["rel_write"] = "dec"
  /\ DOMAIN Reads = {"act_read", "acq_read", "stop_read", "deact_stop_read"}
  /\ Reads["act_read"] = "act_clear" /\ Reads["acq_read"] = "none"
  /\ Reads["stop_read"] = "stop" /\ Reads["deact_stop_read"] = "deact_stop"
BY DEF Writes, Reads

(* What a step does to flushing, active, started and the lock.             *)
LEMMA OrderStep ==
  ASSUME IInv, NEW t \in Threads, Step(t)
  PROVE  BeforeConfig' /\ LockHeld' /\ FlushingUnlessActive'
<1> USE ConfigsAssumption
    DEF IInv, BeforeConfig, LockHeld, FlushingUnlessActive, TypeOK, Steps, StopSteps,
        DeactSteps, StartSteps, LockSteps, At, GoTo, Call, Constructed, ctlVars, poolVars, startVars
<1>1. CASE Construct(t)
  BY <1>1, WritesReads DEF Construct
<1>2. CASE SetConfig(t)
  BY <1>2, WritesReads DEF SetConfig
<1>3. CASE Activate(t)
  BY <1>3, WritesReads DEF Activate
<1>4. CASE StartAlloc(t)
  <2>1. BeforeConfig'
    BY <1>4, WritesReads DEF StartAlloc
  <2>2. LockHeld'
    BY <1>4, WritesReads DEF StartAlloc
  <2>3. FlushingUnlessActive'
    BY <1>4, WritesReads DEF StartAlloc
  <2> QED
    BY <2>1, <2>2, <2>3
<1>5. CASE StartFails(t)
  BY <1>5, WritesReads DEF StartFails
<1>6. CASE StartDone(t)
  <2>1. BeforeConfig'
    BY <1>6, WritesReads DEF StartDone
  <2>2. LockHeld'
    BY <1>6, WritesReads DEF StartDone
  <2>3. FlushingUnlessActive'
    BY <1>6, WritesReads DEF StartDone
  <2> QED
    BY <2>1, <2>2, <2>3
<1>7. CASE ActivateDone(t)
  <2>1. BeforeConfig'
    BY <1>7, WritesReads DEF ActivateDone
  <2>2. LockHeld'
    BY <1>7, WritesReads DEF ActivateDone
  <2>3. \A u \in Threads : u # t => pc[u] \notin LockSteps \cup {"init", "init_write"}
    BY <1>7 DEF ActivateDone
  <2>4. FlushingUnlessActive'
    BY <1>7, <2>3 DEF ActivateDone
  <2> QED
    BY <2>1, <2>2, <2>4
<1>8. CASE Deactivate(t)
  <2>1. BeforeConfig'
    BY <1>8, WritesReads DEF Deactivate
  <2>2. LockHeld'
    BY <1>8, WritesReads DEF Deactivate
  <2>3. \A u \in Threads : u # t => pc[u] \notin LockSteps \cup {"init", "init_write"}
    BY <1>8 DEF Deactivate
  <2>4. FlushingUnlessActive'
    BY <1>8, <2>3 DEF Deactivate
  <2> QED
    BY <2>1, <2>2, <2>4
<1>9. CASE DeactivateCheck(t)
  <2>1. BeforeConfig'
    BY <1>9, WritesReads DEF DeactivateCheck
  <2>2. LockHeld'
    BY <1>9, WritesReads DEF DeactivateCheck
  <2>3. \A u \in Threads : u # t => pc[u] \notin LockSteps \cup {"init", "init_write"}
    BY <1>9 DEF DeactivateCheck
  <2>4. FlushingUnlessActive'
    BY <1>9, <2>3 DEF DeactivateCheck
  <2> QED
    BY <2>1, <2>2, <2>4
<1>10. CASE StopPop(t)
  BY <1>10, WritesReads DEF StopPop
<1>11. CASE StopDone(t)
  <2>1. BeforeConfig'
    BY <1>11, WritesReads DEF StopDone
  <2>2. LockHeld'
    BY <1>11, WritesReads DEF StopDone
  <2>3. \A u \in Threads : u # t => pc[u] \notin LockSteps \cup {"init", "init_write"}
    BY <1>11 DEF StopDone
  <2>4. FlushingUnlessActive'
    BY <1>11, <2>3 DEF StopDone
  <2> QED
    BY <2>1, <2>2, <2>4
<1>12. CASE Acquire(t)
  BY <1>12, WritesReads DEF Acquire
<1>13. CASE AcquireFlushing(t)
  BY <1>13, WritesReads DEF AcquireFlushing
<1>14. CASE AcquirePop(t)
  BY <1>14, WritesReads DEF AcquirePop
<1>15. CASE AcquireAlloc(t)
  <2>1. BeforeConfig'
    BY <1>15, WritesReads DEF AcquireAlloc
  <2>2. LockHeld'
    BY <1>15, WritesReads DEF AcquireAlloc
  <2>3. FlushingUnlessActive'
    BY <1>15, WritesReads DEF AcquireAlloc
  <2> QED
    BY <2>1, <2>2, <2>3
<1>16. CASE AcquireAllocFails(t)
  BY <1>16, WritesReads DEF AcquireAllocFails
<1>17. CASE AcquireEmpty(t)
  BY <1>17, WritesReads DEF AcquireEmpty
<1>18. CASE AcquireWoken(t)
  BY <1>18, WritesReads DEF AcquireWoken
<1>19. CASE ReleaseBuffer(t)
  BY <1>19, WritesReads DEF ReleaseBuffer
<1>20. CASE DecOutstanding(t)
  BY <1>20, WritesReads DEF DecOutstanding
<1>21. CASE DecFlushing(t)
  BY <1>21, WritesReads DEF DecFlushing
<1>22. CASE DecLock(t)
  BY <1>22, WritesReads DEF DecLock
<1>23. CASE DecRecheck(t)
  BY <1>23, WritesReads DEF DecRecheck
<1>24. CASE WriteControl(t)
  BY <1>24, WritesReads DEF WriteControl, Raise
<1>25. CASE ReadControl(t)
  BY <1>25, WritesReads DEF ReadControl, Release
<1>26. CASE SocketCall(t)
  BY <1>26, WritesReads DEF SocketCall, FinishControl, WakeEvent, ReleaseEvent
<1> QED
  BY <1>1, <1>2, <1>3, <1>4, <1>5, <1>6, <1>7, <1>8, <1>9, <1>10, <1>11, <1>12, <1>13, <1>14, <1>15, <1>16, <1>17, <1>18, <1>19, <1>20, <1>21, <1>22, <1>23, <1>24, <1>25, <1>26 DEF Step, Continue

(* Releasing the i-th of the buffers users have. *)
LEMMA RemoveOne ==
  ASSUME NEW S, NEW s \in Seq(S), NEW i \in DOMAIN s
  PROVE  RemoveAt(s, i) \in Seq(S) /\ Len(RemoveAt(s, i)) = Len(s) - 1
<1>1. i \in 1..Len(s) /\ Len(s) \in Nat
  OBVIOUS
<1>2. SubSeq(s, 1, i - 1) \in Seq(S) /\ Len(SubSeq(s, 1, i - 1)) = i - 1
  BY <1>1, SubSeqProperties
<1>3. SubSeq(s, i + 1, Len(s)) \in Seq(S) /\ Len(SubSeq(s, i + 1, Len(s))) = Len(s) - i
  BY <1>1, SubSeqProperties
<1> DEFINE a == SubSeq(s, 1, i - 1)
           b == SubSeq(s, i + 1, Len(s))
<1>4. RemoveAt(s, i) = a \o b
  BY DEF RemoveAt
<1>5. a \in Seq(S) /\ b \in Seq(S) /\ Len(a) = i - 1 /\ Len(b) = Len(s) - i
  BY <1>2, <1>3
<1> HIDE DEF a, b
<1>6. a \o b \in Seq(S) /\ Len(a \o b) = Len(a) + Len(b)
  BY <1>5, ConcatProperties
<1> QED
  BY <1>1, <1>4, <1>5, <1>6

(* What a step does to the buffers: they never outnumber MaxBuffers. *)
LEMMA BufferStep ==
  ASSUME IInv, NEW t \in Threads, Step(t)
  PROVE  /\ queue' \in Seq(Configs) /\ held' \in Seq(Configs)
         /\ Len(queue') + Len(held') <= MaxBuffers
<1> USE ConfigsAssumption, AllocAssumption
<1>1. /\ queue \in Seq(Configs) /\ held \in Seq(Configs)
      /\ Len(queue) \in Nat /\ Len(held) \in Nat
      /\ Len(queue) + Len(held) <= MaxBuffers
      /\ config \in Configs \cup {NONE}
  BY DEF IInv, TypeOK
<1>2. CASE StartAlloc(t)
  <2>1. config \in Configs
    BY <1>2 DEF StartAlloc, IInv, TypeOK, StartedKeeps, StartSteps, At
  <2> QED
    BY <1>1, <1>2, <2>1 DEF StartAlloc
<1>3. CASE AcquireAlloc(t)
  <2>1. config \in Configs
    BY <1>3 DEF AcquireAlloc, IInv, TypeOK, BeforeConfig, At
  <2> QED
    BY <1>1, <1>3, <2>1 DEF AcquireAlloc
<1>4. CASE AcquirePop(t)
  BY <1>1, <1>4 DEF AcquirePop
<1>5. CASE StopPop(t)
  BY <1>1, <1>5 DEF StopPop
<1>6. CASE ReleaseBuffer(t)
  <2>1. PICK i \in DOMAIN held :
          queue' = Append(queue, held[i]) /\ held' = RemoveAt(held, i)
    BY <1>6 DEF ReleaseBuffer
  <2>2. held' \in Seq(Configs) /\ Len(held') = Len(held) - 1
    BY <1>1, <2>1, RemoveOne
  <2>3. queue' \in Seq(Configs) /\ Len(queue') = Len(queue) + 1
    BY <1>1, <2>1
  <2> QED
    BY <1>1, <2>2, <2>3
<1>7. CASE UNCHANGED <<queue, held>>
  BY <1>1, <1>7
<1> QED
  BY <1>2, <1>3, <1>4, <1>5, <1>6, <1>7
  DEF Step, Continue, Construct, SetConfig, Activate, StartFails, StartDone, ActivateDone,
      Deactivate, DeactivateCheck, StopDone, Acquire, AcquireFlushing, AcquireAllocFails,
      AcquireEmpty, AcquireWoken, DecOutstanding, DecFlushing, DecLock, DecRecheck,
      WriteControl, ReadControl, SocketCall, poolVars

(* A set of threads to which one thread may be added or taken out. *)
LEMMA CountUpdate ==
  ASSUME NEW S \in SUBSET Threads, NEW T \in SUBSET Threads, NEW t \in Threads,
         S \ {t} = T \ {t}
  PROVE  /\ Cardinality(S) \in Nat /\ Cardinality(T) \in Nat
         /\ Cardinality(S) <= Cardinality(Threads) /\ Cardinality(Threads) \in Nat
         /\ Cardinality(T) = Cardinality(S) + (IF t \in T THEN 1 ELSE 0)
                                            - (IF t \in S THEN 1 ELSE 0)
<1> DEFINE R == S \ {t}
<1>1. IsFiniteSet(R) /\ t \notin R
  BY FS_Subset, ThreadsAssumption
<1>2. Cardinality(R) \in Nat /\ Cardinality(R \cup {t}) = Cardinality(R) + 1
  <2> HIDE DEF R
  <2> QED
    BY <1>1, FS_CardinalityType, FS_AddElement
<1>3. /\ S = IF t \in S THEN R \cup {t} ELSE R
      /\ T = IF t \in T THEN R \cup {t} ELSE R
  OBVIOUS
<1>4. Cardinality(Threads) \in Nat /\ Cardinality(S) <= Cardinality(Threads)
  BY FS_Subset, FS_CardinalityType, ThreadsAssumption
<1> HIDE DEF R
<1>5. Cardinality(S) = Cardinality(R) + (IF t \in S THEN 1 ELSE 0)
  <2>1. CASE t \in S
    BY <1>2, <1>3, <2>1
  <2>2. CASE t \notin S
    BY <1>2, <1>3, <2>2
  <2> QED
    BY <2>1, <2>2
<1>6. Cardinality(T) = Cardinality(R) + (IF t \in T THEN 1 ELSE 0)
  <2>1. CASE t \in T
    BY <1>2, <1>3, <2>1
  <2>2. CASE t \notin T
    BY <1>2, <1>3, <2>2
  <2> QED
    BY <2>1, <2>2
<1> QED
  BY <1>2, <1>4, <1>5, <1>6

(* A step of t is a step of t: the others keep their place.                *)
LEMMA OwnStep ==
  ASSUME IInv, NEW t \in Threads, Step(t)
  PROVE  /\ pc' \in [Threads -> Steps]
         /\ \A u \in Threads : u # t => pc'[u] = pc[u]
<1> USE DEF IInv, TypeOK, At, Call, GoTo
<1>1. CASE WriteControl(t) \/ ReadControl(t)
  BY <1>1, WritesReads DEF WriteControl, ReadControl, Steps
<1>2. CASE UNCHANGED pc
  BY <1>2
<1>3. CASE Construct(t) \/ Activate(t) \/ StartAlloc(t) \/ StartFails(t) \/ StartDone(t)
  BY <1>3, WritesReads DEF Steps, Construct, Activate, StartAlloc, StartFails, StartDone
<1>8. CASE ActivateDone(t) \/ Deactivate(t) \/ DeactivateCheck(t)
  BY <1>8, WritesReads DEF Steps, ActivateDone, Deactivate, DeactivateCheck
<1>9. CASE StopPop(t) \/ StopDone(t)
  BY <1>9, WritesReads DEF Steps, StopPop, StopDone
<1>4. CASE Acquire(t) \/ AcquireFlushing(t) \/ AcquirePop(t) \/ AcquireAlloc(t)
  BY <1>4, WritesReads DEF Steps, Acquire, AcquireFlushing, AcquirePop, AcquireAlloc
<1>5. CASE AcquireAllocFails(t) \/ AcquireEmpty(t) \/ AcquireWoken(t)
  BY <1>5, WritesReads DEF Steps, AcquireAllocFails, AcquireEmpty, AcquireWoken
<1>6. CASE ReleaseBuffer(t)
  BY <1>6, WritesReads DEF Steps, ReleaseBuffer
<1>7. CASE DecOutstanding(t) \/ DecFlushing(t) \/ DecLock(t) \/ DecRecheck(t)
  BY <1>7, WritesReads DEF Steps, DecOutstanding, DecFlushing, DecLock, DecRecheck
<1> QED
  BY <1>1, <1>2, <1>3, <1>4, <1>5, <1>6, <1>7, <1>8, <1>9 DEF Step, Continue, SetConfig, SocketCall

(* The counter moves with the calls that count and the buffers out. *)
LEMMA CountStep ==
  ASSUME IInv, NEW t \in Threads, Step(t)
  PROVE  /\ OutstandingCounts'
         /\ outstanding' \in 0..MaxBuffers + Cardinality(Threads)
<1> USE ConfigsAssumption, AllocAssumption
<1> DEFINE before == IF pc[t] \in CountedSteps THEN 1 ELSE 0
           after == IF pc'[t] \in CountedSteps THEN 1 ELSE 0
<1>1. /\ pc \in [Threads -> Steps] /\ pc' \in [Threads -> Steps]
      /\ \A u \in Threads : u # t => pc'[u] = pc[u]
  BY OwnStep DEF IInv, TypeOK
<1>2. /\ Cardinality(Counted) \in Nat /\ Cardinality(Counted)' \in Nat
      /\ Cardinality(Counted)' <= Cardinality(Threads) /\ Cardinality(Threads) \in Nat
      /\ Cardinality(Counted)' = Cardinality(Counted) + after - before
  <2> DEFINE S == {u \in Threads : pc[u] \in CountedSteps}
             T == {u \in Threads : pc'[u] \in CountedSteps}
  <2>1. /\ S \in SUBSET Threads /\ T \in SUBSET Threads /\ S \ {t} = T \ {t}
        /\ t \in S <=> pc[t] \in CountedSteps
        /\ t \in T <=> pc'[t] \in CountedSteps
    BY <1>1
  <2> HIDE DEF S, T
  <2>2. /\ Cardinality(S) \in Nat /\ Cardinality(T) \in Nat
        /\ Cardinality(T) <= Cardinality(Threads) /\ Cardinality(Threads) \in Nat
        /\ Cardinality(T) = Cardinality(S) + after - before
    BY <2>1, CountUpdate
  <2> QED
    BY <2>2 DEF S, T, Counted
<1>3. /\ queue \in Seq(Configs) /\ held \in Seq(Configs) /\ held' \in Seq(Configs)
      /\ Len(held) \in Nat /\ Len(held') \in Nat
      /\ Len(held') <= MaxBuffers
      /\ outstanding \in Int /\ outstanding = Len(held) + Cardinality(Counted)
  BY BufferStep, LenProperties DEF IInv, TypeOK, OutstandingCounts, Counted, CountedSteps
<1>4. outstanding' = outstanding + (Len(held') - Len(held)) + after - before
  <2> USE DEF CountedSteps, At, Call, GoTo
  <2>1. CASE Acquire(t)
    BY <1>1, <1>3, <2>1 DEF Acquire, poolVars
  <2>2. CASE AcquirePop(t)
    BY <1>1, <1>3, <2>2 DEF AcquirePop
  <2>3. CASE AcquireAlloc(t)
    <3>1. config \in Configs
      BY <2>3 DEF AcquireAlloc, IInv, TypeOK, BeforeConfig
    <3> QED
      BY <1>1, <1>3, <2>3, <3>1 DEF AcquireAlloc
  <2>4. CASE ReleaseBuffer(t)
    <3>1. PICK i \in DOMAIN held : held' = RemoveAt(held, i)
      BY <2>4 DEF ReleaseBuffer
    <3>2. Len(held') = Len(held) - 1
      BY <1>3, <3>1, RemoveOne
    <3> QED
      BY <1>1, <1>3, <2>4, <3>2 DEF ReleaseBuffer
  <2>5. CASE DecOutstanding(t)
    BY <1>1, <1>3, <2>5 DEF DecOutstanding
  <2>6. CASE UNCHANGED <<outstanding, held>> /\ after = before
    BY <1>3, <2>6
  <2>7. CASE WriteControl(t) \/ ReadControl(t) \/ SocketCall(t)
    <3>1. UNCHANGED <<outstanding, held>>
      BY <2>7 DEF WriteControl, ReadControl, SocketCall, poolVars
    <3>2. after = before
      BY <1>1, <2>7, WritesReads DEF WriteControl, ReadControl, SocketCall
    <3> QED
      BY <2>6, <3>1, <3>2
  <2>8. CASE \/ Construct(t) \/ SetConfig(t) \/ Activate(t) \/ StartAlloc(t) \/ StartFails(t)
             \/ StartDone(t) \/ ActivateDone(t) \/ Deactivate(t) \/ DeactivateCheck(t)
             \/ StopPop(t) \/ StopDone(t)
    <3>1. UNCHANGED <<outstanding, held>>
      BY <2>8
         DEF Construct, SetConfig, Activate, StartAlloc, StartFails, StartDone, ActivateDone,
             Deactivate, DeactivateCheck, StopPop, StopDone
    <3>2. after = before
      BY <1>1, <2>8
         DEF Construct, SetConfig, Activate, StartAlloc, StartFails, StartDone, ActivateDone,
             Deactivate, DeactivateCheck, StopPop, StopDone
    <3> QED
      BY <2>6, <3>1, <3>2
  <2>9. CASE \/ AcquireFlushing(t) \/ AcquireAllocFails(t) \/ AcquireEmpty(t) \/ AcquireWoken(t)
             \/ DecFlushing(t) \/ DecLock(t) \/ DecRecheck(t)
    <3>1. UNCHANGED <<outstanding, held>>
      BY <2>9
         DEF AcquireFlushing, AcquireAllocFails, AcquireEmpty, AcquireWoken, DecFlushing,
             DecLock, DecRecheck, poolVars
    <3>2. after = before
      BY <1>1, <2>9
         DEF AcquireFlushing, AcquireAllocFails, AcquireEmpty, AcquireWoken, DecFlushing,
             DecLock, DecRecheck
    <3> QED
      BY <2>6, <3>1, <3>2
  <2> QED
    BY <2>1, <2>2, <2>3, <2>4, <2>5, <2>7, <2>8, <2>9 DEF Step, Continue
<1>5. outstanding' = Len(held') + Cardinality(Counted)' /\ outstanding' \in Int
  <2>1. before \in Int /\ after \in Int
    OBVIOUS
  <2> DEFINE l == Len(held)
             lp == Len(held')
             k == Cardinality(Counted)
             kp == Cardinality(Counted)'
  <2>2. /\ l \in Nat /\ lp \in Nat /\ k \in Nat /\ kp \in Nat
        /\ outstanding = l + k /\ kp = k + after - before
    BY <1>2, <1>3
  <2>3. outstanding' = outstanding + (lp - l) + after - before
    BY <1>4
  <2> HIDE DEF before, after, l, lp, k, kp
  <2>4. outstanding' = lp + kp /\ outstanding' \in Int
    BY <2>1, <2>2, <2>3
  <2> QED
    BY <2>4 DEF lp, kp
<1>6. outstanding' \in 0..MaxBuffers + Cardinality(Threads)
  BY <1>2, <1>3, <1>5
<1> QED
  BY <1>5, <1>6 DEF OutstandingCounts, Counted, CountedSteps

(* The steps that neither start, nor finish starting, nor stop the pool.   *)
LEMMA KeepOther ==
  ASSUME IInv, NEW t \in Threads,
         \A u \in Threads : u # t => pc'[u] = pc[u],
         Len(queue') + Len(held') \in Nat,
         Len(queue') + Len(held') >= Len(queue) + Len(held),
         active' => active,
         UNCHANGED <<started, preallocated>>,
         \A u \in Threads :
           pc'[u] \in StartSteps => pc[u] \in StartSteps /\ left'[u] = left[u] /\ config' = config,
         pc'[t] \in {"act_read", "act_clear"} => pc[t] \in {"act_read", "act_clear"},
         pc[t] \in StopSteps => pc'[t] \in StopSteps
  PROVE  StartedKeeps'
<1>1. /\ Len(queue) + Len(held) \in Nat /\ preallocated \in Nat
      /\ \A u \in Threads : left[u] \in Nat
      /\ \A u \in Threads : pc[u] \in StartSteps => config # NONE
      /\ config # NONE => config.min \in Nat
  BY ConfigsAssumption DEF IInv, TypeOK, StartedKeeps
<1>2. \A u \in Threads : pc'[u] \in {"act_read", "act_clear"} => started'
  BY DEF IInv, StartedKeeps
<1>3. \A u \in Threads : pc'[u] \in StartSteps =>
        /\ config' # NONE
        /\ IF started' THEN left'[u] = 0 ELSE Len(queue') + Len(held') + left'[u] >= config'.min
  <2> SUFFICES ASSUME NEW u \in Threads, pc'[u] \in StartSteps
               PROVE  /\ config' # NONE
                      /\ IF started' THEN left'[u] = 0
                         ELSE Len(queue') + Len(held') + left'[u] >= config'.min
    OBVIOUS
  <2>1. /\ pc[u] \in StartSteps /\ left'[u] = left[u] /\ config' = config
        /\ IF started THEN left[u] = 0 ELSE Len(queue) + Len(held) + left[u] >= config.min
    BY DEF IInv, StartedKeeps
  <2> QED
    BY <1>1, <2>1
<1>4. started' /\ (\A u \in Threads : pc'[u] \notin StopSteps) =>
        Len(queue') + Len(held') >= preallocated'
  <2> SUFFICES ASSUME started', \A u \in Threads : pc'[u] \notin StopSteps
               PROVE  Len(queue') + Len(held') >= preallocated'
    OBVIOUS
  <2>1. Len(queue) + Len(held) >= preallocated
    BY DEF IInv, StartedKeeps
  <2> QED
    BY <1>1, <2>1
<1>5. active' => started'
  BY DEF IInv, StartedKeeps
<1> QED
  BY <1>2, <1>3, <1>4, <1>5 DEF StartedKeeps

(* What a start, a stop and a user do to the buffers there are. *)
LEMMA KeepStep ==
  ASSUME IInv, NEW t \in Threads, Step(t)
  PROVE  StartedKeeps'
<1>1. /\ queue \in Seq(Configs) /\ held \in Seq(Configs)
      /\ Len(queue) \in Nat /\ Len(held) \in Nat
      /\ pc \in [Threads -> Steps] /\ left \in [Threads -> Nat] /\ preallocated \in Nat
      /\ {flushing, started, active} \subseteq BOOLEAN
      /\ \A c \in Configs : c.min \in Nat
      /\ config \in Configs \cup {NONE}
  BY ConfigsAssumption DEF IInv, TypeOK
<1>2. \A u \in Threads : u # t => pc'[u] = pc[u]
  BY OwnStep
<1>3. \A u \in Threads : lock # NONE /\ lock # u => pc[u] \notin LockSteps
  BY DEF IInv, LockHeld
<1>4. lock = NONE => \A u \in Threads : pc[u] \notin LockSteps
  BY ConfigsAssumption DEF IInv, LockHeld
<1>5. pc[t] \in LockSteps => lock = t /\ lock # NONE
  BY ConfigsAssumption DEF IInv, LockHeld
<1> USE DEF StopSteps, StartSteps, DeactSteps, LockSteps, At, Call, GoTo
<1>6. CASE Activate(t)
  <2>1. /\ pc'[t] = "start" /\ \A u \in Threads : u # t => pc'[u] \notin LockSteps
        /\ left'[t] = (IF started THEN 0 ELSE config.min)
        /\ config # NONE /\ ~active /\ config.min \in Nat
        /\ UNCHANGED <<queue, held, started, active, config, preallocated>>
    BY <1>1, <1>2, <1>4, <1>6 DEF Activate
  <2>2. \A u \in Threads : pc[u] \notin StopSteps
    BY <1>4, <1>6 DEF Activate
  <2> QED
    BY <1>1, <2>1, <2>2 DEF IInv, StartedKeeps
<1>7. CASE StartAlloc(t)
  <2>1. /\ pc[t] = "start" /\ left[t] > 0 /\ ~started /\ config # NONE
        /\ Len(queue) + Len(held) + left[t] >= config.min
    BY <1>7 DEF StartAlloc, IInv, StartedKeeps
  <2>2. /\ pc'[t] = "start_write" /\ \A u \in Threads : u # t => pc'[u] \notin LockSteps
        /\ left'[t] = left[t] - 1
        /\ Len(queue') = Len(queue) + 1
        /\ UNCHANGED <<held, started, active, config, preallocated>>
    BY <1>1, <1>2, <1>3, <1>5, <1>7, <2>1 DEF StartAlloc
  <2> QED
    BY <1>1, <2>1, <2>2 DEF IInv, StartedKeeps
<1>8. CASE StartDone(t)
  <2>1. /\ pc[t] = "start" /\ left[t] = 0 /\ config # NONE
        /\ ~started => Len(queue) + Len(held) + left[t] >= config.min
        /\ \A u \in Threads : pc[u] \notin StopSteps
    <3>1. pc[t] = "start" /\ left[t] = 0
      BY <1>8 DEF StartDone
    <3> QED
      BY <1>3, <1>5, <3>1 DEF IInv, StartedKeeps
  <2>2. /\ pc'[t] = "act_read" /\ \A u \in Threads : u # t => pc'[u] \notin LockSteps
        /\ started' = TRUE
        /\ preallocated' = (IF started THEN preallocated ELSE config.min)
        /\ UNCHANGED <<queue, held, active, config>>
    BY <1>1, <1>2, <1>3, <1>5, <1>8, <2>1 DEF StartDone
  <2> QED
    BY <1>1, <2>1, <2>2 DEF IInv, StartedKeeps
<1>9. CASE ActivateDone(t)
  <2>1. started /\ pc[t] = "act_clear" /\ \A u \in Threads : pc[u] \notin StopSteps
    BY <1>3, <1>5, <1>9 DEF ActivateDone, IInv, StartedKeeps
  <2>2. /\ pc'[t] = "none" /\ \A u \in Threads : pc'[u] \notin LockSteps
        /\ UNCHANGED <<queue, held, started, config, preallocated>>
    BY <1>1, <1>2, <1>3, <1>5, <1>9, <2>1 DEF ActivateDone, startVars
  <2> QED
    BY <1>1, <2>1, <2>2 DEF IInv, StartedKeeps
<1>10. CASE StopPop(t)
  <2>1. /\ pc'[t] \in StopSteps /\ \A u \in Threads : u # t => pc'[u] \notin LockSteps
        /\ started' = started /\ active' = active /\ started
    BY <1>1, <1>2, <1>3, <1>5, <1>10 DEF StopPop
  <2> QED
    BY <2>1 DEF StartedKeeps
<1>11. CASE StopDone(t)
  <2>1. pc'[t] = "none" /\ \A u \in Threads : pc'[u] \notin LockSteps
    BY <1>1, <1>2, <1>3, <1>5, <1>11 DEF StopDone
  <2>2. started' = FALSE /\ active' = FALSE
    <3>1. pc[t] = "stop" => ~active
      <4>1. \A u \in Threads : pc[t] = "stop" => pc[u] \notin DeactSteps \cup {"init"}
        BY <1>3, <1>5 DEF IInv, BeforeConfig
      <4> QED
        BY <4>1 DEF IInv, FlushingUnlessActive
    <3> QED
      BY <1>1, <1>11, <3>1 DEF StopDone
  <2> QED
    BY <2>1, <2>2 DEF StartedKeeps
<1>12. CASE StartFails(t) \/ SetConfig(t)
  <2>1. UNCHANGED <<queue, held, active, started, preallocated>>
    BY <1>12 DEF StartFails, SetConfig, startVars
  <2>2. \A u \in Threads :
          pc'[u] \in StartSteps => pc[u] \in StartSteps /\ left'[u] = left[u] /\ config' = config
    BY <1>1, <1>2, <1>4, <1>12 DEF StartFails, SetConfig
  <2>3. pc'[t] = "none" /\ pc[t] \notin StopSteps
    BY <1>1, <1>12 DEF StartFails, SetConfig
  <2> QED
    BY <1>1, <1>2, <2>1, <2>2, <2>3, KeepOther
<1>13. ASSUME Len(queue') + Len(held') \in Nat,
              Len(queue') + Len(held') >= Len(queue) + Len(held),
              active' => active, UNCHANGED <<started, config, startVars>>,
              pc'[t] \notin StartSteps \ {"start"}, pc'[t] = "start" => pc[t] = "start_write",
              pc'[t] \in {"act_read", "act_clear"} => pc[t] \in {"act_read", "act_clear"},
              pc[t] \in StopSteps => pc'[t] \in StopSteps
       PROVE  StartedKeeps'
  <2>1. \A u \in Threads :
          pc'[u] \in StartSteps => pc[u] \in StartSteps /\ left'[u] = left[u] /\ config' = config
    BY <1>2, <1>13 DEF startVars
  <2> QED
    BY <1>2, <1>13, <2>1, KeepOther DEF startVars
<1>14. CASE AcquirePop(t) \/ AcquireAlloc(t) \/ ReleaseBuffer(t)
  <2>1. /\ Len(queue') + Len(held') \in Nat
        /\ Len(queue') + Len(held') >= Len(queue) + Len(held)
    <3>1. CASE AcquirePop(t)
      BY <1>1, <3>1 DEF AcquirePop
    <3>2. CASE AcquireAlloc(t)
      <4>1. config \in Configs
        BY <1>1, <3>2 DEF AcquireAlloc, IInv, BeforeConfig
      <4> QED
        BY <1>1, <3>2, <4>1 DEF AcquireAlloc
    <3>3. CASE ReleaseBuffer(t)
      <4>1. PICK i \in DOMAIN held :
              queue' = Append(queue, held[i]) /\ held' = RemoveAt(held, i)
        BY <3>3 DEF ReleaseBuffer
      <4>2. Len(held') = Len(held) - 1
        BY <1>1, <4>1, RemoveOne
      <4>3. Len(queue') = Len(queue) + 1
        BY <1>1, <4>1
      <4> QED
        BY <1>1, <4>2, <4>3
    <3> QED
      BY <1>14, <3>1, <3>2, <3>3
  <2>2. /\ UNCHANGED <<active, started, config, startVars>>
        /\ pc[t] \notin StopSteps /\ pc'[t] \in {"acq_read", "none", "rel_write"}
    BY <1>1, <1>14 DEF AcquirePop, AcquireAlloc, ReleaseBuffer
  <2> QED
    BY <1>13, <2>1, <2>2
<1>15. CASE WriteControl(t) \/ ReadControl(t) \/ SocketCall(t)
  <2>1. UNCHANGED poolVars
    BY <1>15 DEF WriteControl, ReadControl, SocketCall
  <2>2. /\ pc'[t] \notin StartSteps \ {"start"} \/ pc' = pc
        /\ pc'[t] = "start" => pc[t] = "start_write" \/ pc' = pc
        /\ pc'[t] \in {"act_read", "act_clear"} => pc[t] \in {"act_read", "act_clear"}
        /\ pc[t] \in StopSteps => pc'[t] \in StopSteps
    BY <1>1, <1>15, WritesReads DEF WriteControl, ReadControl, SocketCall
  <2> QED
    BY <1>1, <1>2, <2>1, <2>2, KeepOther DEF poolVars, startVars
<1>16. CASE \/ Construct(t) \/ Deactivate(t) \/ DeactivateCheck(t) \/ Acquire(t)
            \/ AcquireFlushing(t) \/ AcquireAllocFails(t) \/ AcquireEmpty(t) \/ AcquireWoken(t)
  <2>1. UNCHANGED <<queue, held, started, config, startVars>> /\ (active' => active)
    BY <1>16
       DEF Construct, Deactivate, DeactivateCheck, Acquire, AcquireFlushing, AcquireAllocFails,
           AcquireEmpty, AcquireWoken, poolVars
  <2>2. /\ pc[t] \notin StopSteps
        /\ pc'[t] \notin StartSteps \cup {"act_read", "act_clear"}
    BY <1>1, <1>16
       DEF Construct, Deactivate, DeactivateCheck, Acquire, AcquireFlushing, AcquireAllocFails,
           AcquireEmpty, AcquireWoken
  <2> QED
    BY <1>1, <1>13, <2>1, <2>2
<1>17. CASE DecOutstanding(t) \/ DecFlushing(t) \/ DecLock(t) \/ DecRecheck(t)
  <2>1. UNCHANGED <<queue, held, started, active, config, startVars>>
    BY <1>17 DEF DecOutstanding, DecFlushing, DecLock, DecRecheck, poolVars
  <2>2. /\ pc[t] \notin StopSteps
        /\ pc'[t] \notin StartSteps \cup {"act_read", "act_clear"}
    BY <1>1, <1>17 DEF DecOutstanding, DecFlushing, DecLock, DecRecheck
  <2> QED
    BY <1>1, <1>13, <2>1, <2>2
<1> QED
  BY <1>6, <1>7, <1>8, <1>9, <1>10, <1>11, <1>12, <1>14, <1>15, <1>16, <1>17
  DEF Step, Continue

LEMMA TypeStep ==
  ASSUME IInv, NEW t \in Threads, Step(t)
  PROVE  TypeOK'
<1> USE ConfigsAssumption, AllocAssumption DEF ctlVars, poolVars, startVars, At, Call, GoTo
<1>1. /\ queue' \in Seq(Configs) /\ held' \in Seq(Configs)
      /\ outstanding' \in 0..MaxBuffers + Cardinality(Threads)
      /\ pc' \in [Threads -> Steps]
  BY BufferStep, CountStep, OwnStep
<1>2. ControlTypeOK'
  <2>1. ControlTypeOK
    BY DEF IInv, TypeOK
  <2>2. CASE WriteControl(t)
    BY <2>1, <2>2 DEF WriteControl, Raise, ControlTypeOK
  <2>3. CASE ReadControl(t)
    BY <2>1, <2>3 DEF ReadControl, Release, ControlTypeOK
  <2>4. CASE SocketCall(t)
    BY <2>1, <2>4 DEF SocketCall, FinishControl, WakeEvent, ReleaseEvent, ControlTypeOK
  <2>5. CASE UNCHANGED ctlVars
    BY <2>1, <2>5 DEF ControlTypeOK
  <2> QED
    BY <2>2, <2>3, <2>4, <2>5
    DEF Step, Continue, Construct, SetConfig, Activate, StartAlloc, StartFails, StartDone,
        ActivateDone, Deactivate, DeactivateCheck, StopPop, StopDone, Acquire, AcquireFlushing,
        AcquirePop, AcquireAlloc, AcquireAllocFails, AcquireEmpty, AcquireWoken, ReleaseBuffer,
        DecOutstanding, DecFlushing, DecLock, DecRecheck
<1>3. /\ {flushing', started', active'} \subseteq BOOLEAN
      /\ config' \in Configs \cup {NONE}
      /\ lock' \in Threads \cup {NONE}
      /\ left' \in [Threads -> Nat] /\ preallocated' \in Nat
  <2>1. /\ {flushing, started, active} \subseteq BOOLEAN
        /\ config \in Configs \cup {NONE} /\ lock \in Threads \cup {NONE}
        /\ left \in [Threads -> Nat] /\ preallocated \in Nat
    BY DEF IInv, TypeOK
  <2>2. CASE Activate(t) \/ StartAlloc(t) \/ StartFails(t) \/ SetConfig(t)
    BY <2>1, <2>2 DEF Activate, StartAlloc, StartFails, SetConfig
  <2>3. CASE StartDone(t)
    <3>1. config \in Configs
      BY <2>1, <2>3 DEF StartDone, IInv, StartedKeeps, StartSteps
    <3> QED
      BY <2>1, <2>3, <3>1 DEF StartDone
  <2>4. CASE UNCHANGED <<config, startVars>>
    BY <2>1, <2>4
    DEF Step, Continue, Construct, SetConfig, Activate, StartAlloc, StartFails, StartDone,
        ActivateDone, Deactivate, DeactivateCheck, StopPop, StopDone, Acquire, AcquireFlushing,
        AcquirePop, AcquireAlloc, AcquireAllocFails, AcquireEmpty, AcquireWoken, ReleaseBuffer,
        DecOutstanding, DecFlushing, DecLock, DecRecheck, WriteControl, ReadControl, SocketCall
  <2> QED
    BY <2>2, <2>3, <2>4
    DEF Step, Continue, Construct, SetConfig, Activate, StartAlloc, StartFails, StartDone,
        ActivateDone, Deactivate, DeactivateCheck, StopPop, StopDone, Acquire, AcquireFlushing,
        AcquirePop, AcquireAlloc, AcquireAllocFails, AcquireEmpty, AcquireWoken, ReleaseBuffer,
        DecOutstanding, DecFlushing, DecLock, DecRecheck, WriteControl, ReadControl, SocketCall
<1> QED
  BY <1>1, <1>2, <1>3 DEF TypeOK

LEMMA InitIInv == Init => IInv
<1> SUFFICES ASSUME Init PROVE IInv
  OBVIOUS
<1> USE ConfigsAssumption, AllocAssumption
<1>1. PICK creator \in Threads : pc = [t \in Threads |-> IF t = creator THEN "init" ELSE "none"]
  BY DEF Init
<1>2. Cardinality(Threads) \in Nat /\ Cardinality({}) = 0
  BY ThreadsAssumption, FS_CardinalityType, FS_EmptySet
<1>3. TypeOK
  <2>1. ControlTypeOK
    BY DEF Init, ControlInit, ControlTypeOK
  <2>2. pc \in [Threads -> Steps]
    BY <1>1 DEF Steps
  <2>3. outstanding \in 0..MaxBuffers + Cardinality(Threads)
    BY <1>2 DEF Init
  <2>4. /\ queue = <<>> /\ held = <<>> /\ <<>> \in Seq(Configs)
        /\ flushing = FALSE /\ started = FALSE /\ active = FALSE
        /\ config = NONE /\ lock = NONE
        /\ left = [t \in Threads |-> 0] /\ preallocated = 0
    BY DEF Init
  <2> QED
    BY <2>1, <2>2, <2>3, <2>4 DEF TypeOK
<1>4. OutstandingCounts
  <2>1. Counted = {}
    BY <1>1 DEF Counted, CountedSteps
  <2> QED
    <3>1. outstanding = 0 /\ Len(held) = 0
      BY DEF Init
    <3>2. OutstandingCounts <=> outstanding = Len(held) + Cardinality(Counted)
      BY DEF OutstandingCounts, Counted, CountedSteps
    <3> QED
      BY <1>2, <2>1, <3>1, <3>2
<1>5. Len(queue) + Len(held) <= MaxBuffers
  BY DEF Init
<1>6. BeforeConfig /\ LockHeld /\ FlushingUnlessActive /\ StartedKeeps
  BY <1>1
  DEF Init, BeforeConfig, LockHeld, FlushingUnlessActive, StartedKeeps, LockSteps, DeactSteps,
      StopSteps, StartSteps
<1> QED
  BY <1>3, <1>4, <1>5, <1>6 DEF IInv

LEMMA NextIInv == IInv /\ [Next]_vars => IInv'
<1> SUFFICES ASSUME IInv, [Next]_vars PROVE IInv'
  OBVIOUS
<1>1. ASSUME NEW t \in Threads, Step(t) PROVE IInv'
  BY <1>1, TypeStep, CountStep, BufferStep, OrderStep, KeepStep DEF IInv
<1>2. CASE UNCHANGED vars
  BY <1>2
  DEF vars, ctlVars, poolVars, startVars, IInv, TypeOK, ControlTypeOK, OutstandingCounts,
      BeforeConfig, LockHeld, FlushingUnlessActive, StartedKeeps
<1> QED
  BY <1>1, <1>2 DEF Next, Step

LEMMA Inductive == Spec => []IInv
BY InitIInv, NextIInv, PTL DEF Spec

-----------------------------------------------------------------------------
(* The variables keep their types; the counter of outstanding buffers is   *)
(* never negative and bounded by the buffers and the threads.              *)
THEOREM TypeCorrect == Spec => []TypeOK
<1>1. IInv => TypeOK
  BY DEF IInv
<1> QED
  BY <1>1, Inductive, PTL

(* gst_buffer_pool_acquire_buffer counts a buffer before it looks for one, *)
(* and every call that does not end with one takes it back: the counter is *)
(* the buffers out and the calls that may still get or return one.         *)
THEOREM OutstandingIsCounted == Spec => []OutstandingCounts
<1>1. IInv => OutstandingCounts
  BY DEF IInv
<1> QED
  BY <1>1, Inductive, PTL

(* gst_buffer_pool_set_active: no stop, neither of a deactivation nor of   *)
(* the last release, frees a buffer of a pool that is active again.        *)
THEOREM BuffersAreKept == Spec => []ActiveKeepsBuffers
<1>1. ASSUME IInv PROVE ActiveKeepsBuffers
  <2>1. lock = NONE => \A t \in Threads : pc[t] \notin StopSteps
    BY <1>1, ConfigsAssumption DEF IInv, LockHeld, LockSteps
  <2> QED
    BY <1>1, <2>1 DEF IInv, StartedKeeps, ActiveKeepsBuffers
<1> QED
  BY <1>1, Inductive, PTL

-----------------------------------------------------------------------------
(* The refinement.  What the poll sees of a thread at a step, and of the   *)
(* pool: its entries are the buffers queued and the flushing token.        *)
Todo(step) ==
  IF step \in DOMAIN Writes THEN "write_control"
  ELSE IF step \in DOMAIN Reads THEN "read_control"
  ELSE IF step = "wait" THEN "wait" ELSE "none"

Entries == Len(queue) + Token

(* A step of t that changes what the poll sees of t and of the queue the   *)
(* way one of the client's actions does is a step of GstPollTimer.         *)
LEMMA ClientStep ==
  ASSUME NEW t \in Threads, pc \in [Threads -> Steps],
         \A u \in Threads : u # t => pc'[u] = pc[u],
         \/ /\ ctl[t] = "idle" /\ UNCHANGED ctlVars
            /\ \/ /\ Todo(pc[t]) = "none" /\ Todo(pc'[t]) = "write_control"
                  /\ Entries < MaxBuffers + 1 /\ Entries' = Entries + 1
               \/ /\ Todo(pc[t]) = "none" /\ Todo(pc'[t]) = "read_control"
                  /\ Entries > 0 /\ Entries' = Entries - 1
               \/ /\ Todo(pc[t]) = "none" /\ Todo(pc'[t]) = "wait"
                  /\ Entries' = Entries
               \/ /\ Todo(pc[t]) = "wait" /\ Todo(pc'[t]) = "none" /\ Readable
                  /\ Entries' = Entries
         \/ /\ Todo(pc[t]) = "write_control" /\ Todo(pc'[t]) = "none" /\ Raise(t)
            /\ Entries' = Entries
         \/ /\ Todo(pc[t]) = "read_control" /\ Todo(pc'[t]) = "none" /\ Release(t)
            /\ Entries' = Entries
         \/ FinishControl(t) /\ Todo(pc'[t]) = Todo(pc[t]) /\ Entries' = Entries
         \/ UNCHANGED ctlVars /\ Todo(pc'[t]) = Todo(pc[t]) /\ Entries' = Entries
  PROVE  [Poll!Next]_(Poll!vars)
<1> DEFINE todo == [u \in Threads |-> Todo(pc[u])]
<1>1. todo' = [todo EXCEPT ![t] = Todo(pc'[t])] /\ todo[t] = Todo(pc[t])
  BY DEF Todo
<1>2. CASE /\ ctl[t] = "idle" /\ UNCHANGED ctlVars
           /\ Todo(pc[t]) = "none" /\ Todo(pc'[t]) = "write_control"
           /\ Entries < MaxBuffers + 1 /\ Entries' = Entries + 1
  <2>1. Poll!Enqueue(t)
    BY <1>1, <1>2 DEF Poll!Enqueue, Poll!Free, Poll!ctlVars, ctlVars, Entries, Todo
  <2> QED
    BY <2>1 DEF Poll!Next
<1>3. CASE /\ ctl[t] = "idle" /\ UNCHANGED ctlVars
           /\ Todo(pc[t]) = "none" /\ Todo(pc'[t]) = "read_control"
           /\ Entries > 0 /\ Entries' = Entries - 1
  <2>1. Poll!Dequeue(t)
    BY <1>1, <1>3 DEF Poll!Dequeue, Poll!Free, Poll!ctlVars, ctlVars, Entries, Todo
  <2> QED
    BY <2>1 DEF Poll!Next
<1>4. CASE /\ ctl[t] = "idle" /\ UNCHANGED ctlVars /\ Entries' = Entries
           /\ Todo(pc[t]) = "none" /\ Todo(pc'[t]) = "wait"
  <2>1. Poll!Wait(t)
    BY <1>1, <1>4 DEF Poll!Wait, Poll!Free, Poll!ctlVars, ctlVars, Entries, Todo
  <2> QED
    BY <2>1 DEF Poll!Next
<1>5. CASE /\ UNCHANGED ctlVars /\ Entries' = Entries
           /\ Todo(pc[t]) = "wait" /\ Todo(pc'[t]) = "none" /\ Readable
  <2>1. Poll!Wake(t)
    BY <1>1, <1>5 DEF Poll!Wake, Poll!Readable, Readable, Poll!ctlVars, ctlVars, Entries, Todo
  <2> QED
    BY <2>1 DEF Poll!Next, Poll!Continue
<1>6. CASE /\ Todo(pc[t]) = "write_control" /\ Todo(pc'[t]) = "none" /\ Raise(t)
           /\ Entries' = Entries
  <2>1. Poll!WriteControl(t)
    BY <1>1, <1>6 DEF Poll!WriteControl, Poll!Raise, Raise, Entries, Todo
  <2> QED
    BY <2>1 DEF Poll!Next, Poll!Continue
<1>7. CASE /\ Todo(pc[t]) = "read_control" /\ Todo(pc'[t]) = "none" /\ Release(t)
           /\ Entries' = Entries
  <2>1. Poll!ReadControl(t)
    BY <1>1, <1>7 DEF Poll!ReadControl, Poll!Release, Release, Entries, Todo
  <2> QED
    BY <2>1 DEF Poll!Next, Poll!Continue
<1>8. Todo(pc'[t]) = Todo(pc[t]) => todo' = todo
  BY <1>1
<1>9. CASE FinishControl(t) /\ Todo(pc'[t]) = Todo(pc[t]) /\ Entries' = Entries
  <2>1. Poll!FinishControl(t)
    BY <1>9
    DEF Poll!FinishControl, Poll!WakeEvent, Poll!ReleaseEvent, FinishControl, WakeEvent,
        ReleaseEvent
  <2>2. Poll!Finish(t)
    BY <1>8, <1>9, <2>1 DEF Poll!Finish, Entries, Todo
  <2> QED
    BY <2>2 DEF Poll!Next, Poll!Continue
<1>10. CASE UNCHANGED ctlVars /\ Todo(pc'[t]) = Todo(pc[t]) /\ Entries' = Entries
  BY <1>8, <1>10 DEF Poll!vars, ctlVars, Entries, Todo
<1> QED
  BY <1>2, <1>3, <1>4, <1>5, <1>6, <1>7, <1>9, <1>10

(* While one thread activates the pool no other does. *)
LEMMA TokenOf ==
  ASSUME IInv
  PROVE  /\ Token \in {0, 1}
         /\ Token = 1 => flushing
         /\ ~flushing => Token = 0
         /\ \A t \in Threads :
              /\ pc[t] \in {"act_read", "act_clear"} => Token = 0
              /\ pc[t] \in LockSteps \ {"act_read", "act_clear"} => Token = IF flushing THEN 1 ELSE 0
BY ConfigsAssumption DEF Token, IInv, LockHeld, LockSteps

LEMMA TokenSame ==
  ASSUME NEW t \in Threads, \A u \in Threads : u # t => pc'[u] = pc[u],
         flushing' = flushing,
         pc'[t] \in {"act_read", "act_clear"} <=> pc[t] \in {"act_read", "act_clear"}
  PROVE  Token' = Token
BY DEF Token

(* Each action of the pool is one action of a client of the poll, or, when *)
(* neither the queue, the token nor a poll call is concerned, a stutter.   *)
LEMMA StepRefines ==
  ASSUME IInv, NEW t \in Threads, Step(t)
  PROVE  [Poll!Next]_(Poll!vars)
<1>1. /\ queue \in Seq(Configs) /\ held \in Seq(Configs)
      /\ Len(queue) \in Nat /\ Len(held) \in Nat /\ MaxBuffers \in Nat
      /\ Len(queue) + Len(held) <= MaxBuffers
      /\ pc \in [Threads -> Steps]
  BY AllocAssumption DEF IInv, TypeOK
<1>2. \A u \in Threads : u # t => pc'[u] = pc[u]
  BY OwnStep
<1>3. /\ Token \in {0, 1} /\ Entries \in Nat
      /\ Entries = Len(queue) + Token
      /\ Entries' = Len(queue') + Token'
      /\ ~flushing => Token = 0
      /\ pc[t] \in LockSteps \ {"act_read", "act_clear"} => Token = IF flushing THEN 1 ELSE 0
      /\ pc[t] \in {"act_read", "act_clear"} => Token = 0
  <2>1. Token \in {0, 1}
    BY TokenOf
  <2> QED
    BY <1>1, <2>1, TokenOf DEF Entries
<1> USE WritesReads DEF At, Call, GoTo, Todo
<1>4. CASE UNCHANGED ctlVars /\ UNCHANGED <<queue, flushing>> /\ Todo(pc'[t]) = Todo(pc[t])
           /\ pc'[t] \notin {"act_read", "act_clear"} /\ pc[t] \notin {"act_read", "act_clear"}
  BY <1>1, <1>2, <1>3, <1>4, TokenSame, ClientStep
<1>5. CASE Construct(t)
  <2>1. /\ ctl[t] = "idle" /\ UNCHANGED ctlVars
        /\ pc[t] = "init" /\ pc'[t] = "init_write" /\ ~flushing /\ flushing' = TRUE /\ queue' = queue
        /\ queue = <<>> /\ \A u \in Threads : pc'[u] \notin {"act_read", "act_clear"}
    BY <1>1, <1>2, <1>5 DEF Construct, IInv, BeforeConfig
  <2>2. Token' = 1
    BY <2>1 DEF Token
  <2>3. Entries = 0 /\ Entries' = 1
    BY <1>3, <2>1, <2>2
  <2> QED
    BY <1>1, <1>2, <2>1, <2>3, ClientStep
<1>6. CASE StartAlloc(t) \/ ReleaseBuffer(t)
  <2>1. /\ ctl[t] = "idle" /\ UNCHANGED ctlVars /\ flushing' = flushing
        /\ pc[t] \in {"start", "none"} /\ pc'[t] \in {"start_write", "rel_write"}
    BY <1>1, <1>6 DEF StartAlloc, ReleaseBuffer
  <2>2. Len(queue') = Len(queue) + 1 /\ Len(queue) < MaxBuffers
    BY <1>1, <1>6 DEF StartAlloc, ReleaseBuffer
  <2>3. Token' = Token
    BY <1>2, <2>1, TokenSame
  <2>4. Entries < MaxBuffers + 1 /\ Entries' = Entries + 1
    BY <1>1, <1>3, <2>2, <2>3
  <2> QED
    BY <1>1, <1>2, <2>1, <2>4, ClientStep
<1>7. CASE AcquirePop(t) \/ StopPop(t)
  <2>1. /\ ctl[t] = "idle" /\ UNCHANGED ctlVars /\ flushing' = flushing
        /\ pc[t] \in {"acq_pop", "stop", "deact_stop"}
        /\ pc'[t] \in {"acq_read", "stop_read", "deact_stop_read"}
    BY <1>1, <1>7 DEF AcquirePop, StopPop
  <2>2. Len(queue') = Len(queue) - 1 /\ Len(queue) > 0
    BY <1>1, <1>7 DEF AcquirePop, StopPop
  <2>3. Token' = Token
    BY <1>2, <2>1, TokenSame
  <2>4. Entries > 0 /\ Entries' = Entries - 1
    BY <1>1, <1>3, <2>2, <2>3
  <2> QED
    BY <1>1, <1>2, <2>1, <2>4, ClientStep
<1>8. CASE StartDone(t)
  <2>1. /\ ctl[t] = "idle" /\ UNCHANGED ctlVars /\ queue' = queue
        /\ pc[t] = "start" /\ pc'[t] = "act_read" /\ flushing
    BY <1>1, <1>8 DEF StartDone, IInv, FlushingUnlessActive, StartSteps
  <2>2. Token = 1
    BY <1>3, <2>1 DEF LockSteps, StartSteps
  <2>3. Token' = 0
    BY <2>1 DEF Token
  <2> QED
    BY <1>1, <1>2, <1>3, <2>1, <2>2, <2>3, ClientStep
<1>9. CASE ActivateDone(t)
  <2>1. /\ ctl[t] = "idle" /\ UNCHANGED ctlVars /\ queue' = queue
        /\ pc[t] = "act_clear" /\ pc'[t] = "none" /\ flushing' = FALSE
    BY <1>1, <1>9 DEF ActivateDone
  <2>2. Token = 0 /\ Token' = 0
    BY <1>3, <2>1 DEF Token
  <2> QED
    BY <1>1, <1>2, <1>3, <2>1, <2>2, ClientStep
<1>10. CASE Deactivate(t)
  <2>1. /\ ctl[t] = "idle" /\ UNCHANGED ctlVars /\ queue' = queue
        /\ pc[t] = "none" /\ pc'[t] = "deact_write" /\ flushing' = TRUE
        /\ lock = NONE /\ active
    BY <1>1, <1>10 DEF Deactivate
  <2>2. \A u \in Threads : pc[u] \notin LockSteps \cup {"init"}
    BY <1>10, <2>1, ConfigsAssumption DEF IInv, LockHeld, Deactivate, Constructed
  <2>3. ~flushing
    BY <2>1, <2>2 DEF IInv, FlushingUnlessActive, LockSteps
  <2>4. Token = 0 /\ Token' = 1
    <3>1. \A u \in Threads : pc'[u] \notin {"act_read", "act_clear"}
      BY <1>2, <2>1, <2>2 DEF LockSteps
    <3> QED
      BY <1>3, <2>1, <2>3, <3>1 DEF Token
  <2> QED
    BY <1>1, <1>2, <1>3, <2>1, <2>4, ClientStep
<1>11. CASE AcquireEmpty(t) \/ AcquireWoken(t)
  <2>1. /\ ctl[t] = "idle" /\ UNCHANGED ctlVars /\ queue' = queue /\ flushing' = flushing
        /\ \/ pc[t] = "acq_pop" /\ pc'[t] \in {"dec", "wait"}
           \/ pc[t] = "wait" /\ pc'[t] = "acq_flushing" /\ Readable
    BY <1>1, <1>11 DEF AcquireEmpty, AcquireWoken, poolVars
  <2>2. Entries' = Entries
    BY <1>2, <1>3, <2>1, TokenSame
  <2> QED
    BY <1>1, <1>2, <2>1, <2>2, ClientStep
<1>12. CASE WriteControl(t)
  <2>1. /\ Todo(pc[t]) = "write_control" /\ Todo(pc'[t]) = "none" /\ Raise(t)
        /\ pc[t] \notin {"act_read", "act_clear"} /\ pc'[t] \notin {"act_read", "act_clear"}
        /\ queue' = queue /\ flushing' = flushing
    BY <1>1, <1>12 DEF WriteControl, poolVars
  <2>2. Entries' = Entries
    BY <1>2, <1>3, <2>1, TokenSame
  <2> QED
    BY <1>1, <1>2, <2>1, <2>2, ClientStep
<1>13. CASE ReadControl(t)
  <2>1. /\ Todo(pc[t]) = "read_control" /\ Todo(pc'[t]) = "none" /\ Release(t)
        /\ pc[t] \in {"act_read", "act_clear"} <=> pc'[t] \in {"act_read", "act_clear"}
        /\ queue' = queue /\ flushing' = flushing
    BY <1>1, <1>13 DEF ReadControl, poolVars
  <2>2. Entries' = Entries
    BY <1>2, <1>3, <2>1, TokenSame
  <2> QED
    BY <1>1, <1>2, <2>1, <2>2, ClientStep
<1>14. CASE SocketCall(t)
  <2>1. FinishControl(t) /\ pc' = pc /\ queue' = queue /\ flushing' = flushing
    BY <1>14 DEF SocketCall, poolVars
  <2>2. Entries' = Entries
    BY <1>2, <1>3, <2>1, TokenSame
  <2> QED
    BY <1>1, <1>2, <2>1, <2>2, ClientStep
<1>15. CASE \/ SetConfig(t) \/ Activate(t) \/ StartFails(t) \/ DeactivateCheck(t) \/ StopDone(t)
            \/ Acquire(t) \/ AcquireFlushing(t) \/ AcquireAlloc(t) \/ AcquireAllocFails(t)
  <2>1. UNCHANGED ctlVars /\ UNCHANGED <<queue, flushing>>
    BY <1>15
    DEF SetConfig, Activate, StartFails, DeactivateCheck, StopDone, Acquire, AcquireFlushing,
        AcquireAlloc, AcquireAllocFails, poolVars
  <2>2. /\ Todo(pc'[t]) = Todo(pc[t])
        /\ pc'[t] \notin {"act_read", "act_clear"} /\ pc[t] \notin {"act_read", "act_clear"}
    BY <1>1, <1>15
    DEF SetConfig, Activate, StartFails, DeactivateCheck, StopDone, Acquire, AcquireFlushing,
        AcquireAlloc, AcquireAllocFails
  <2> QED
    BY <1>4, <2>1, <2>2
<1>16. CASE DecOutstanding(t) \/ DecFlushing(t) \/ DecLock(t) \/ DecRecheck(t)
  <2>1. UNCHANGED ctlVars /\ UNCHANGED <<queue, flushing>>
    BY <1>16 DEF DecOutstanding, DecFlushing, DecLock, DecRecheck, poolVars
  <2>2. /\ Todo(pc'[t]) = Todo(pc[t])
        /\ pc'[t] \notin {"act_read", "act_clear"} /\ pc[t] \notin {"act_read", "act_clear"}
    BY <1>1, <1>16 DEF DecOutstanding, DecFlushing, DecLock, DecRecheck
  <2> QED
    BY <1>4, <2>1, <2>2
<1> QED
  BY <1>5, <1>6, <1>7, <1>8, <1>9, <1>10, <1>11, <1>12, <1>13, <1>14, <1>15, <1>16
  DEF Step, Continue

(* GstBufferPool uses its poll as GstPollTimer describes: it writes the    *)
(* control socket once for each buffer it queues and once to flush, and    *)
(* reads it once for each it takes out and once to stop flushing.          *)
THEOREM ClientOfPoll == Spec => ImplementsPollClient
<1>1. Init => Poll!Init
  <2> SUFFICES ASSUME Init PROVE Poll!Init
    OBVIOUS
  <2>1. \A t \in Threads : pc[t] \in {"none", "init"}
    BY DEF Init
  <2>2. Len(queue) + Token = 0
    BY DEF Init, Token
  <2>3. ControlInit
    BY DEF Init
  <2> QED
    BY <2>1, <2>2, <2>3, WritesReads DEF Poll!Init, Poll!ControlInit, ControlInit
<1>2. IInv /\ [Next]_vars => [Poll!Next]_(Poll!vars)
  <2> SUFFICES ASSUME IInv, [Next]_vars PROVE [Poll!Next]_(Poll!vars)
    OBVIOUS
  <2>1. ASSUME NEW t \in Threads, Step(t) PROVE [Poll!Next]_(Poll!vars)
    BY <2>1, StepRefines
  <2>2. CASE UNCHANGED vars
    BY <2>2 DEF vars, ctlVars, poolVars, Poll!vars, Token
  <2> QED
    BY <2>1, <2>2 DEF Next, Step
<1> QED
  BY <1>1, <1>2, Inductive, PTL DEF Spec, ImplementsPollClient, Poll!Spec

(* What GstPollTimer_proofs proves of the clients of a timer poll.         *)
PollProofs == INSTANCE GstPollTimer_proofs WITH
  MaxQueued <- MaxBuffers + 1,
  queued <- Len(queue) + Token,
  todo <- [t \in Threads |->
             IF pc[t] \in DOMAIN Writes THEN "write_control"
             ELSE IF pc[t] \in DOMAIN Reads THEN "read_control"
             ELSE IF pc[t] = "wait" THEN "wait" ELSE "none"]

(* gst_buffer_pool_acquire_buffer waits on the control socket: with no     *)
(* call to the poll under way, nobody sleeps while a buffer is queued or   *)
(* the pool is flushing.                                                   *)
THEOREM WaitersAreWoken == Spec => []Poll!NoLostWakeup
<1>1. Poll!Init => PollProofs!Init
  BY DEF Poll!Init, PollProofs!Init, Poll!ControlInit, PollProofs!ControlInit
<1>2. [Poll!Next]_(Poll!vars) => [PollProofs!Next]_(PollProofs!vars)
  BY Zenon
  DEF Poll!Next, PollProofs!Next, Poll!vars, PollProofs!vars, Poll!Continue, PollProofs!Continue,
      Poll!Enqueue, PollProofs!Enqueue, Poll!Dequeue, PollProofs!Dequeue, Poll!Wait,
      PollProofs!Wait, Poll!TimedOut, PollProofs!TimedOut, Poll!Wake, PollProofs!Wake,
      Poll!WriteControl, PollProofs!WriteControl, Poll!ReadControl, PollProofs!ReadControl,
      Poll!Finish, PollProofs!Finish, Poll!Free, PollProofs!Free, Poll!ctlVars,
      PollProofs!ctlVars, Poll!Raise, PollProofs!Raise, Poll!Release, PollProofs!Release,
      Poll!Readable, PollProofs!Readable, Poll!FinishControl, PollProofs!FinishControl,
      Poll!WakeEvent, PollProofs!WakeEvent, Poll!ReleaseEvent, PollProofs!ReleaseEvent
<1>3. PollProofs!NoLostWakeup => Poll!NoLostWakeup
  BY DEF PollProofs!NoLostWakeup, Poll!NoLostWakeup, PollProofs!Settled, Poll!Settled,
         PollProofs!CallsTodo, Poll!CallsTodo, PollProofs!Readable, Poll!Readable
<1>4. PollProofs!IsFiniteSet(Threads)
  BY ThreadsAssumption DEF IsFiniteSet, PollProofs!IsFiniteSet
<1>5. MaxBuffers + 1 \in Nat
  BY AllocAssumption
<1>6. PollProofs!Spec => []PollProofs!NoLostWakeup
  BY <1>4, <1>5, PollProofs!NoWakeupLost, PTL
<1> QED
  BY <1>1, <1>2, <1>3, <1>6, ClientOfPoll, PTL DEF ImplementsPollClient, Poll!Spec, PollProofs!Spec

=============================================================================
