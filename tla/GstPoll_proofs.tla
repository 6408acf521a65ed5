--------------------------- MODULE GstPoll_proofs ---------------------------
(***************************************************************************)
(* Two facts about gst_poll_wait for any threads and descriptors: a waiter *)
(* that spins in release_all_wakeup waits for a byte that comes, and no    *)
(* waiter of a poll that is not a timer sleeps through a flush or a change *)
(* of the set.                                                             *)
(*                                                                         *)
(* The argument: a counted wakeup, and a waiter that took the count but    *)
(* not yet the byte, each stand for a byte in the socket or about to be    *)
(* written (BytesCoverWakeups).  What a waiter has missed since it looked  *)
(* is known to somebody who is about to raise a wakeup, or the wakeup is   *)
(* counted (MissedIsSignalled); the waiter that takes it looks again.      *)
(***************************************************************************)
EXTENDS GstPoll, FiniteSetTheorems, TLAPS

Waiters == WaitSteps \cup {"already"}

Owing == {"read", "retry"}      \* the count is taken, the byte is not

(* 1 when a is in A: the contribution of one thread to a count. *)
In(a, A) == IF a \in A THEN 1 ELSE 0

(* The number of threads whose value in f is in A. *)
Count(f, A) == Cardinality({x \in Threads : f[x] \in A})

WaitingCounts == waiting = Count(pc, Waiters)

OneWaiter ==
  ~IsTimer => \A t, u \in Threads : pc[t] \in WaitSteps /\ pc[u] \in WaitSteps => t = u

(* The locals of the loop, and the bound of the counter they hold. *)
Releasing ==
  /\ control_pending \in 0..MaxPending + 1
  /\ \A t \in Threads :
       /\ pc[t] \in {"pending", "swap"} \cup Owing => ~IsTimer
       /\ pc[t] = "swap" => old[t] > 0
       /\ pc[t] \in Owing => control_pending <= MaxPending

(* A thread owes the socket nothing while it is in another call. *)
NothingOwed ==
  \A t \in Threads : /\ ctl[t] # "read"
                     /\ pc[t] # "none" => ctl[t] = "idle"

BytesCoverWakeups ==
  socket + Count(ctl, {"write"}) >= Count(pc, Owing) + (IF control_pending > 0 THEN 1 ELSE 0)

(* The copy is outdated only while rebuild says so or somebody makes it. *)
CopyUpToDate ==
  /\ Control \in fds
  /\ rebuild \/ active_fds = fds \/ \E t \in Threads : pc[t] = "copy"
  /\ ~IsTimer => \A t \in Threads : /\ pc[t] = "call" => Control \in active_fds
                                    /\ pc[t] = "poll" => Control \in polled[t]

(* What happened to the poll since t looked, and t does not see.           *)
Missed(t) ==
  \/ pc[t] \in {"rebuild", "copy", "call", "poll"} /\ flushing
  \/ pc[t] = "call" /\ active_fds # fds
  \/ pc[t] = "poll" /\ polled[t] # fds

MissedIsSignalled ==
  ~IsTimer => \A t \in Threads : Missed(t) =>
    \/ control_pending > 0
    \/ \E u \in Threads : pc[u] \in {"get_waiting", "raise"}

IInv ==
  /\ TypeOK
  /\ WaitingCounts
  /\ OneWaiter
  /\ Releasing
  /\ NothingOwed
  /\ BytesCoverWakeups
  /\ CopyUpToDate
  /\ MissedIsSignalled

(* What a thread may do in one step. *)
Step(t) ==
  \/ Enter(t) \/ ChangeFds(t) \/ SetFlushing(t)
  \/ PollFails(t) \/ PollTimesOut(t) \/ PollActivity(t)
  \/ Continue(t)

-----------------------------------------------------------------------------
(* Changing one thread's value moves the number of threads in A by one at  *)
(* most.                                                                   *)
LEMMA CountUpdate ==
  ASSUME NEW f, NEW g, NEW A, NEW t \in Threads,
         \A x \in Threads \ {t} : g[x] = f[x]
  PROVE  /\ Count(f, A) \in Nat
         /\ Count(g, A) \in Nat
         /\ Count(g, A) = Count(f, A) + In(g[t], A) - In(f[t], A)
<1> DEFINE Old == {x \in Threads : f[x] \in A}
           New == {x \in Threads : g[x] \in A}
           Rest == {x \in Threads : x # t /\ f[x] \in A}
<1>1. IsFiniteSet(Rest) /\ Cardinality(Rest) \in Nat
  BY FS_Subset, FS_CardinalityType, ThreadsAssumption
<1>2. t \notin Rest /\ Cardinality(Rest \cup {t}) = Cardinality(Rest) + 1
  <2>1. t \notin Rest
    OBVIOUS
  <2> HIDE DEF Rest
  <2> QED
    BY <1>1, <2>1, FS_AddElement
<1>3. Old = IF f[t] \in A THEN Rest \cup {t} ELSE Rest
  OBVIOUS
<1>4. New = IF g[t] \in A THEN Rest \cup {t} ELSE Rest
  OBVIOUS
<1> HIDE DEF Old, New, Rest
<1>5. /\ Cardinality(Old) \in Nat
      /\ Cardinality(New) \in Nat
      /\ Cardinality(New) = Cardinality(Old) + In(g[t], A) - In(f[t], A)
  BY <1>1, <1>2, <1>3, <1>4 DEF In
<1> QED
  BY <1>5 DEF Old, New, Count

(* No more threads than there are, and one at least when one is seen.      *)
LEMMA CountBounds ==
  ASSUME NEW f, NEW A
  PROVE  /\ Count(f, A) \in 0..Cardinality(Threads)
         /\ Count(f, A) = 0 <=> \A x \in Threads : f[x] \notin A
<1> DEFINE Those == {x \in Threads : f[x] \in A}
<1>1. Those \subseteq Threads
  OBVIOUS
<1>2. Those = {} <=> \A x \in Threads : f[x] \notin A
  OBVIOUS
<1> HIDE DEF Those
<1>3. /\ IsFiniteSet(Those) /\ Cardinality(Those) \in Nat /\ Cardinality(Threads) \in Nat
      /\ Cardinality(Those) <= Cardinality(Threads)
      /\ Cardinality(Those) = 0 <=> Those = {}
  BY <1>1, FS_Subset, FS_CardinalityType, FS_EmptySet, ThreadsAssumption
<1> QED
  BY <1>2, <1>3 DEF Count, Those

(* What poll() reports is a part of what the client watches.               *)
LEMMA ReadyBounds ==
  ASSUME NEW ready \in SUBSET Fds
  PROVE  Cardinality(ready) \in 0..Cardinality(Fds) /\ Cardinality(Fds) \in Nat
BY FS_Subset, FS_CardinalityType, FdsAssumption

LEMMA InitIInv == Init => IInv
<1> SUFFICES ASSUME Init PROVE IInv
  OBVIOUS
<1>1. /\ control_pending = 0 /\ socket = 0 /\ ctl = [t \in Threads |-> "idle"]
      /\ flushing = FALSE /\ rebuild = TRUE /\ waiting = 0
      /\ fds = {Control} /\ active_fds = {}
      /\ pc = [t \in Threads |-> "none"] /\ polled = [t \in Threads |-> {}]
      /\ old = [t \in Threads |-> 0] /\ res = [t \in Threads |-> 0]
      /\ activity = [t \in Threads |-> 0]
  BY DEF Init, ControlInit
<1>2. Cardinality(Fds) \in Nat /\ Cardinality(Threads) \in Nat /\ MaxPending \in Nat
  BY FdsAssumption, ThreadsAssumption, MaxPendingAssumption, FS_CardinalityType
<1>3. TypeOK
  <2>1. ControlTypeOK
    BY <1>1 DEF ControlTypeOK
  <2>2. /\ flushing \in BOOLEAN /\ rebuild \in BOOLEAN /\ waiting \in 0..Cardinality(Threads)
        /\ {fds, active_fds} \subseteq SUBSET (Fds \cup {Control})
    <3>1. /\ fds \in SUBSET (Fds \cup {Control})
          /\ active_fds \in SUBSET (Fds \cup {Control})
      BY <1>1
    <3>2. waiting \in 0..Cardinality(Threads)
      BY <1>1, <1>2
    <3> QED
      BY <1>1, <3>1, <3>2
  <2>5. polled \in [Threads -> SUBSET (Fds \cup {Control})]
    BY <1>1
  <2>3. /\ pc \in [Threads -> WaitSteps \cup {"none", "already", "get_waiting", "raise"}]
        /\ old \in [Threads -> 0..MaxPending + 1]
        /\ activity \in [Threads -> 0..Cardinality(Fds)]
    BY <1>1, <1>2
  <2>4. res \in [Threads -> -1..Cardinality(Fds) + 1]
    <3>1. 0 \in -1..Cardinality(Fds) + 1
      BY <1>2
    <3> QED
      BY <1>1, <3>1
  <2> QED
    BY <2>1, <2>2, <2>3, <2>4, <2>5 DEF TypeOK
<1>4. /\ Count(pc, Waiters) = 0 /\ Count(pc, Owing) = 0 /\ Count(ctl, {"write"}) = 0
  BY <1>1, CountBounds DEF Waiters, Owing, WaitSteps
<1>5. WaitingCounts /\ BytesCoverWakeups
  BY <1>1, <1>4 DEF WaitingCounts, BytesCoverWakeups
<1>6. OneWaiter /\ Releasing /\ NothingOwed /\ CopyUpToDate /\ MissedIsSignalled
  BY <1>1, <1>2
  DEF OneWaiter, Releasing, NothingOwed, CopyUpToDate, MissedIsSignalled, Missed, WaitSteps, Owing
<1> QED
  BY <1>3, <1>5, <1>6 DEF IInv

-----------------------------------------------------------------------------
(* A step of t is a step of nobody else. *)
LEMMA OwnStep ==
  ASSUME IInv, NEW t \in Threads, Step(t)
  PROVE  \A u \in Threads : u # t =>
           /\ pc'[u] = pc[u] /\ ctl'[u] = ctl[u]
           /\ polled'[u] = polled[u] /\ old'[u] = old[u]
<1> USE DEF GoTo, waitVars, ctlVars
<1>1. /\ pc \in [Threads -> WaitSteps \cup {"none", "already", "get_waiting", "raise"}]
      /\ ctl \in [Threads -> {"idle", "write", "read"}]
      /\ polled \in [Threads -> SUBSET (Fds \cup {Control})]
      /\ old \in [Threads -> 0..MaxPending + 1]
  BY DEF IInv, TypeOK, ControlTypeOK
<1>2. CASE Enter(t) \/ ChangeFds(t) \/ SetFlushing(t)
  BY <1>1, <1>2 DEF Enter, ChangeFds, SetFlushing
<1>3. CASE PollFails(t) \/ PollTimesOut(t) \/ PollActivity(t) \/ PollWoken(t)
  BY <1>1, <1>3 DEF PollFails, PollTimesOut, PollActivity, PollWoken, PollReturns
<1>4. CASE CheckFlushing(t) \/ TestRebuild(t) \/ CopyFds(t) \/ CallPoll(t) \/ Recheck(t)
  BY <1>1, <1>4 DEF CheckFlushing, TestRebuild, CopyFds, CallPoll, Recheck
<1>5. CASE ReleaseAll(t)
  BY <1>1, <1>5 DEF ReleaseAll, GetPending, SwapPending, ReadSocket, Retry
<1>6. CASE Leave(t)
  BY <1>1, <1>6 DEF Leave
<1>7. CASE GetWaiting(t) \/ RaiseWakeup(t) \/ WriteSocket(t)
  BY <1>1, <1>7 DEF GetWaiting, RaiseWakeup, WriteSocket, Raise, WakeEvent
<1> QED
  BY <1>2, <1>3, <1>4, <1>5, <1>6, <1>7 DEF Step, Continue

(* The kinds of steps, by what they do to the count of waiters and to the  *)
(* wakeups.                                                                *)
LEMMA StepKinds ==
  ASSUME IInv, NEW t \in Threads, Step(t)
  PROVE  \/ /\ Enter(t) /\ UNCHANGED ctlVars /\ waiting' = waiting + 1
            /\ pc[t] = "none" /\ pc'[t] = IF waiting > 0 /\ ~IsTimer THEN "already" ELSE "check"
         \/ /\ Leave(t) /\ UNCHANGED ctlVars /\ waiting' = waiting - 1
            /\ pc[t] \in {"already", "flushing", "return"} /\ pc'[t] = "none"
         \/ /\ ChangeFds(t) \/ SetFlushing(t) \/ GetWaiting(t)
            /\ UNCHANGED <<ctlVars, waiting>>
            /\ pc[t] \in {"none", "get_waiting"} /\ pc'[t] \in {"none", "get_waiting", "raise"}
         \/ /\ \/ CheckFlushing(t) \/ TestRebuild(t) \/ CopyFds(t) \/ CallPoll(t) \/ Recheck(t)
               \/ PollFails(t) \/ PollTimesOut(t) \/ PollActivity(t) \/ PollWoken(t)
               \/ GetPending(t)
            /\ UNCHANGED <<ctlVars, waiting>>
            /\ pc[t] \in WaitSteps \ Owing /\ pc'[t] \in WaitSteps \ Owing
         \/ /\ SwapPending(t) \/ ReadSocket(t) \/ Retry(t)
            /\ UNCHANGED <<ctl, waiting>>
            /\ pc[t] \in WaitSteps /\ pc'[t] \in WaitSteps
         \/ RaiseWakeup(t) /\ waiting' = waiting /\ pc[t] = "raise" /\ pc'[t] = "none"
         \/ WriteSocket(t) /\ waiting' = waiting /\ pc'[t] = pc[t]
<1> USE DEF GoTo, waitVars, ctlVars, WaitSteps, Owing
<1>1. pc \in [Threads -> WaitSteps \cup {"none", "already", "get_waiting", "raise"}]
  BY DEF IInv, TypeOK
<1>2. CASE Enter(t) \/ Leave(t)
  BY <1>1, <1>2 DEF Enter, Leave
<1>3. CASE ChangeFds(t) \/ SetFlushing(t) \/ GetWaiting(t)
  BY <1>1, <1>3 DEF ChangeFds, SetFlushing, GetWaiting
<1>4. CASE PollFails(t) \/ PollTimesOut(t) \/ PollActivity(t) \/ PollWoken(t)
  BY <1>1, <1>4 DEF PollFails, PollTimesOut, PollActivity, PollWoken, PollReturns
<1>5. CASE \/ CheckFlushing(t) \/ TestRebuild(t) \/ CopyFds(t) \/ CallPoll(t) \/ Recheck(t)
           \/ GetPending(t)
  BY <1>1, <1>5 DEF CheckFlushing, TestRebuild, CopyFds, CallPoll, Recheck, GetPending
<1>6. CASE SwapPending(t) \/ ReadSocket(t) \/ Retry(t)
  BY <1>1, <1>6 DEF SwapPending, ReadSocket, Retry
<1>7. CASE RaiseWakeup(t)
  BY <1>1, <1>7 DEF RaiseWakeup
<1>8. CASE WriteSocket(t)
  BY <1>1, <1>8 DEF WriteSocket
<1> QED
  BY <1>2, <1>3, <1>4, <1>5, <1>6, <1>7, <1>8 DEF Step, Continue, ReleaseAll

(* INC_WAITING before any look at the set: the count is that of the        *)
(* threads in gst_poll_wait, and one of them goes past it unless a timer.  *)
LEMMA WaitingStep ==
  ASSUME IInv, NEW t \in Threads, Step(t)
  PROVE  WaitingCounts' /\ OneWaiter' /\ waiting' \in 0..Cardinality(Threads)
<1>1. /\ Count(pc, Waiters) \in Nat /\ Count(pc', Waiters) \in Nat
      /\ Count(pc', Waiters) = Count(pc, Waiters) + In(pc'[t], Waiters) - In(pc[t], Waiters)
  <2> DEFINE f == pc
             g == pc'
  <2>1. \A x \in Threads \ {t} : g[x] = f[x]
    BY OwnStep
  <2> HIDE DEF f, g
  <2>2. /\ Count(f, Waiters) \in Nat /\ Count(g, Waiters) \in Nat
        /\ Count(g, Waiters) = Count(f, Waiters) + In(g[t], Waiters) - In(f[t], Waiters)
    BY <2>1, CountUpdate
  <2> QED
    BY <2>2 DEF f, g
<1>2. waiting = Count(pc, Waiters)
  BY DEF IInv, WaitingCounts
<1>3. waiting' = waiting + In(pc'[t], Waiters) - In(pc[t], Waiters)
  BY <1>1, <1>2, StepKinds DEF In, Waiters, WaitSteps, Owing
<1>4. WaitingCounts'
  BY <1>1, <1>2, <1>3 DEF WaitingCounts, Count
<1>5. waiting' \in 0..Cardinality(Threads)
  BY <1>4, CountBounds DEF WaitingCounts
<1>6. pc'[t] \in WaitSteps /\ ~IsTimer => pc[t] \in WaitSteps \/ waiting = 0
  BY <1>1, <1>2, StepKinds DEF WaitSteps
<1>7. waiting = 0 => \A u \in Threads : pc[u] \notin WaitSteps
  <2>1. waiting = 0 => \A u \in Threads : pc[u] \notin Waiters
    BY <1>2, CountBounds
  <2> QED
    BY <2>1 DEF Waiters
<1>8. OneWaiter'
  BY <1>6, <1>7, OwnStep DEF IInv, OneWaiter
<1> QED
  BY <1>4, <1>5, <1>8

(* The counter, what release_all_wakeup makes of it, and the bytes.        *)
LEMMA WakeupStep ==
  ASSUME IInv, NEW t \in Threads, Step(t)
  PROVE  Releasing' /\ NothingOwed' /\ BytesCoverWakeups' /\ socket' \in Nat
         /\ ctl' \in [Threads -> {"idle", "write", "read"}]
<1> USE DEF GoTo
<1>1. /\ pc \in [Threads -> WaitSteps \cup {"none", "already", "get_waiting", "raise"}]
      /\ ctl \in [Threads -> {"idle", "write", "read"}]
      /\ control_pending \in 0..MaxPending + 1 /\ socket \in Nat
      /\ old \in [Threads -> 0..MaxPending + 1] /\ MaxPending \in Nat \ {0}
      /\ ctl[t] # "read" /\ (pc[t] # "none" => ctl[t] = "idle")
      /\ \A u \in Threads : u # t =>
           pc'[u] = pc[u] /\ ctl'[u] = ctl[u] /\ old'[u] = old[u]
  BY OwnStep, MaxPendingAssumption DEF IInv, TypeOK, ControlTypeOK, Releasing, NothingOwed
<1>2. /\ Count(pc, Owing) \in Nat /\ Count(pc', Owing) \in Nat
      /\ Count(pc', Owing) = Count(pc, Owing) + In(pc'[t], Owing) - In(pc[t], Owing)
  <2> DEFINE f == pc
             g == pc'
  <2>1. \A x \in Threads \ {t} : g[x] = f[x]
    BY <1>1
  <2> HIDE DEF f, g
  <2>2. /\ Count(f, Owing) \in Nat /\ Count(g, Owing) \in Nat
        /\ Count(g, Owing) = Count(f, Owing) + In(g[t], Owing) - In(f[t], Owing)
    BY <2>1, CountUpdate
  <2> QED
    BY <2>2 DEF f, g
<1>3. /\ Count(ctl, {"write"}) \in Nat /\ Count(ctl', {"write"}) \in Nat
      /\ Count(ctl', {"write"}) = Count(ctl, {"write"}) + In(ctl'[t], {"write"}) - In(ctl[t], {"write"})
  <2> DEFINE f == ctl
             g == ctl'
  <2>1. \A x \in Threads \ {t} : g[x] = f[x]
    BY <1>1
  <2> HIDE DEF f, g
  <2>2. /\ Count(f, {"write"}) \in Nat /\ Count(g, {"write"}) \in Nat
        /\ Count(g, {"write"}) = Count(f, {"write"}) + In(g[t], {"write"}) - In(f[t], {"write"})
    BY <2>1, CountUpdate
  <2> QED
    BY <2>2 DEF f, g
<1>4. socket + Count(ctl, {"write"}) >= Count(pc, Owing) + (IF control_pending > 0 THEN 1 ELSE 0)
  BY DEF IInv, BytesCoverWakeups
<1>5. \A u \in Threads : /\ pc[u] \in {"pending", "swap"} \cup Owing => ~IsTimer
                         /\ pc[u] = "swap" => old[u] > 0
                         /\ pc[u] \in Owing => control_pending <= MaxPending
                         /\ ctl[u] # "read" /\ (pc[u] # "none" => ctl[u] = "idle")
  BY DEF IInv, Releasing, NothingOwed
<1> DEFINE Bytes == /\ control_pending' \in 0..MaxPending + 1 /\ socket' \in Nat
                    /\ ctl' \in [Threads -> {"idle", "write", "read"}]
                    /\ socket' + Count(ctl', {"write"})
                         >= Count(pc', Owing) + (IF control_pending' > 0 THEN 1 ELSE 0)
           Locals == /\ pc'[t] \in {"pending", "swap"} \cup Owing => ~IsTimer
                     /\ pc'[t] = "swap" => old'[t] > 0
                     /\ pc'[t] \in Owing => control_pending' <= MaxPending
                     /\ ctl'[t] # "read" /\ (pc'[t] # "none" => ctl'[t] = "idle")
                     /\ \A u \in Threads :
                          u # t /\ pc[u] \in Owing => control_pending' <= MaxPending
<1>6. CASE UNCHANGED ctlVars /\ pc[t] \notin Owing /\ pc'[t] \notin Owing
  <2>1. Bytes
    BY <1>1, <1>2, <1>3, <1>4, <1>6 DEF ctlVars, In
  <2>2. /\ pc'[t] \in {"pending", "swap"} => ~IsTimer
        /\ pc'[t] = "swap" => old'[t] > 0
        /\ pc'[t] # "none" => ctl[t] = "idle"
    <3>1. CASE Enter(t) \/ Leave(t)
      BY <1>1, <3>1 DEF Enter, Leave, Idle
    <3>2. CASE ChangeFds(t) \/ SetFlushing(t) \/ GetWaiting(t)
      BY <1>1, <3>2 DEF ChangeFds, SetFlushing, GetWaiting, Idle
    <3>3. CASE PollFails(t) \/ PollTimesOut(t) \/ PollActivity(t) \/ PollWoken(t)
      BY <1>1, <3>3 DEF PollFails, PollTimesOut, PollActivity, PollWoken, PollReturns
    <3>4. CASE CheckFlushing(t) \/ TestRebuild(t) \/ CopyFds(t) \/ CallPoll(t) \/ Recheck(t)
      BY <1>1, <3>4 DEF CheckFlushing, TestRebuild, CopyFds, CallPoll, Recheck
    <3>5. CASE GetPending(t)
      BY <1>1, <1>5, <3>5 DEF GetPending
    <3>6. CASE SwapPending(t)
      BY <1>1, <1>5, <1>6, <3>6 DEF SwapPending, Owing, waitVars
    <3>7. CASE ReadSocket(t) \/ Retry(t) \/ RaiseWakeup(t) \/ WriteSocket(t)
      BY <1>1, <1>6, <3>7
      DEF ReadSocket, Retry, RaiseWakeup, Raise, WriteSocket, WakeEvent, Owing, ctlVars
    <3> QED
      BY <3>1, <3>2, <3>3, <3>4, <3>5, <3>6, <3>7 DEF Step, Continue, ReleaseAll
  <2>3. Locals
    BY <1>1, <1>5, <1>6, <2>2 DEF ctlVars
  <2> QED
    BY <1>1, <1>5, <2>1, <2>3 DEF Releasing, NothingOwed, BytesCoverWakeups, Count
<1>7. CASE SwapPending(t)
  <2>1. /\ pc[t] = "swap" /\ old[t] > 0 /\ ctl' = ctl /\ socket' = socket /\ old' = old
        /\ \/ control_pending > 0 /\ control_pending' = 0 /\ pc'[t] = "read"
           \/ control_pending' = control_pending /\ pc'[t] = "pending"
    BY <1>1, <1>5, <1>7 DEF SwapPending, waitVars
  <2>2. Bytes
    BY <1>1, <1>2, <1>3, <1>4, <2>1 DEF In, Owing
  <2>3. Locals
    BY <1>1, <1>5, <2>1 DEF Owing
  <2> QED
    BY <1>1, <1>5, <2>2, <2>3 DEF Releasing, NothingOwed, BytesCoverWakeups, Count
<1>8. CASE ReadSocket(t)
  <2>1. /\ pc[t] = "read" /\ ctl' = ctl /\ control_pending' = control_pending /\ old' = old
        /\ \/ socket > 0 /\ socket' = socket - 1 /\ pc'[t] = "recheck"
           \/ socket' = socket /\ pc'[t] = "retry"
    BY <1>1, <1>8 DEF ReadSocket, waitVars
  <2>2. Bytes
    BY <1>1, <1>2, <1>3, <1>4, <2>1 DEF In, Owing
  <2>3. Locals
    BY <1>1, <1>5, <2>1 DEF Owing
  <2> QED
    BY <1>1, <1>5, <2>2, <2>3 DEF Releasing, NothingOwed, BytesCoverWakeups, Count
<1>9. CASE Retry(t)
  <2>1. /\ pc[t] = "retry" /\ pc'[t] = "pending" /\ ctl' = ctl /\ socket' = socket
        /\ control_pending' = control_pending + 1 /\ old' = old
    BY <1>1, <1>9 DEF Retry, waitVars
  <2>2. control_pending <= MaxPending /\ ~IsTimer
    BY <1>5, <2>1 DEF Owing
  <2>3. \A u \in Threads : u # t => pc[u] \notin Owing
    BY <2>1, <2>2 DEF IInv, OneWaiter, WaitSteps, Owing
  <2>4. Bytes
    BY <1>1, <1>2, <1>3, <1>4, <2>1, <2>2 DEF In, Owing
  <2>5. Locals
    BY <1>1, <1>5, <2>1, <2>2, <2>3 DEF Owing
  <2> QED
    BY <1>1, <1>5, <2>4, <2>5 DEF Releasing, NothingOwed, BytesCoverWakeups, Count
<1>10. CASE RaiseWakeup(t)
  <2>1. /\ pc[t] = "raise" /\ pc'[t] = "none" /\ socket' = socket /\ old' = old
        /\ control_pending' = control_pending + 1 /\ control_pending < MaxPending
        /\ ctl[t] = "idle" /\ ctl' = [ctl EXCEPT ![t] = ctl'[t]]
        /\ ctl'[t] = IF control_pending = 0 THEN "write" ELSE "idle"
    BY <1>1, <1>10 DEF RaiseWakeup, Raise, waitVars
  <2>2. Bytes
    BY <1>1, <1>2, <1>3, <1>4, <2>1 DEF In, Owing
  <2>3. Locals
    BY <1>1, <1>5, <2>1 DEF Owing
  <2> QED
    BY <1>1, <1>5, <2>2, <2>3 DEF Releasing, NothingOwed, BytesCoverWakeups, Count
<1>11. CASE WriteSocket(t)
  <2>1. /\ pc' = pc /\ socket' = socket + 1 /\ old' = old /\ control_pending' = control_pending
        /\ ctl[t] = "write" /\ ctl' = [ctl EXCEPT ![t] = "idle"]
    BY <1>1, <1>11 DEF WriteSocket, WakeEvent, waitVars
  <2>2. Bytes
    BY <1>1, <1>2, <1>3, <1>4, <2>1 DEF In
  <2>3. Locals
    BY <1>1, <1>5, <2>1
  <2> QED
    BY <1>1, <1>5, <2>2, <2>3 DEF Releasing, NothingOwed, BytesCoverWakeups, Count
<1> QED
  BY <1>6, <1>7, <1>8, <1>9, <1>10, <1>11, StepKinds DEF Owing

(* The variables the types of which the lemmas above do not give.          *)
LEMMA TypeStep ==
  ASSUME IInv, NEW t \in Threads, Step(t)
  PROVE  TypeOK'
<1> USE DEF GoTo
<1>1. /\ flushing \in BOOLEAN /\ rebuild \in BOOLEAN
      /\ fds \in SUBSET (Fds \cup {Control}) /\ active_fds \in SUBSET (Fds \cup {Control})
      /\ pc \in [Threads -> WaitSteps \cup {"none", "already", "get_waiting", "raise"}]
      /\ polled \in [Threads -> SUBSET (Fds \cup {Control})]
      /\ old \in [Threads -> 0..MaxPending + 1]
      /\ res \in [Threads -> -1..Cardinality(Fds) + 1]
      /\ activity \in [Threads -> 0..Cardinality(Fds)]
      /\ control_pending \in 0..MaxPending + 1 /\ MaxPending \in Nat
      /\ Cardinality(Fds) \in Nat
  BY MaxPendingAssumption, FdsAssumption, FS_CardinalityType DEF IInv, TypeOK, Releasing
<1>2. ControlTypeOK' /\ waiting' \in 0..Cardinality(Threads)
  BY WakeupStep, WaitingStep, MaxPendingAssumption DEF ControlTypeOK, Releasing
<1> DEFINE Others == /\ flushing' \in BOOLEAN /\ rebuild' \in BOOLEAN
                     /\ fds' \in SUBSET (Fds \cup {Control})
                     /\ active_fds' \in SUBSET (Fds \cup {Control})
                     /\ pc' \in [Threads -> WaitSteps \cup {"none", "already", "get_waiting", "raise"}]
                     /\ polled' \in [Threads -> SUBSET (Fds \cup {Control})]
                     /\ old' \in [Threads -> 0..MaxPending + 1]
                     /\ res' \in [Threads -> -1..Cardinality(Fds) + 1]
                     /\ activity' \in [Threads -> 0..Cardinality(Fds)]
<1> SUFFICES Others
  BY <1>2 DEF TypeOK
<1>3. CASE Enter(t) \/ GetWaiting(t)
  BY <1>1, <1>3 DEF Enter, GetWaiting, waitVars, WaitSteps
<1>4. CASE ChangeFds(t)
  BY <1>1, <1>4 DEF ChangeFds, waitVars
<1>5. CASE SetFlushing(t)
  BY <1>1, <1>5 DEF SetFlushing, waitVars
<1>6. CASE PollFails(t) \/ PollTimesOut(t) \/ PollActivity(t) \/ PollWoken(t)
  <2>1. PICK r \in -1..Cardinality(Fds) + 1, ready \in SUBSET Fds : PollReturns(t, r, ready)
    <3>1. CASE PollFails(t) \/ PollTimesOut(t)
      <4>1. -1 \in -1..Cardinality(Fds) + 1 /\ 0 \in -1..Cardinality(Fds) + 1
        BY <1>1
      <4> QED
        BY <3>1, <4>1 DEF PollFails, PollTimesOut
    <3>2. CASE PollActivity(t)
      <4>1. PICK ready \in SUBSET (polled[t] \cap Fds) : PollReturns(t, Cardinality(ready), ready)
        BY <3>2 DEF PollActivity
      <4>2. Cardinality(ready) \in -1..Cardinality(Fds) + 1
        BY <1>1, ReadyBounds
      <4> QED
        BY <4>1, <4>2
    <3>3. CASE PollWoken(t)
      <4>1. PICK ready \in SUBSET (polled[t] \cap Fds) : PollReturns(t, Cardinality(ready) + 1, ready)
        BY <3>3 DEF PollWoken
      <4>2. Cardinality(ready) + 1 \in -1..Cardinality(Fds) + 1
        BY <1>1, ReadyBounds
      <4> QED
        BY <4>1, <4>2
    <3> QED
      BY <1>6, <3>1, <3>2, <3>3
  <2>2. Cardinality(ready) \in 0..Cardinality(Fds)
    BY ReadyBounds
  <2>3. /\ pc' = [pc EXCEPT ![t] = IF IsTimer THEN "recheck" ELSE "pending"]
        /\ res' = [res EXCEPT ![t] = r] /\ activity' = [activity EXCEPT ![t] = Cardinality(ready)]
        /\ UNCHANGED <<flushing, rebuild, fds, active_fds, polled, old>>
    BY <2>1 DEF PollReturns
  <2> QED
    BY <1>1, <2>2, <2>3 DEF WaitSteps
<1>7. CASE CheckFlushing(t) \/ TestRebuild(t) \/ CopyFds(t) \/ CallPoll(t) \/ Recheck(t)
  BY <1>1, <1>7 DEF CheckFlushing, TestRebuild, CopyFds, CallPoll, Recheck, waitVars, WaitSteps
<1>8. CASE GetPending(t)
  BY <1>1, <1>8 DEF GetPending, WaitSteps
<1>9. CASE SwapPending(t) \/ ReadSocket(t) \/ Retry(t)
  BY <1>1, <1>9 DEF SwapPending, ReadSocket, Retry, waitVars, WaitSteps
<1>10. CASE Leave(t)
  <2>1. 0 \in -1..Cardinality(Fds) + 1 /\ 0 \in 0..Cardinality(Fds) /\ 0 \in 0..MaxPending + 1
    BY <1>1
  <2> QED
    BY <1>1, <1>10, <2>1 DEF Leave
<1>11. CASE RaiseWakeup(t) \/ WriteSocket(t)
  BY <1>1, <1>11 DEF RaiseWakeup, WriteSocket, waitVars
<1> QED
  BY <1>3, <1>4, <1>5, <1>6, <1>7, <1>8, <1>9, <1>10, <1>11 DEF Step, Continue, ReleaseAll

(* rebuild is cleared before the copy is made, and no other thread waits   *)
(* meanwhile unless on a timer.                                            *)
LEMMA CopyStep ==
  ASSUME IInv, NEW t \in Threads, Step(t)
  PROVE  CopyUpToDate'
<1> USE DEF GoTo
<1>1. /\ pc \in [Threads -> WaitSteps \cup {"none", "already", "get_waiting", "raise"}]
      /\ polled \in [Threads -> SUBSET (Fds \cup {Control})]
      /\ rebuild \in BOOLEAN /\ Control \notin Fds
      /\ \A u \in Threads : u # t => pc'[u] = pc[u] /\ polled'[u] = polled[u]
  BY OwnStep, FdsAssumption DEF IInv, TypeOK
<1>2. /\ Control \in fds
      /\ rebuild \/ active_fds = fds \/ \E u \in Threads : pc[u] = "copy"
      /\ ~IsTimer => \A u \in Threads : /\ pc[u] = "call" => Control \in active_fds
                                        /\ pc[u] = "poll" => Control \in polled[u]
  BY DEF IInv, CopyUpToDate
<1>3. CASE ChangeFds(t)
  <2>1. /\ rebuild' = TRUE /\ Control \in fds' /\ UNCHANGED <<active_fds, polled>>
        /\ pc'[t] = "get_waiting"
    BY <1>1, <1>2, <1>3 DEF ChangeFds, waitVars
  <2> QED
    BY <1>1, <1>2, <2>1 DEF CopyUpToDate
<1>4. CASE TestRebuild(t)
  <2>1. /\ pc[t] = "rebuild" /\ UNCHANGED <<fds, active_fds, polled>>
        /\ IF rebuild THEN pc'[t] = "copy" ELSE pc'[t] = "call"
    BY <1>1, <1>4 DEF TestRebuild, waitVars
  <2>2. ~IsTimer => \A u \in Threads : pc[u] # "copy"
    BY <2>1 DEF IInv, OneWaiter, WaitSteps
  <2>3. rebuild' \/ active_fds' = fds' \/ \E u \in Threads : pc'[u] = "copy"
    BY <1>1, <1>2, <2>1
  <2> QED
    BY <1>1, <1>2, <2>1, <2>2, <2>3 DEF CopyUpToDate
<1>5. CASE CopyFds(t)
  <2>1. pc'[t] = "call" /\ active_fds' = fds /\ UNCHANGED <<fds, polled>>
    BY <1>1, <1>5 DEF CopyFds, waitVars
  <2> QED
    BY <1>1, <1>2, <2>1 DEF CopyUpToDate
<1>6. CASE CallPoll(t)
  <2>1. /\ pc[t] = "call" /\ pc'[t] = "poll" /\ polled'[t] = active_fds
        /\ UNCHANGED <<fds, active_fds, rebuild>>
    BY <1>1, <1>6 DEF CallPoll
  <2> QED
    BY <1>1, <1>2, <2>1 DEF CopyUpToDate
<1>7. CASE /\ UNCHANGED <<fds, active_fds, rebuild>>
           /\ (pc'[t] = pc[t] /\ polled'[t] = polled[t]) \/ pc'[t] \notin {"call", "poll"}
           /\ pc[t] # "copy"
  BY <1>1, <1>2, <1>7 DEF CopyUpToDate
<1>8. CASE Enter(t) \/ SetFlushing(t) \/ GetWaiting(t) \/ Leave(t)
  BY <1>1, <1>7, <1>8 DEF Enter, SetFlushing, GetWaiting, Leave
<1>9. CASE PollFails(t) \/ PollTimesOut(t) \/ PollActivity(t) \/ PollWoken(t)
  BY <1>1, <1>7, <1>9 DEF PollFails, PollTimesOut, PollActivity, PollWoken, PollReturns
<1>10. CASE CheckFlushing(t) \/ Recheck(t) \/ ReleaseAll(t)
  BY <1>1, <1>7, <1>10
  DEF CheckFlushing, Recheck, ReleaseAll, GetPending, SwapPending, ReadSocket, Retry
<1>11. CASE RaiseWakeup(t)
  BY <1>1, <1>7, <1>11 DEF RaiseWakeup
<1>12. CASE WriteSocket(t)
  <2>1. pc' = pc /\ UNCHANGED <<fds, active_fds, rebuild, polled>>
    BY <1>12 DEF WriteSocket, waitVars
  <2> QED
    BY <1>2, <2>1 DEF CopyUpToDate
<1> QED
  BY <1>3, <1>4, <1>5, <1>6, <1>8, <1>9, <1>10, <1>11, <1>12 DEF Step, Continue

(* A flush or a change is followed by a wakeup; a waiter that took one     *)
(* looks at flushing and at the set again before it sleeps.                *)
LEMMA MissedStep ==
  ASSUME IInv, NEW t \in Threads, Step(t)
  PROVE  MissedIsSignalled'
<1> SUFFICES ASSUME ~IsTimer, NEW u \in Threads, Missed(u)'
             PROVE  \/ control_pending' > 0
                    \/ \E v \in Threads : pc'[v] \in {"get_waiting", "raise"}
  BY DEF MissedIsSignalled
<1> USE DEF GoTo
<1>1. /\ pc \in [Threads -> WaitSteps \cup {"none", "already", "get_waiting", "raise"}]
      /\ flushing \in BOOLEAN /\ control_pending \in Nat
      /\ polled \in [Threads -> SUBSET (Fds \cup {Control})]
      /\ \A v \in Threads : v # t => pc'[v] = pc[v] /\ polled'[v] = polled[v]
  BY OwnStep, MaxPendingAssumption DEF IInv, TypeOK, Releasing
<1>2. pc'[u] \in {"rebuild", "copy", "call", "poll"}
  BY DEF Missed
<1>3. Missed(u) => \/ control_pending > 0
                   \/ \E v \in Threads : pc[v] \in {"get_waiting", "raise"}
  BY DEF IInv, MissedIsSignalled
<1>4. pc[t] \in WaitSteps /\ pc[u] \in WaitSteps => t = u
  BY DEF IInv, OneWaiter
<1>5. ASSUME Missed(u), control_pending' = control_pending, pc[t] \notin {"get_waiting", "raise"}
      PROVE  \/ control_pending' > 0
             \/ \E v \in Threads : pc'[v] \in {"get_waiting", "raise"}
  BY <1>1, <1>3, <1>5
<1>6. CASE Enter(t) \/ Leave(t)
  BY <1>1, <1>2, <1>5, <1>6 DEF Enter, Leave, Missed, ctlVars
<1>7. CASE ChangeFds(t)
  BY <1>1, <1>7 DEF ChangeFds
<1>8. CASE SetFlushing(t)
  <2>1. CASE flushing
    BY <1>1, <1>2, <1>5, <1>8, <2>1 DEF SetFlushing, Missed, ctlVars
  <2>2. CASE ~flushing
    BY <1>1, <1>8, <2>2 DEF SetFlushing
  <2> QED
    BY <2>1, <2>2
<1>9. CASE GetWaiting(t)
  <2>1. pc[t] = "get_waiting" /\ UNCHANGED <<flushing, fds, active_fds, polled>> /\ u # t
    BY <1>1, <1>2, <1>9 DEF GetWaiting, waitVars
  <2>2. pc[u] \in Waiters
    BY <1>1, <1>2, <2>1 DEF Waiters, WaitSteps
  <2>3. waiting > 0
    <3>1. waiting = Count(pc, Waiters)
      BY DEF IInv, WaitingCounts
    <3> QED
      BY <2>2, <3>1, CountBounds
  <2> QED
    BY <1>1, <1>9, <2>1, <2>3 DEF GetWaiting
<1>10. CASE RaiseWakeup(t)
  BY <1>1, <1>10 DEF RaiseWakeup, Raise
<1>11. CASE WriteSocket(t)
  BY <1>3, <1>11 DEF WriteSocket, WakeEvent, waitVars, Missed
<1>12. CASE ReleaseAll(t)
  <2>1. pc[t] \in WaitSteps /\ pc'[t] \notin {"rebuild", "copy", "call", "poll"}
    BY <1>1, <1>12 DEF ReleaseAll, GetPending, SwapPending, ReadSocket, Retry, WaitSteps
  <2> QED
    BY <1>1, <1>2, <1>4, <2>1 DEF WaitSteps
<1>13. CASE \/ CheckFlushing(t) \/ TestRebuild(t) \/ CopyFds(t) \/ CallPoll(t) \/ Recheck(t)
            \/ PollFails(t) \/ PollTimesOut(t) \/ PollActivity(t) \/ PollWoken(t)
  <2>1. /\ pc[t] \in WaitSteps /\ UNCHANGED <<control_pending, flushing, fds>>
        /\ pc[t] \notin {"get_waiting", "raise"}
    BY <1>1, <1>13
    DEF CheckFlushing, TestRebuild, CopyFds, CallPoll, Recheck, PollFails, PollTimesOut,
        PollActivity, PollWoken, PollReturns, WaitSteps, ctlVars
  <2>2. u = t
    BY <1>1, <1>2, <1>4, <2>1 DEF WaitSteps
  <2>3. CASE CheckFlushing(t) \/ Recheck(t)
    BY <1>1, <1>2, <2>1, <2>2, <2>3 DEF CheckFlushing, Recheck, Missed
  <2>4. CASE TestRebuild(t)
    <3>1. /\ pc[t] = "rebuild" /\ active_fds' = active_fds
          /\ pc'[t] = IF rebuild THEN "copy" ELSE "call"
      BY <1>1, <2>4 DEF TestRebuild
    <3>2. \A v \in Threads : pc[v] # "copy"
      BY <3>1 DEF IInv, OneWaiter, WaitSteps
    <3>3. ~rebuild => active_fds = fds
      BY <3>2 DEF IInv, CopyUpToDate
    <3>4. Missed(t)
      BY <2>1, <2>2, <3>1, <3>3 DEF Missed
    <3> QED
      BY <1>5, <2>1, <2>2, <3>4
  <2>5. CASE CopyFds(t)
    <3>1. Missed(t)
      BY <1>1, <2>1, <2>2, <2>5 DEF CopyFds, Missed
    <3> QED
      BY <1>5, <2>1, <2>2, <3>1
  <2>6. CASE CallPoll(t)
    <3>1. Missed(t)
      BY <1>1, <2>1, <2>2, <2>6 DEF CallPoll, Missed
    <3> QED
      BY <1>5, <2>1, <2>2, <3>1
  <2>7. CASE PollFails(t) \/ PollTimesOut(t) \/ PollActivity(t) \/ PollWoken(t)
    BY <1>1, <1>2, <2>2, <2>7 DEF PollFails, PollTimesOut, PollActivity, PollWoken, PollReturns
  <2> QED
    BY <1>13, <2>3, <2>4, <2>5, <2>6, <2>7
<1> QED
  BY <1>6, <1>7, <1>8, <1>9, <1>10, <1>11, <1>12, <1>13 DEF Step, Continue

LEMMA NextIInv == IInv /\ [Next]_vars => IInv'
<1> SUFFICES ASSUME IInv, [Next]_vars PROVE IInv'
  OBVIOUS
<1>1. ASSUME NEW t \in Threads, Step(t) PROVE IInv'
  BY <1>1, TypeStep, WaitingStep, WakeupStep, CopyStep, MissedStep DEF IInv
<1>2. CASE UNCHANGED vars
  BY <1>2
  DEF vars, ctlVars, waitVars, IInv, TypeOK, ControlTypeOK, WaitingCounts, OneWaiter, Releasing,
      NothingOwed, BytesCoverWakeups, CopyUpToDate, MissedIsSignalled, Missed, Count
<1> QED
  BY <1>1, <1>2 DEF Next, Step

LEMMA Inductive == Spec => []IInv
BY InitIInv, NextIInv, PTL DEF Spec

-----------------------------------------------------------------------------
(* Every variable of a poll keeps its type; waiting is never negative and  *)
(* never above the number of threads.                                      *)
THEOREM TypeCorrect == Spec => []TypeOK
<1>1. IInv => TypeOK
  BY DEF IInv
<1> QED
  BY <1>1, Inductive, PTL

(* release_all_wakeup: while wakeups are counted, the byte it tries to     *)
(* read is in the socket or about to be written, so its loop ends.         *)
THEOREM SpinningEnds == Spec => []SpinEnds
<1>1. ASSUME IInv PROVE SpinEnds
  <2>1. /\ socket \in Nat /\ control_pending \in Nat
        /\ socket + Count(ctl, {"write"}) >= Count(pc, Owing) + (IF control_pending > 0 THEN 1 ELSE 0)
    BY <1>1, MaxPendingAssumption DEF IInv, TypeOK, ControlTypeOK, Releasing, BytesCoverWakeups
  <2>2. /\ Count(ctl, {"write"}) \in 0..Cardinality(Threads)
        /\ Count(pc, Owing) \in 0..Cardinality(Threads)
        /\ Count(ctl, {"write"}) = 0 <=> \A t \in Threads : ctl[t] \notin {"write"}
        /\ Cardinality(Threads) \in Nat
    BY CountBounds, ThreadsAssumption, FS_CardinalityType
  <2> QED
    BY <2>1, <2>2 DEF SpinEnds, Readable
<1> QED
  BY <1>1, Inductive, PTL

(* gst_poll_set_flushing and gst_poll_restart: when the calls are over, no *)
(* thread sleeps in poll() on a poll that is flushing or on an outdated    *)
(* set.  A timer poll does not promise it (see WaitsOnControl).            *)
THEOREM NothingIsMissed == ASSUME ~IsTimer PROVE Spec => []NothingMissed
<1>1. ASSUME IInv PROVE NothingMissed
  <2>1. ASSUME NEW t \in Threads, pc[t] = "poll", Missed(t), Quiet(t)
        PROVE  WokenByControl(t)
    <3>1. ctl[t] = "idle" /\ Control \in polled[t]
      BY <1>1, <2>1 DEF IInv, NothingOwed, CopyUpToDate
    <3>2. Count(ctl, {"write"}) = 0
      BY <2>1, <3>1, CountBounds DEF Quiet
    <3>3. control_pending > 0
      BY <1>1, <2>1 DEF IInv, MissedIsSignalled, Quiet
    <3>4. Count(pc, Owing) \in Nat /\ socket \in Nat
      BY <1>1, CountBounds, ThreadsAssumption, FS_CardinalityType DEF IInv, TypeOK, ControlTypeOK
    <3>5. socket > 0
      BY <1>1, <3>2, <3>3, <3>4 DEF IInv, BytesCoverWakeups
    <3> QED
      BY <3>1, <3>5 DEF WokenByControl, Readable
  <2> QED
    BY <2>1 DEF NothingMissed, FlushNotLost, ChangeNotLost, Missed
<1> QED
  BY <1>1, Inductive, PTL
=============================================================================
