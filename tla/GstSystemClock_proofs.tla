----------------------- MODULE GstSystemClock_proofs -----------------------
(***************************************************************************)
(* Two facts about the system clock for any entries, any way of using them *)
(* and any time: wakeup_count is exact, and a wait that returns            *)
(* GST_CLOCK_OK returns in time.                                           *)
(*                                                                         *)
(* The argument: the status of an entry, which others change by compare-   *)
(* and-exchange, and the step of the thread that waits for it agree        *)
(* (StatusOfStep).  So an entry that is given a wakeup is one whose thread *)
(* is at the poll, and stays UNSCHEDULED until the thread has taken the    *)
(* wakeup back, once (WokenIsCleanedUp).                                   *)
(***************************************************************************)
EXTENDS GstSystemClock, FiniteSetTheorems, SequenceTheorems, TLAPS

PollSteps == {"poll", "woken", "timeout"}

StatusOfStep ==
  \A e \in Entries :
    /\ step[e] \in PollSteps => status[e] \in {"BUSY", "UNSCHEDULED"}
    /\ status[e] = "BUSY" => step[e] \in PollSteps
    /\ step[e] = "cleanup" => status[e] = "UNSCHEDULED"

(* The entries the count stands for. *)
Counted(e) == woken_up[e] /\ ~unscheduled[e]

WokenIsCleanedUp ==
  \A e \in Entries :
    /\ Counted(e) => status[e] = "UNSCHEDULED" /\ step[e] \in PollSteps \cup {"cleanup"}
    /\ unscheduled[e] =>
         /\ status[e] = "UNSCHEDULED"
         /\ \/ step[e] \in {"idle", "check"}
            \/ step[e] = "returned" /\ result[e] = "UNSCHEDULED"

(* Nobody but the async thread waits for an asynchronous entry, one at a   *)
(* time.                                                                   *)
AsyncTurn ==
  /\ \A e \in Async : step[e] # "idle" => current = e /\ async \in {"waiting", "fire"}
  /\ async = "fire" => current \in Async /\ step[current] = "returned"

(* What it waits for is in the list until it is done with it. *)
CurrentListed == current # NONE => Contains(entries, current)

InTime ==
  \A e \in Entries :
    step[e] = "finish" \/ (step[e] = "returned" /\ result[e] = "OK") => time[e] <= now

IInv ==
  /\ TypeOK
  /\ StatusOfStep
  /\ WokenIsCleanedUp
  /\ AsyncTurn
  /\ CurrentListed
  /\ InTime
  /\ WakeupsCounted

-----------------------------------------------------------------------------
(* Two finite sets that differ in one element at most.                     *)
LEMMA SetUpdate ==
  ASSUME NEW S, NEW T, NEW e, IsFiniteSet(S), T \ {e} = S \ {e}
  PROVE  /\ Cardinality(S) \in Nat /\ Cardinality(T) \in Nat
         /\ e \in S /\ e \in T => Cardinality(T) = Cardinality(S)
         /\ e \notin S /\ e \notin T => Cardinality(T) = Cardinality(S)
         /\ e \in S /\ e \notin T => Cardinality(T) = Cardinality(S) - 1
         /\ e \notin S /\ e \in T => Cardinality(T) = Cardinality(S) + 1
<1> DEFINE rest == S \ {e}
<1>1. IsFiniteSet(rest) /\ Cardinality(rest) = IF e \in S THEN Cardinality(S) - 1 ELSE Cardinality(S)
  BY FS_RemoveElement
<1>2. IsFiniteSet(T)
  <2>1. T \subseteq rest \cup {e}
    OBVIOUS
  <2>2. IsFiniteSet(rest \cup {e})
    BY <1>1, FS_AddElement
  <2> QED
    BY <2>1, <2>2, FS_Subset
<1>3. Cardinality(rest) = IF e \in T THEN Cardinality(T) - 1 ELSE Cardinality(T)
  <2>1. T \ {e} = rest
    OBVIOUS
  <2>2. Cardinality(T \ {e}) = IF e \in T THEN Cardinality(T) - 1 ELSE Cardinality(T)
    BY <1>2, FS_RemoveElement
  <2> HIDE DEF rest
  <2> QED
    BY <2>1, <2>2
<1>4. Cardinality(S) \in Nat /\ Cardinality(T) \in Nat
  BY <1>2, FS_CardinalityType
<1> HIDE DEF rest
<1> QED
  BY <1>1, <1>3, <1>4

(* A list with an element more, and with one less. *)
LEMMA InsertedAt ==
  ASSUME NEW D, NEW s \in Seq(D), NEW e \in D, NEW i \in 1..Len(s) + 1
  PROVE  /\ InsertAt(s, i, e) \in Seq(D) /\ Len(InsertAt(s, i, e)) = Len(s) + 1
         /\ \A k \in 1..Len(s) + 1 :
              InsertAt(s, i, e)[k] = IF k < i THEN s[k] ELSE IF k = i THEN e ELSE s[k - 1]
<1> DEFINE front == SubSeq(s, 1, i - 1)
           back == SubSeq(s, i, Len(s))
           half == front \o <<e>>
<1>1. Len(s) \in Nat /\ i \in Nat /\ i >= 1 /\ i <= Len(s) + 1
  BY LenProperties
<1>2. /\ front \in Seq(D) /\ Len(front) = i - 1
      /\ \A k \in 1..i - 1 : front[k] = s[k]
  <2>1. 1 \in 1..Len(s) + 1 /\ i - 1 \in 0..Len(s) /\ i - 1 \in 1 - 1..Len(s)
    BY <1>1
  <2>2. \A k \in 1..i - 1 : 1 + k - 1 = k
    BY <1>1
  <2> QED
    BY <1>1, <2>1, <2>2, SubSeqProperties
<1>3. /\ back \in Seq(D) /\ Len(back) = Len(s) + 1 - i
      /\ \A k \in 1..Len(s) + 1 - i : back[k] = s[i + k - 1]
  <2>1. Len(s) \in i - 1..Len(s)
    BY <1>1
  <2> QED
    BY <1>1, <2>1, SubSeqProperties
<1>4. <<e>> \in Seq(D) /\ Len(<<e>>) = 1 /\ <<e>>[1] = e
  OBVIOUS
<1> HIDE DEF front, back
<1>5. /\ half \in Seq(D) /\ Len(half) = i
      /\ \A k \in 1..i : half[k] = IF k < i THEN s[k] ELSE e
  BY <1>1, <1>2, <1>4, ConcatProperties
<1> HIDE DEF half
<1>6. /\ half \o back \in Seq(D) /\ Len(half \o back) = Len(s) + 1
      /\ \A k \in 1..Len(s) + 1 :
           (half \o back)[k] = IF k < i THEN s[k] ELSE IF k = i THEN e ELSE s[k - 1]
  <2>1. /\ half \o back \in Seq(D) /\ Len(half \o back) = Len(s) + 1
        /\ \A k \in 1..Len(s) + 1 :
             (half \o back)[k] = IF k <= i THEN half[k] ELSE back[k - i]
    BY <1>1, <1>3, <1>5, ConcatProperties
  <2>2. ASSUME NEW k \in 1..Len(s) + 1
        PROVE  (half \o back)[k] = IF k < i THEN s[k] ELSE IF k = i THEN e ELSE s[k - 1]
    <3>1. CASE k <= i
      BY <1>1, <1>5, <2>1, <3>1
    <3>2. CASE k > i
      <4>1. k - i \in 1..Len(s) + 1 - i /\ i + (k - i) - 1 = k - 1
        BY <1>1, <3>2
      <4>2. back[k - i] = s[k - 1]
        BY <1>3, <4>1
      <4> QED
        BY <1>1, <2>1, <3>2, <4>2
    <3>3. k <= i \/ k > i
      BY <1>1
    <3> QED
      BY <3>1, <3>2, <3>3
  <2> QED
    BY <2>1, <2>2
<1> QED
  BY <1>6 DEF InsertAt, half, front, back

LEMMA RemovedAt ==
  ASSUME NEW D, NEW s \in Seq(D), NEW i \in 1..Len(s)
  PROVE  /\ RemoveAt(s, i) \in Seq(D) /\ Len(RemoveAt(s, i)) = Len(s) - 1
         /\ \A k \in 1..Len(s) - 1 : RemoveAt(s, i)[k] = IF k < i THEN s[k] ELSE s[k + 1]
<1> DEFINE front == SubSeq(s, 1, i - 1)
           back == SubSeq(s, i + 1, Len(s))
<1>1. Len(s) \in Nat /\ i \in Nat /\ i >= 1 /\ i <= Len(s)
  BY LenProperties
<1>2. /\ front \in Seq(D) /\ Len(front) = i - 1
      /\ \A k \in 1..i - 1 : front[k] = s[k]
  <2>1. 1 \in 1..Len(s) + 1 /\ i - 1 \in 1 - 1..Len(s)
    BY <1>1
  <2>2. \A k \in 1..i - 1 : 1 + k - 1 = k
    BY <1>1
  <2> QED
    BY <1>1, <2>1, <2>2, SubSeqProperties
<1>3. /\ back \in Seq(D) /\ Len(back) = Len(s) - i
      /\ \A k \in 1..Len(s) - i : back[k] = s[i + k]
  <2>1. Len(s) \in (i + 1) - 1..Len(s) /\ i + 1 \in 1..Len(s) + 1
    BY <1>1
  <2> QED
    BY <1>1, <2>1, SubSeqProperties
<1> HIDE DEF front, back
<1>4. /\ front \o back \in Seq(D) /\ Len(front \o back) = Len(s) - 1
      /\ \A k \in 1..Len(s) - 1 : (front \o back)[k] = IF k < i THEN s[k] ELSE s[k + 1]
  <2>1. /\ front \o back \in Seq(D) /\ Len(front \o back) = Len(s) - 1
        /\ \A k \in 1..Len(s) - 1 :
             (front \o back)[k] = IF k <= i - 1 THEN front[k] ELSE back[k - (i - 1)]
    <3>1. Len(front) + Len(back) = Len(s) - 1
      BY <1>1, <1>2, <1>3
    <3>2. /\ front \o back \in Seq(D) /\ Len(front \o back) = Len(front) + Len(back)
          /\ \A k \in 1..Len(front) + Len(back) :
               (front \o back)[k] = IF k <= Len(front) THEN front[k] ELSE back[k - Len(front)]
      BY <1>2, <1>3, ConcatProperties
    <3> QED
      BY <1>2, <3>1, <3>2
  <2>2. ASSUME NEW k \in 1..Len(s) - 1
        PROVE  (front \o back)[k] = IF k < i THEN s[k] ELSE s[k + 1]
    <3>1. CASE k < i
      <4>1. k \in 1..i - 1
        BY <1>1, <3>1
      <4>2. k \in 1..Len(s) - 1 /\ k <= i - 1
        BY <1>1, <3>1
      <4> QED
        BY <1>2, <2>1, <3>1, <4>1, <4>2
    <3>2. CASE k >= i
      <4>1. k - (i - 1) \in 1..Len(s) - i /\ i + (k - (i - 1)) = k + 1
        BY <1>1, <3>2
      <4>2. back[k - (i - 1)] = s[k + 1]
        BY <1>3, <4>1
      <4>3. k \in 1..Len(s) - 1 /\ ~(k < i) /\ ~(k <= i - 1)
        BY <1>1, <3>2
      <4>4. (front \o back)[k] = back[k - (i - 1)]
        BY <2>1, <4>3
      <4> QED
        BY <4>2, <4>3, <4>4
    <3>3. k < i \/ k >= i
      BY <1>1
    <3> QED
      BY <3>1, <3>2, <3>3
  <2> QED
    BY <2>1, <2>2
<1> QED
  BY <1>4 DEF RemoveAt, front, back

(* g_list_insert_sorted and g_list_remove keep a list of different entries.*)
LEMMA Inserted ==
  ASSUME NEW list \in Seq(Async), IsInjective(list), NEW e \in Async, ~Contains(list, e),
         NEW t, InsertSorted(list, e, t)
  PROVE  /\ entries' \in Seq(Async) /\ IsInjective(entries')
         /\ \A x : Contains(entries', x) <=> Contains(list, x) \/ x = e
<1>1. PICK i \in 1..Len(list) + 1 : entries' = InsertAt(list, i, e)
  BY DEF InsertSorted
<1>2. /\ entries' \in Seq(Async) /\ Len(entries') = Len(list) + 1 /\ Len(list) \in Nat
      /\ \A k \in 1..Len(list) + 1 :
           entries'[k] = IF k < i THEN list[k] ELSE IF k = i THEN e ELSE list[k - 1]
  <2>1. Len(list) \in Nat
    BY LenProperties
  <2>2. /\ InsertAt(list, i, e) \in Seq(Async) /\ Len(InsertAt(list, i, e)) = Len(list) + 1
        /\ \A k \in 1..Len(list) + 1 :
             InsertAt(list, i, e)[k] = IF k < i THEN list[k] ELSE IF k = i THEN e ELSE list[k - 1]
    BY InsertedAt
  <2> QED
    BY <1>1, <2>1, <2>2
<1>3. /\ \A j, k \in 1..Len(list) : list[j] = list[k] => j = k
      /\ \A k \in 1..Len(list) : list[k] # e
  BY DEF IsInjective, Contains
<1>4. \A j, k \in 1..Len(list) + 1 : entries'[j] = entries'[k] => j = k
  <2> SUFFICES ASSUME NEW j \in 1..Len(list) + 1, NEW k \in 1..Len(list) + 1,
                      entries'[j] = entries'[k]
               PROVE  j = k
    OBVIOUS
  <2> DEFINE at(x) == IF x < i THEN x ELSE x - 1
  <2>1. ASSUME NEW x \in 1..Len(list) + 1
        PROVE  /\ x # i => at(x) \in 1..Len(list) /\ entries'[x] = list[at(x)]
               /\ x = i => entries'[x] = e
    BY <1>2
  <2>2. \A x, y \in 1..Len(list) + 1 : x # i /\ y # i /\ at(x) = at(y) => x = y
    BY <1>2
  <2> HIDE DEF at
  <2> QED
    BY <1>3, <2>1, <2>2
<1>5. IsInjective(entries')
  BY <1>2, <1>4 DEF IsInjective
<1>6. ASSUME NEW x, Contains(entries', x) PROVE Contains(list, x) \/ x = e
  <2>1. PICK k \in 1..Len(list) + 1 : entries'[k] = x
    BY <1>2, <1>6 DEF Contains
  <2>2. /\ k < i => k \in 1..Len(list)
        /\ k > i => k - 1 \in 1..Len(list)
    BY <1>2
  <2> QED
    BY <1>2, <2>1, <2>2 DEF Contains
<1>7. ASSUME NEW x, Contains(list, x) \/ x = e PROVE Contains(entries', x)
  <2>1. CASE x = e
    BY <1>2, <2>1 DEF Contains
  <2>2. CASE Contains(list, x)
    <3>1. PICK k \in 1..Len(list) : list[k] = x
      BY <2>2 DEF Contains
    <3>2. CASE k < i
      <4>1. k \in 1..Len(list) + 1 /\ entries'[k] = x
        BY <1>2, <3>1, <3>2
      <4> QED
        BY <1>2, <4>1 DEF Contains
    <3>3. CASE k >= i
      <4>1. k + 1 \in 1..Len(list) + 1 /\ k + 1 > i /\ (k + 1) - 1 = k
        BY <1>2, <3>3
      <4>2. entries'[k + 1] = x
        BY <1>2, <3>1, <4>1
      <4> QED
        BY <1>2, <4>1, <4>2 DEF Contains
    <3> QED
      BY <1>2, <3>2, <3>3
  <2> QED
    BY <1>7, <2>1, <2>2
<1> QED
  BY <1>2, <1>5, <1>6, <1>7

LEMMA Removed ==
  ASSUME entries \in Seq(Async), IsInjective(entries), NEW e, Contains(entries, e)
  PROVE  /\ Without(e) \in Seq(Async) /\ IsInjective(Without(e))
         /\ ~Contains(Without(e), e)
<1> DEFINE n == CHOOSE i \in 1..Len(entries) : entries[i] = e
<1>1. n \in 1..Len(entries) /\ entries[n] = e
  BY DEF Contains
<1>2. Without(e) = RemoveAt(entries, n)
  BY DEF Without
<1> HIDE DEF n
<1>3. /\ Without(e) \in Seq(Async) /\ Len(Without(e)) = Len(entries) - 1 /\ Len(entries) \in Nat
      /\ \A k \in 1..Len(entries) - 1 :
           Without(e)[k] = IF k < n THEN entries[k] ELSE entries[k + 1]
  <2>1. Len(entries) \in Nat
    BY LenProperties
  <2> QED
    BY <1>1, <1>2, <2>1, RemovedAt
<1>4. \A j, k \in 1..Len(entries) : entries[j] = entries[k] => j = k
  BY DEF IsInjective
<1>5. \A k \in 1..Len(entries) - 1 : k \in 1..Len(entries) /\ k + 1 \in 1..Len(entries)
  BY <1>3
<1>6. \A k \in 1..Len(entries) - 1 : Without(e)[k] # e
  BY <1>1, <1>3, <1>4, <1>5
<1>7. \A j, k \in 1..Len(entries) - 1 : Without(e)[j] = Without(e)[k] => j = k
  <2> DEFINE at(x) == IF x < n THEN x ELSE x + 1
  <2>1. \A x \in 1..Len(entries) - 1 : at(x) \in 1..Len(entries) /\ Without(e)[x] = entries[at(x)]
    BY <1>1, <1>3, <1>5
  <2>2. \A x, y \in 1..Len(entries) - 1 : at(x) = at(y) => x = y
    BY <1>1, <1>3
  <2> HIDE DEF at
  <2> QED
    BY <1>4, <2>1, <2>2
<1> QED
  BY <1>3, <1>6, <1>7 DEF IsInjective, Contains

-----------------------------------------------------------------------------
(* The parts of IInv that speak of one entry at a time. *)
Local(e) ==
  /\ step[e] \in PollSteps => status[e] \in {"BUSY", "UNSCHEDULED"}
  /\ status[e] = "BUSY" => step[e] \in PollSteps
  /\ step[e] = "cleanup" => status[e] = "UNSCHEDULED"
  /\ Counted(e) => status[e] = "UNSCHEDULED" /\ step[e] \in PollSteps \cup {"cleanup"}
  /\ unscheduled[e] =>
       /\ status[e] = "UNSCHEDULED"
       /\ \/ step[e] \in {"idle", "check"}
          \/ step[e] = "returned" /\ result[e] = "UNSCHEDULED"
  /\ step[e] = "finish" \/ (step[e] = "returned" /\ result[e] = "OK") => time[e] <= now

LEMMA AllLocal ==
  (\A e \in Entries : Local(e)) <=> StatusOfStep /\ WokenIsCleanedUp /\ InTime
BY DEF Local, StatusOfStep, WokenIsCleanedUp, InTime

(* What is not changed of an entry by a step of another's. *)
Same(x) ==
  /\ step'[x] = step[x] /\ result'[x] = result[x] /\ time'[x] = time[x]
  /\ status'[x] = status[x] /\ unscheduled'[x] = unscheduled[x] /\ woken_up'[x] = woken_up[x]

LEMMA SameLocal ==
  ASSUME NEW x \in Entries, Local(x), Same(x), now \in Nat, now' \in Nat, now' >= now,
         time[x] \in Nat
  PROVE  Local(x)'
BY DEF Local, Same, Counted

(* The steps of the thread that waits for e, the async thread's when it is *)
(* done with e, and what clients do with e.                                *)
EntryStep(e) ==
  \/ WaitStep(e) \/ PollTimesOut(e) \/ PollReturns(e)
  \/ e \in Async /\ (SkipUnscheduled(e) \/ Restart(e) \/ Fire(e) \/ Fired(e))
  \/ Wait(e) \/ Returned(e) \/ EntryReinit(e) \/ WaitAsync(e) \/ Unschedule(e)

LEMMA EntryTypes ==
  ASSUME TypeOK
  PROVE  /\ now \in Nat /\ time \in [Entries -> Nat]
         /\ status \in [Entries -> Results \cup {"DONE"}]
         /\ unscheduled \in [Entries -> BOOLEAN] /\ woken_up \in [Entries -> BOOLEAN]
         /\ DOMAIN step = Entries /\ step = [e \in Entries |-> step[e]]
         /\ result \in [Entries -> Results \cup {NONE}]
BY ClockAssumption DEF TypeOK

LEMMA EntryLocal ==
  ASSUME IInv, NEW e \in Entries, EntryStep(e)
  PROVE  /\ now' = now
         /\ \A x \in Entries : x # e => Same(x)
         /\ Local(e)'
<1>1. /\ now \in Nat /\ time \in [Entries -> Nat]
      /\ status \in [Entries -> Results \cup {"DONE"}]
      /\ unscheduled \in [Entries -> BOOLEAN] /\ woken_up \in [Entries -> BOOLEAN]
      /\ DOMAIN step = Entries /\ step = [x \in Entries |-> step[x]]
      /\ result \in [Entries -> Results \cup {NONE}]
  BY EntryTypes DEF IInv
<1>2. Local(e)
  BY AllLocal DEF IInv
<1> USE DEF Local, Same, Counted, PollSteps, GoTo, SetStatus, Return, entryVars, threadVars, wakeVars
<1>3. CASE Check(e)
  BY <1>1, <1>2, <1>3 DEF Check
<1>4. CASE ReadTime(e) \/ Retime(e)
  BY <1>1, <1>2, <1>4 DEF ReadTime, Retime
<1>5. CASE MarkBusy(e)
  BY <1>1, <1>2, <1>5 DEF MarkBusy
<1>6. CASE PollTimesOut(e) \/ PollReturns(e)
  BY <1>1, <1>2, <1>6 DEF PollTimesOut, PollReturns
<1>7. CASE MarkDone(e)
  BY <1>1, <1>2, <1>7 DEF MarkDone
<1>8. CASE Cleanup(e)
  BY <1>1, <1>2, <1>8 DEF Cleanup
<1>9. CASE WaitWakeup(e)
  BY <1>1, <1>2, <1>9 DEF WaitWakeup
<1>10. CASE FinishWait(e)
  BY <1>1, <1>2, <1>10 DEF FinishWait
<1>11. CASE Wait(e) \/ Returned(e)
  BY <1>1, <1>2, <1>11 DEF Wait, Returned
<1>12. CASE EntryReinit(e)
  BY <1>1, <1>2, <1>12 DEF EntryReinit
<1>13. CASE WaitAsync(e)
  BY <1>1, <1>2, <1>13 DEF WaitAsync
<1>14. CASE Unschedule(e)
  BY <1>1, <1>2, <1>14 DEF Unschedule
<1>15. CASE e \in Async /\ SkipUnscheduled(e)
  BY <1>1, <1>2, <1>15 DEF SkipUnscheduled, Handled, Drop
<1>16. CASE e \in Async /\ Restart(e)
  BY <1>1, <1>2, <1>16 DEF Restart, Handled
<1>17. CASE e \in Async /\ Fire(e)
  BY <1>1, <1>2, <1>17 DEF Fire, Handled
<1>18. CASE e \in Async /\ Fired(e)
  <2>1. step[e] = "returned"
    BY <1>18 DEF Fired, IInv, AsyncTurn
  <2> QED
    BY <1>1, <1>2, <1>18, <2>1 DEF Fired, Drop
<1> QED
  BY <1>3, <1>4, <1>5, <1>6, <1>7, <1>8, <1>9, <1>10, <1>11, <1>12, <1>13, <1>14, <1>15,
     <1>16, <1>17, <1>18
  DEF EntryStep, WaitStep

LEMMA LocalStep ==
  ASSUME IInv, Next
  PROVE  (StatusOfStep /\ WokenIsCleanedUp /\ InTime)'
<1>1. /\ now \in Nat /\ time \in [Entries -> Nat]
      /\ status \in [Entries -> Results \cup {"DONE"}]
      /\ unscheduled \in [Entries -> BOOLEAN] /\ woken_up \in [Entries -> BOOLEAN]
      /\ DOMAIN step = Entries /\ step = [x \in Entries |-> step[x]]
      /\ entries \in Seq(Async)
  BY EntryTypes DEF IInv, TypeOK
<1>2. \A x \in Entries : Local(x)
  BY AllLocal DEF IInv
<1> SUFFICES ASSUME NEW x \in Entries PROVE Local(x)'
  BY DEF AllLocal, Local, StatusOfStep, WokenIsCleanedUp, InTime
<1>3. CASE Tick
  <2>1. Same(x) /\ now' \in Nat /\ now' >= now
    BY <1>1, <1>3 DEF Tick, Same, entryVars, threadVars
  <2> QED
    BY <1>1, <1>2, <2>1, SameLocal
<1>4. CASE StartAsync \/ SpinUp \/ Awake \/ Rest
  <2>1. Same(x) /\ now' = now
    BY <1>4 DEF StartAsync, SpinUp, Awake, Rest, Same, entryVars
  <2> QED
    BY <1>1, <1>2, <2>1, SameLocal
<1>5. CASE Pick
  <2> DEFINE h == Head(entries)
  <2>1. h \in Async /\ h \in Entries
    BY <1>1, <1>5, HeadTailProperties DEF Pick, Entries
  <2>2. step[h] = "idle"
    BY <1>5, <2>1 DEF Pick, IInv, AsyncTurn
  <2>3. /\ step' = [step EXCEPT ![h] = "check"]
        /\ UNCHANGED <<now, time, status, unscheduled, woken_up, result>>
    BY <1>5 DEF Pick, GoTo, entryVars
  <2> HIDE DEF h
  <2>4. CASE x # h
    <3>1. Same(x) /\ now' = now
      BY <1>1, <2>3, <2>4 DEF Same
    <3> QED
      BY <1>1, <1>2, <3>1, SameLocal
  <2>5. CASE x = h
    BY <1>1, <1>2, <2>2, <2>3, <2>5 DEF Local, Counted, PollSteps
  <2> QED
    BY <2>4, <2>5
<1>6. CASE Dispose
  <2>1. /\ status'[x] = "UNSCHEDULED" \/ status'[x] = status[x]
        /\ UNCHANGED <<now, time, unscheduled, woken_up, step, result>>
    BY <1>6 DEF Dispose
  <2> QED
    BY <1>1, <1>2, <2>1 DEF Local, Counted, PollSteps
<1>7. ASSUME NEW e \in Entries, EntryStep(e) PROVE Local(x)'
  BY <1>1, <1>2, <1>7, EntryLocal, SameLocal
<1>8. Async \subseteq Entries
  BY DEF Entries
<1> QED
  BY <1>3, <1>4, <1>5, <1>6, <1>7, <1>8 DEF Next, AsyncStep, EntryStep

(* One thread serves the asynchronous entries. *)
LEMMA TurnStep ==
  ASSUME IInv, Next
  PROVE  AsyncTurn'
<1>1. /\ DOMAIN step = Entries /\ step = [x \in Entries |-> step[x]]
      /\ entries \in Seq(Async) /\ Async \subseteq Entries /\ Sync \cap Async = {}
  BY EntryTypes, ClockAssumption DEF IInv, TypeOK, Entries
<1>2. /\ \A x \in Async : step[x] # "idle" => current = x /\ async \in {"waiting", "fire"}
      /\ async = "fire" => current \in Async /\ step[current] = "returned"
  BY DEF IInv, AsyncTurn
<1>3. CASE /\ step' = step /\ current' = current
           /\ async' = async \/ (async \notin {"waiting", "fire"} /\ async' \notin {"waiting", "fire"})
  BY <1>2, <1>3 DEF AsyncTurn
<1>4. CASE Tick \/ StartAsync \/ SpinUp \/ Awake \/ Rest \/ Dispose
  BY <1>3, <1>4
  DEF Tick, StartAsync, SpinUp, Awake, Rest, Dispose, threadVars, AsyncWoken
<1>5. CASE Pick
  <2>1. Head(entries) \in Async
    BY <1>1, <1>5, HeadTailProperties DEF Pick
  <2>2. step' = [step EXCEPT ![Head(entries)] = "check"]
    BY <1>5 DEF Pick, GoTo
  <2> QED
    BY <1>1, <1>2, <1>5, <2>1, <2>2 DEF Pick, AsyncTurn
<1>6. ASSUME NEW e \in Entries, EntryStep(e) PROVE AsyncTurn'
  <2>1. \A x \in Entries : x # e => step'[x] = step[x]
    BY <1>6, EntryLocal DEF Same
  <2> USE DEF GoTo, Return, entryVars, threadVars, wakeVars
  <2>2. CASE /\ step[e] \notin {"idle", "returned"} \/ e \in Sync
             /\ current' = current
             /\ async' = async \/ (async \notin {"waiting", "fire"} /\ async' \notin {"waiting", "fire"})
    BY <1>1, <1>2, <2>1, <2>2 DEF AsyncTurn
  <2>3. CASE WaitStep(e) \/ PollTimesOut(e) \/ PollReturns(e)
    <3>1. step[e] \notin {"idle", "returned"} /\ current' = current
      BY <2>3
      DEF WaitStep, PollTimesOut, PollReturns, Check, ReadTime, MarkBusy, MarkDone, Cleanup,
          WaitWakeup, Retime, FinishWait
    <3>2. async' = async \/ (async \notin {"waiting", "fire"} /\ async' \notin {"waiting", "fire"})
      BY <2>3
      DEF WaitStep, PollTimesOut, PollReturns, Check, ReadTime, MarkBusy, MarkDone, Cleanup,
          WaitWakeup, Retime, FinishWait, RemoveWakeup, AsyncWoken
    <3> QED
      BY <2>2, <3>1, <3>2
  <2>4. CASE Wait(e) \/ Returned(e)
    BY <2>2, <2>4 DEF Wait, Returned
  <2>5. CASE EntryReinit(e) \/ Unschedule(e)
    BY <1>3, <2>5 DEF EntryReinit, Unschedule
  <2>6. CASE WaitAsync(e)
    BY <1>3, <2>6 DEF WaitAsync, AddToHead, AsyncWoken
  <2>7. CASE e \in Async /\ Fire(e)
    BY <1>1, <1>2, <2>7 DEF Fire, Handled, AsyncTurn
  <2>8. CASE e \in Async /\ (SkipUnscheduled(e) \/ Restart(e) \/ Fired(e))
    <3>1. step'[e] = "idle" /\ current = e /\ async' = "loop"
      BY <1>1, <2>8 DEF SkipUnscheduled, Restart, Fired, Handled, Drop
    <3> QED
      BY <1>1, <1>2, <2>1, <3>1 DEF AsyncTurn
  <2> QED
    BY <1>6, <2>3, <2>4, <2>5, <2>6, <2>7, <2>8 DEF EntryStep
<1> QED
  BY <1>1, <1>4, <1>5, <1>6 DEF Next, AsyncStep, EntryStep

(* The count and the entries it stands for change together. *)
LEMMA CountStep ==
  ASSUME IInv, Next
  PROVE  WakeupsCounted' /\ wakeup_count' \in Nat
<1> DEFINE S == {x \in Entries : Counted(x)}
           T == {x \in Entries : Counted(x)'}
           a == IF async_wakeup THEN 1 ELSE 0
           b == IF stopping THEN 1 ELSE 0
<1>1. /\ async_wakeup \in BOOLEAN /\ stopping \in BOOLEAN /\ wakeup_count \in Nat
      /\ unscheduled \in [Entries -> BOOLEAN] /\ woken_up \in [Entries -> BOOLEAN]
      /\ entries \in Seq(Async) /\ Async \subseteq Entries
  BY EntryTypes DEF IInv, TypeOK, Entries
<1>2. wakeup_count = Cardinality(S) + a + b
  BY DEF IInv, WakeupsCounted, Counted
<1>3. IsFiniteSet(S) /\ Cardinality(S) \in Nat
  BY ClockAssumption, FS_Subset, FS_CardinalityType DEF Entries
<1>4. \A x \in Entries : Local(x)
  BY AllLocal DEF IInv
<1>5. SUFFICES wakeup_count' = Cardinality(T) + a' + b' /\ Cardinality(T) \in Nat
  <2>1. WakeupsCounted' <=> wakeup_count' = Cardinality(T) + a' + b'
    BY DEF WakeupsCounted, Counted
  <2>2. a' \in Nat /\ b' \in Nat
    OBVIOUS
  <2> HIDE DEF T, a, b
  <2> QED
    BY <1>5, <2>1, <2>2
<1>6. CASE T = S /\ wakeup_count' = wakeup_count + a' - a + b' - b
  <2>1. a \in Nat /\ b \in Nat /\ a' \in Nat /\ b' \in Nat
    OBVIOUS
  <2> HIDE DEF S, T, a, b
  <2> QED
    BY <1>2, <1>3, <1>6, <2>1
<1>7. (\A x \in Entries : unscheduled'[x] = unscheduled[x] /\ woken_up'[x] = woken_up[x]) => T = S
  BY DEF Counted
<1>8. CASE UNCHANGED <<wakeup_count, async_wakeup, stopping>> /\ T = S
  <2>1. a \in Nat /\ b \in Nat /\ a' = a /\ b' = b
    BY <1>8
  <2> HIDE DEF S, T, a, b
  <2> QED
    BY <1>1, <1>6, <1>8, <2>1
<1>9. CASE Tick \/ StartAsync \/ SpinUp \/ Awake \/ Rest
  <2>1. UNCHANGED <<wakeup_count, async_wakeup, stopping, unscheduled, woken_up>>
    BY <1>9 DEF Tick, StartAsync, SpinUp, Awake, Rest, wakeVars, entryVars
  <2> QED
    BY <1>7, <1>8, <2>1
<1>10. CASE Pick
  <2>1. /\ UNCHANGED <<stopping, unscheduled, woken_up>> /\ async_wakeup' = FALSE
        /\ wakeup_count' = IF async_wakeup THEN wakeup_count - 1 ELSE wakeup_count
    BY <1>10 DEF Pick, entryVars
  <2>2. wakeup_count' = wakeup_count + a' - a + b' - b
    BY <1>1, <2>1
  <2> QED
    BY <1>6, <1>7, <2>1, <2>2
<1>11. CASE Dispose
  <2>1. /\ UNCHANGED <<async_wakeup, unscheduled, woken_up>> /\ stopping' = TRUE /\ ~stopping
        /\ wakeup_count' = wakeup_count + 1
    BY <1>11 DEF Dispose
  <2>2. wakeup_count' = wakeup_count + a' - a + b' - b
    BY <1>1, <2>1
  <2> QED
    BY <1>6, <1>7, <2>1, <2>2
<1>12. ASSUME NEW e \in Entries, EntryStep(e)
       PROVE  wakeup_count' = Cardinality(T) + a' + b' /\ Cardinality(T) \in Nat
  <2>1. \A x \in Entries : x # e => (Counted(x)' <=> Counted(x))
    BY <1>12, EntryLocal DEF Same, Counted
  <2>2. T \ {e} = S \ {e} /\ ((e \in S) <=> Counted(e)) /\ ((e \in T) <=> Counted(e)')
    BY <2>1
  <2>3. /\ Cardinality(T) \in Nat
        /\ (Counted(e)' <=> Counted(e)) => Cardinality(T) = Cardinality(S)
        /\ Counted(e) /\ ~Counted(e)' => Cardinality(T) = Cardinality(S) - 1
        /\ ~Counted(e) /\ Counted(e)' => Cardinality(T) = Cardinality(S) + 1
    <3> HIDE DEF S, T
    <3> QED
      BY <1>3, <2>2, SetUpdate
  <2>4. CASE /\ UNCHANGED <<async_wakeup, stopping>>
             /\ wakeup_count' = wakeup_count + (Cardinality(T) - Cardinality(S))
    <3>1. a \in Nat /\ b \in Nat /\ a' = a /\ b' = b
      BY <2>4
    <3> HIDE DEF S, T, a, b
    <3> QED
      BY <1>1, <1>2, <1>3, <2>3, <2>4, <3>1
  <2> USE DEF entryVars, wakeVars
  <2>5. CASE UNCHANGED <<unscheduled, woken_up, wakeup_count, async_wakeup, stopping>>
    BY <1>3, <1>7, <1>8, <2>5
  <2>6. CASE \/ Check(e) \/ ReadTime(e) \/ MarkBusy(e) \/ MarkDone(e) \/ WaitWakeup(e)
             \/ Retime(e) \/ FinishWait(e) \/ PollTimesOut(e) \/ PollReturns(e)
    BY <2>5, <2>6
    DEF Check, ReadTime, MarkBusy, MarkDone, WaitWakeup, Retime, FinishWait, PollTimesOut, PollReturns
  <2>7. CASE \/ SkipUnscheduled(e) \/ Restart(e) \/ Fire(e) \/ Fired(e) \/ Wait(e) \/ Returned(e)
    BY <2>5, <2>7 DEF SkipUnscheduled, Restart, Fire, Fired, Wait, Returned
  <2>8. CASE EntryReinit(e)
    <3>1. ~Counted(e) /\ ~Counted(e)' /\ UNCHANGED <<wakeup_count, async_wakeup, stopping>>
      BY <1>1, <1>4, <2>8 DEF EntryReinit, Local, Counted, PollSteps
    <3>2. Cardinality(T) - Cardinality(S) = 0 /\ wakeup_count' = wakeup_count + 0
      BY <1>1, <1>3, <2>3, <3>1
    <3> QED
      BY <2>4, <3>1, <3>2
  <2>9. CASE Cleanup(e)
    <3>1. /\ ~Counted(e)' /\ UNCHANGED <<async_wakeup, stopping>>
          /\ wakeup_count' = IF Counted(e) THEN wakeup_count - 1 ELSE wakeup_count
      BY <1>1, <1>4, <2>9 DEF Cleanup, RemoveWakeup, Local, Counted
    <3>2. wakeup_count' = wakeup_count + (Cardinality(T) - Cardinality(S))
      <4> HIDE DEF S, T
      <4> QED
        BY <1>1, <1>3, <2>3, <3>1
    <3> QED
      BY <2>4, <3>1, <3>2
  <2>10. CASE Unschedule(e)
    <3>1. /\ ~Counted(e) /\ UNCHANGED <<async_wakeup, stopping>>
          /\ wakeup_count' = IF Counted(e)' THEN wakeup_count + 1 ELSE wakeup_count
      BY <1>1, <1>4, <2>10 DEF Unschedule, Local, Counted
    <3>2. wakeup_count' = wakeup_count + (Cardinality(T) - Cardinality(S))
      <4> HIDE DEF S, T
      <4> QED
        BY <1>1, <1>3, <2>3, <3>1
    <3> QED
      BY <2>4, <3>1, <3>2
  <2>11. CASE WaitAsync(e)
    <3>1. /\ UNCHANGED <<unscheduled, woken_up, stopping>>
          /\ \/ UNCHANGED <<wakeup_count, async_wakeup>>
             \/ ~async_wakeup /\ async_wakeup' = TRUE /\ wakeup_count' = wakeup_count + 1
      BY <2>11 DEF WaitAsync, AddToHead
    <3>2. wakeup_count' = wakeup_count + a' - a + b' - b
      BY <1>1, <3>1
    <3> QED
      BY <1>3, <1>6, <1>7, <3>1, <3>2
  <2> QED
    BY <1>12, <2>6, <2>7, <2>8, <2>9, <2>10, <2>11 DEF EntryStep, WaitStep
<1> QED
  BY <1>1, <1>9, <1>10, <1>11, <1>12 DEF Next, AsyncStep, EntryStep

LEMMA TypeStep ==
  ASSUME IInv, Next
  PROVE  TypeOK' /\ CurrentListed'
<1> DEFINE Steps == {"idle", "check", "time", "busy", "poll", "woken", "timeout", "cleanup",
                     "wakeup", "retime", "finish", "late", "returned"}
           Plain == /\ now' \in 0..MaxTime /\ time' \in [Entries -> Nat]
                    /\ status' \in [Entries -> Results \cup {"DONE"}]
                    /\ unscheduled' \in [Entries -> BOOLEAN] /\ woken_up' \in [Entries -> BOOLEAN]
                    /\ async_wakeup' \in BOOLEAN /\ stopping' \in BOOLEAN
                    /\ step' \in [Entries -> Steps]
                    /\ result' \in [Entries -> Results \cup {NONE}]
                    /\ async' \in {"none", "spinup", "loop", "sleep", "awake", "waiting", "fire", "exit"}
                    /\ cancelled' \subseteq Entries
           Listed == /\ entries' \in Seq(Async) /\ IsInjective(entries')
                     /\ current' \in Async \cup {NONE} /\ CurrentListed'
<1>1. /\ now \in 0..MaxTime /\ time \in [Entries -> Nat] /\ MaxTime \in Nat
      /\ status \in [Entries -> Results \cup {"DONE"}]
      /\ unscheduled \in [Entries -> BOOLEAN] /\ woken_up \in [Entries -> BOOLEAN]
      /\ async_wakeup \in BOOLEAN /\ stopping \in BOOLEAN
      /\ step \in [Entries -> Steps]
      /\ result \in [Entries -> Results \cup {NONE}]
      /\ async \in {"none", "spinup", "loop", "sleep", "awake", "waiting", "fire", "exit"}
      /\ cancelled \subseteq Entries
      /\ entries \in Seq(Async) /\ IsInjective(entries)
      /\ current \in Async \cup {NONE} /\ CurrentListed
      /\ NONE \notin Entries /\ Async \subseteq Entries
  BY ClockAssumption DEF IInv, TypeOK, Entries
<1> SUFFICES Plain /\ Listed
  BY CountStep DEF TypeOK
<1> USE DEF GoTo, SetStatus, Return, entryVars, threadVars, wakeVars, Results
<1> HIDE DEF Listed, Plain
<1>2. CASE Tick
  BY <1>1, <1>2 DEF Tick, Plain, Listed, CurrentListed
<1>3. CASE StartAsync \/ SpinUp \/ Awake \/ Rest
  BY <1>1, <1>3 DEF StartAsync, SpinUp, Awake, Rest, Plain, Listed, CurrentListed
<1>4. CASE Pick
  <2>1. Head(entries) \in Async /\ Contains(entries, Head(entries))
    BY <1>1, <1>4, HeadTailProperties DEF Pick, Contains
  <2>2. Listed
    BY <1>1, <1>4, <2>1 DEF Pick, Listed, CurrentListed
  <2>3. Plain
    BY <1>1, <1>4, <2>1 DEF Pick, Plain
  <2> QED
    BY <2>2, <2>3
<1>5. CASE Dispose
  <2>1. Listed
    BY <1>1, <1>5 DEF Dispose, Listed, CurrentListed
  <2>2. Plain
    BY <1>1, <1>5 DEF Dispose, AsyncWoken, Plain
  <2> QED
    BY <2>1, <2>2
<1>6. ASSUME NEW e \in Entries, EntryStep(e) PROVE Plain /\ Listed
  <2>1. CASE \/ Check(e) \/ ReadTime(e) \/ MarkBusy(e) \/ WaitWakeup(e)
             \/ Retime(e) \/ FinishWait(e) \/ PollTimesOut(e) \/ PollReturns(e)
    <3>1. Listed
      BY <1>1, <2>1
      DEF Check, ReadTime, MarkBusy, WaitWakeup, Retime, FinishWait, PollTimesOut,
          PollReturns, Listed, CurrentListed
    <3>2. Plain
      <4>1. CASE Check(e) \/ ReadTime(e) \/ MarkBusy(e) \/ WaitWakeup(e)
        BY <1>1, <4>1 DEF Check, ReadTime, MarkBusy, WaitWakeup, Plain
      <4>2. CASE Retime(e) \/ FinishWait(e)
        BY <1>1, <4>2 DEF Retime, FinishWait, Plain
      <4>3. CASE PollTimesOut(e) \/ PollReturns(e)
        BY <1>1, <4>3 DEF PollTimesOut, PollReturns, Plain
      <4> QED
        BY <2>1, <4>1, <4>2, <4>3
    <3> QED
      BY <3>1, <3>2
  <2>2. CASE MarkDone(e)
    <3>1. status[e] \in Results
      BY <1>1, <1>6, <2>2, AllLocal DEF MarkDone, IInv, Local, PollSteps
    <3> QED
      BY <1>1, <2>2, <3>1 DEF MarkDone, Plain, Listed, CurrentListed
  <2>3. CASE Cleanup(e)
    BY <1>1, <2>3 DEF Cleanup, RemoveWakeup, AsyncWoken, Plain, Listed, CurrentListed
  <2>4. CASE Wait(e) \/ Returned(e)
    BY <1>1, <2>4 DEF Wait, Returned, Plain, Listed, CurrentListed
  <2>5. CASE EntryReinit(e)
    BY <1>1, <2>5 DEF EntryReinit, Plain, Listed, CurrentListed
  <2>6. CASE Unschedule(e)
    BY <1>1, <2>6 DEF Unschedule, Plain, Listed, CurrentListed
  <2>7. CASE WaitAsync(e)
    <3>1. Plain
      BY <1>1, <2>7 DEF WaitAsync, AddToHead, AsyncWoken, Plain
    <3>2. e \in Async /\ ~Contains(entries, e) /\ InsertSorted(entries, e, time[e]) /\ current' = current
      BY <2>7 DEF WaitAsync
    <3>3. Listed
      BY <1>1, <3>2, Inserted DEF Listed, CurrentListed
    <3> QED
      BY <3>1, <3>3
  <2>8. CASE e \in Async /\ (SkipUnscheduled(e) \/ (Fired(e) /\ Drop(e) /\ UNCHANGED time))
    <3>1. Contains(entries, e)
      BY <1>1, <2>8 DEF SkipUnscheduled, Fired, Handled, CurrentListed
    <3>2. Plain
      BY <1>1, <2>8 DEF SkipUnscheduled, Fired, Drop, Plain
    <3>3. entries' = Without(e) /\ current' = NONE
      BY <2>8 DEF SkipUnscheduled, Drop
    <3>4. Listed
      BY <1>1, <3>1, <3>3, Removed DEF Listed, CurrentListed
    <3> QED
      BY <3>2, <3>4
  <2>9. CASE e \in Async /\ (Restart(e) \/ Fire(e))
    BY <1>1, <2>9 DEF Restart, Fire, Plain, Listed, CurrentListed
  <2>10. CASE e \in Async /\ Fired(e) /\ e \in use.periodic
    <3>1. Contains(entries, e)
      BY <1>1, <2>10 DEF Fired, CurrentListed
    <3>2. CASE Drop(e) /\ UNCHANGED time
      BY <2>8, <2>10, <3>2
    <3>3. CASE /\ time' = [time EXCEPT ![e] = @ + 1] /\ InsertSorted(Without(e), e, time[e] + 1)
               /\ current' = NONE /\ async' = "loop" /\ GoTo(e, "idle")
      <4>1. Plain
        BY <1>1, <2>10, <3>3 DEF Fired, Plain
      <4>2. Without(e) \in Seq(Async) /\ IsInjective(Without(e)) /\ ~Contains(Without(e), e)
        BY <1>1, <3>1, Removed
      <4>3. Listed
        BY <2>10, <3>3, <4>2, Inserted DEF Listed, CurrentListed
      <4> QED
        BY <4>1, <4>3
    <3> QED
      BY <2>10, <3>2, <3>3 DEF Fired
  <2>11. Fired(e) => e \in use.periodic \/ (Drop(e) /\ UNCHANGED time)
    BY DEF Fired
  <2> QED
    BY <1>6, <2>1, <2>2, <2>3, <2>4, <2>5, <2>6, <2>7, <2>8, <2>9, <2>10, <2>11
    DEF EntryStep, WaitStep
<1> QED
  BY <1>1, <1>2, <1>3, <1>4, <1>5, <1>6 DEF Next, AsyncStep, EntryStep

LEMMA InitIInv == Init => IInv
<1> SUFFICES ASSUME Init PROVE IInv
  OBVIOUS
<1>1. /\ now = 0 /\ time \in [Entries -> 0..MaxTime] /\ MaxTime \in Nat
      /\ status = [e \in Entries |-> "OK"]
      /\ unscheduled = [e \in Entries |-> FALSE] /\ woken_up = [e \in Entries |-> FALSE]
      /\ entries = <<>> /\ wakeup_count = 0 /\ async_wakeup = FALSE /\ stopping = FALSE
      /\ step = [e \in Entries |-> "idle"] /\ result = [e \in Entries |-> NONE]
      /\ async = "none" /\ current = NONE /\ cancelled = {}
  BY ClockAssumption DEF Init
<1>2. /\ entries \in Seq(Async) /\ IsInjective(entries)
      /\ time \in [Entries -> Nat]
  BY <1>1 DEF IsInjective
<1>3. TypeOK
  <2>1. /\ unscheduled \in [Entries -> BOOLEAN] /\ woken_up \in [Entries -> BOOLEAN]
        /\ async_wakeup \in BOOLEAN /\ stopping \in BOOLEAN
    BY <1>1
  <2> QED
    BY <1>1, <1>2, <2>1 DEF TypeOK, Results
<1>4. WakeupsCounted
  <2>1. {e \in Entries : woken_up[e] /\ ~unscheduled[e]} = {}
    BY <1>1
  <2>2. Cardinality({e \in Entries : woken_up[e] /\ ~unscheduled[e]}) = 0
    BY <2>1, FS_EmptySet
  <2> DEFINE K == Cardinality({e \in Entries : woken_up[e] /\ ~unscheduled[e]})
  <2>3. K = 0
    BY <2>2
  <2> HIDE DEF K
  <2>4. wakeup_count = K + (IF async_wakeup THEN 1 ELSE 0) + (IF stopping THEN 1 ELSE 0)
    BY <1>1, <2>3
  <2> USE DEF K
  <2> QED
    BY <2>4 DEF WakeupsCounted
<1>5. StatusOfStep /\ WokenIsCleanedUp /\ AsyncTurn /\ CurrentListed /\ InTime
  BY <1>1, ClockAssumption
  DEF StatusOfStep, WokenIsCleanedUp, Counted, AsyncTurn, CurrentListed, InTime, PollSteps, Entries
<1> QED
  BY <1>3, <1>4, <1>5 DEF IInv

LEMMA NextIInv == IInv /\ [Next /\ UNCHANGED use]_vars => IInv'
<1> SUFFICES ASSUME IInv, [Next /\ UNCHANGED use]_vars PROVE IInv'
  OBVIOUS
<1>1. CASE Next
  BY <1>1, TypeStep, LocalStep, TurnStep, CountStep DEF IInv
<1>2. CASE UNCHANGED vars
  BY <1>2
  DEF vars, clockVars, entryVars, wakeVars, threadVars, IInv, TypeOK, StatusOfStep,
      WokenIsCleanedUp, Counted, AsyncTurn, CurrentListed, InTime, WakeupsCounted
<1> QED
  BY <1>1, <1>2

LEMMA Inductive == Spec => []IInv
BY InitIInv, NextIInv, PTL DEF Spec

-----------------------------------------------------------------------------
(* Every variable of the clock keeps its type; wakeup_count is not         *)
(* negative, and an entry is in the list once.                             *)
THEOREM TypeCorrect == Spec => []TypeOK
<1>1. IInv => TypeOK
  BY DEF IInv
<1> QED
  BY <1>1, Inductive, PTL

(* gst_system_clock_id_unschedule, gst_system_clock_remove_wakeup: each    *)
(* wakeup given is taken back once, by the wait it was for, so the count   *)
(* is of the waits that have still to notice.                              *)
THEOREM WakeupsAreCounted == Spec => []WakeupsCounted
<1>1. IInv => WakeupsCounted
  BY DEF IInv
<1> QED
  BY <1>1, Inductive, PTL

(* gst_clock_id_wait: GST_CLOCK_OK is not returned before the time of the  *)
(* entry, whatever woke the thread before.                                 *)
THEOREM NeverBeforeTime == Spec => []NotBeforeTime
<1>1. IInv => NotBeforeTime
  BY DEF IInv, InTime, NotBeforeTime
<1> QED
  BY <1>1, Inductive, PTL
=============================================================================
