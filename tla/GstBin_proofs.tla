--------------------------- MODULE GstBin_proofs ---------------------------
(***************************************************************************)
(* A bin never rises above the state last asked for; when it is done, no   *)
(* child is behind it or ahead of it; and playback starts together: for    *)
(* any number of children, any goals and bounds, with and without          *)
(* failures.                                                               *)
(*                                                                         *)
(* The argument for the first: a continuation that carries the present     *)
(* cookie is for the present target (CurrentContinuations), so the driver  *)
(* that acts on one goes where the application wants; and the transition   *)
(* under way leads towards what is pending, which is no more than the      *)
(* target (OnCourse), so that what set_state, the last ASYNC_DONE or the   *)
(* driver's return commit is no more than the target.  What                *)
(* bin_handle_async_done leaves as next state is computed from the state   *)
(* before it, so it also has to be known that a bin on its way to PAUSED   *)
(* is nowhere sent below: Near, at rest of the driver (Waiting) and for    *)
(* aims of PAUSED and above.                                               *)
(*                                                                         *)
(* For the others, what has to be known of a child depends on how far the  *)
(* driver has come: before it reaches the child, while it is there, after  *)
(* it, and while the bin waits for the child's ASYNC_DONE.  No two         *)
(* children have to be compared for that: GstBinView looks at the bin and  *)
(* one child, says what holds of them at each stage, and gives the steps   *)
(* in those terms.  Here every view keeps its invariant under those steps  *)
(* (BinStepsView, ChildStepsView, OthersView), and every action of GstBin  *)
(* is one of them in each view.                                            *)
(***************************************************************************)
EXTENDS GstBin, FiniteSetTheorems, TLAPS

(* What a driver and the fields of a GstBaseSink may hold. *)
Drivers ==
  [pc : {"idle", "start", "child", "check", "set", "change", "drain", "returned", "bin_returned"},
   from : States, to : States, todo : SUBSET Children, child : Children \cup {NONE},
   snap : Elements, cfrom : States, cto : States, res : Returns,
   async : BOOLEAN, noPreroll : BOOLEAN, failed : BOOLEAN]

SinkFields == [need : BOOLEAN, have : BOOLEAN, async : BOOLEAN, committed : BOOLEAN,
               flushing : BOOLEAN, active : BOOLEAN]

(* TypeOK, with the types of the driver, the sinks and their threads. *)
Typed ==
  /\ TypeOK
  /\ live \subseteq Children
  /\ d \in Drivers
  /\ d.pc \in {"check", "set", "change", "drain", "returned"} => d.child \in Children
  /\ d.pc = "drain" => d.child \in Sinks
  /\ sink \in [Children -> SinkFields]
  /\ thread \in [Children -> {"idle", "wait", "woken", "post"}]
  /\ flush \in [Children -> {"none", "start", "post", "stop"}]
  /\ sets \in Nat /\ cookie <= sets /\ sets <= MaxSets
  /\ \A e \in Children \cup {Bin} : ~Settled(el[e]) => el[e].next \in States

(* The transition of the bin that is under way leads towards what is       *)
(* pending, which is no more than the target; a bin on its way to PAUSED   *)
(* or above is not sent back below, and does not settle below.             *)
Near(b) == b.next >= PAUSED \/ (b.next = READY /\ b.current <= READY)

OnCourse(b) ==
  /\ ~Settled(b) =>
       /\ b.next <= b.current \/ b.next <= b.pending
       /\ b.pending <= b.target
       /\ b.next <= b.current + 1
       /\ b.target >= PAUSED => b.pending >= PAUSED /\ Near(b)
  /\ Settled(b) /\ b.target >= PAUSED => b.current >= PAUSED

(* Between two drivers a bin that goes anywhere goes up to PAUSED. *)
Waiting(b) == ~Settled(b) /\ b.return # "FAILURE" => Near(b)

(* A continuation with the present cookie is for the present target. *)
CurrentContinuations ==
  \A k \in BagToSet(conts) :
    k.cookie <= cookie /\ (k.cookie = cookie => k.pending = el[Bin].target)

IInv ==
  /\ Typed
  /\ OnCourse(el[Bin])
  /\ d.pc = "idle" => Waiting(el[Bin])
  /\ CurrentContinuations

-----------------------------------------------------------------------------
(* The operations on an element's state fields. *)
Sound(e) == e \in Elements /\ (~Settled(e) => e.next \in States)

(* GST_STATE_GET_NEXT is one state nearer, never beyond. *)
LEMMA NextIsState ==
  ASSUME NEW s \in States, NEW p \in States \cup {VOID_PENDING}
  PROVE  /\ p \in States => GetNext(s, p) \in States
         /\ GetNext(s, p) \in Int
         /\ GetNext(s, p) <= s + 1 /\ s <= GetNext(s, p) + 1
         /\ GetNext(s, p) <= s \/ GetNext(s, p) <= p
         /\ p >= PAUSED => GetNext(s, p) >= PAUSED \/ (GetNext(s, p) = READY /\ s <= READY)
         /\ GetNext(s, p) = s <=> s = p
BY DEF GetNext, States, VOID_PENDING, NULL, READY, PAUSED, PLAYING

(* What a set_state leaves in an element is sound. *)
LEMMA SoundAims ==
  ASSUME NEW e, Sound(e), NEW s \in States
  PROVE  /\ Sound(Forgiven(e)) /\ StartOf(e, s) \in States
         /\ IsBusy(e, s) => Sound(Aimed(e, s))
         /\ Sound(Started(e, s))
<1> USE DEF Sound, Elements, Settled, Returns
<1>0. VOID_PENDING \notin States /\ s # VOID_PENDING
  BY DEF States, VOID_PENDING, NULL, READY, PAUSED, PLAYING
<1>1. Sound(Forgiven(e)) /\ Forgiven(e).pending \in States \cup {VOID_PENDING}
  BY DEF Forgiven
<1>2. StartOf(e, s) \in States
  BY <1>0, <1>1 DEF StartOf
<1>3. GetNext(StartOf(e, s), s) \in States
  BY <1>2, NextIsState
<1>4. IsBusy(e, s) => Sound(Aimed(e, s))
  BY <1>0, <1>1 DEF IsBusy, Aimed
<1>5. Sound(Started(e, s))
  <2> DEFINE n == GetNext(StartOf(e, s), s)
             f == Forgiven(e)
             r == IF StartOf(e, s) # n THEN "ASYNC" ELSE f.return
  <2>1. Started(e, s) = [f EXCEPT !.target = s, !.pending = s, !.next = n, !.return = r]
    BY <1>1 DEF Started
  <2>2. f \in Elements /\ n \in States /\ r \in Returns
    BY <1>1, <1>3
  <2> HIDE DEF n, f, r
  <2> QED
    BY <2>1, <2>2
<1> QED
  BY <1>1, <1>2, <1>4, <1>5

(* So is what the end of a transition leaves. *)
LEMMA SoundMoves ==
  ASSUME NEW e, Sound(e), NEW ret \in Returns
  PROVE  Sound(Committed(e, ret)) /\ Sound(Aborted(e)) /\ Sound(Lost(e))
<1> USE DEF Sound, Elements, Settled, Returns
<1>1. VOID_PENDING \notin States /\ PAUSED \in States
  BY DEF States, VOID_PENDING, NULL, READY, PAUSED, PLAYING
<1>2. Sound(Committed(e, ret))
  <2>1. CASE Settled(e)
    BY <2>1 DEF Committed, Commits
  <2>2. CASE ~Settled(e)
    <3>1. GetNext(e.next, e.pending) \in States
      BY <1>1, <2>2, NextIsState
    <3> QED
      BY <1>1, <2>2, <3>1 DEF Committed, Commits, Continues
  <2> QED
    BY <2>1, <2>2
<1>3. Sound(Aborted(e))
  BY DEF Aborted
<1>4. Sound(Lost(e))
  BY <1>1 DEF Lost
<1> QED
  BY <1>2, <1>3, <1>4

(* What a change of the bin's fields may do: it never rises above the      *)
(* target.                                                                 *)
Rises(b, c) == c.current > b.current => c.current <= c.target

(* Every operation on the bin's fields keeps it on course: the two ways    *)
(* out of set_state, a continuation, a commit, a failure, a loss of the state  *)
(* and the last ASYNC_DONE.                                                *)
LEMMA CourseAimed ==
  ASSUME NEW b, Sound(b), OnCourse(b), Waiting(b), NEW s \in States, IsBusy(b, s)
  PROVE  OnCourse(Aimed(b, s)) /\ Waiting(Aimed(b, s)) /\ Rises(b, Aimed(b, s))
<1> USE DEF Sound, Elements, Settled, States, VOID_PENDING, NULL, READY, PAUSED, PLAYING
<1>1. b.return # "FAILURE" /\ Forgiven(b) = b
  BY DEF IsBusy, Forgiven
<1>2. Aimed(b, s) = [b EXCEPT !.target = s, !.pending = s, !.return = "ASYNC"]
  BY <1>1 DEF Aimed
<1>3. ~Settled(b) /\ (b.pending <= s \/ b.next = s)
  BY <1>1 DEF IsBusy
<1> QED
  BY <1>1, <1>2, <1>3 DEF OnCourse, Waiting, Near, Rises

LEMMA CourseStarted ==
  ASSUME NEW b, Sound(b), OnCourse(b), NEW s \in States
  PROVE  OnCourse(Started(b, s)) /\ Rises(b, Started(b, s)) /\ Started(b, s).target = s
<1> USE DEF Sound, Elements, Settled
<1> DEFINE f == Forgiven(b)
           from == StartOf(b, s)
           to == GetNext(from, s)
           r == IF from # to THEN "ASYNC" ELSE f.return
<1>1. Started(b, s) = [f EXCEPT !.target = s, !.pending = s, !.next = to, !.return = r]
  BY SoundAims DEF Started
<1>2. f \in Elements /\ f.current = b.current
  BY DEF Forgiven, VOID_PENDING, Returns
<1>3. from \in States
  BY SoundAims
<1>4. from = b.current \/ (from > s /\ from <= b.current + 1)
  BY DEF OnCourse, Forgiven, StartOf
<1>5. to \in States /\ to <= from + 1 /\ from <= to + 1 /\ (to <= from \/ to <= s)
      /\ (s >= PAUSED => to >= PAUSED \/ (to = READY /\ from <= READY))
  BY <1>3, NextIsState
<1>6. from > s => to <= from - 1
  BY <1>3 DEF GetNext, States, NULL, READY, PAUSED, PLAYING
<1> HIDE DEF f, from, to, r
<1>7. Started(b, s).current = b.current /\ Started(b, s).next = to
      /\ Started(b, s).pending = s /\ Started(b, s).target = s
  BY <1>1, <1>2
<1> QED
  BY <1>2, <1>3, <1>4, <1>5, <1>6, <1>7
  DEF OnCourse, Near, Rises, States, VOID_PENDING, NULL, READY, PAUSED, PLAYING

LEMMA CourseContinued ==
  ASSUME NEW b, Sound(b), OnCourse(b),
         NEW c, c = [b EXCEPT !.next = GetNext(b.current, b.target), !.pending = b.target,
                              !.return = "ASYNC"]
  PROVE  Sound(c) /\ OnCourse(c) /\ Rises(b, c) /\ c.target = b.target
<1> USE DEF Sound, Elements, Settled
<1> DEFINE to == GetNext(b.current, b.target)
<1>1. b.current \in States /\ b.target \in States
  OBVIOUS
<1>2. to \in States /\ to <= b.current + 1 /\ (to <= b.current \/ to <= b.target)
      /\ (b.target >= PAUSED => to >= PAUSED \/ (to = READY /\ b.current <= READY))
  BY <1>1, NextIsState
<1> HIDE DEF to
<1>3. c.current = b.current /\ c.next = to /\ c.pending = b.target /\ c.target = b.target
      /\ c \in Elements
  BY <1>1, <1>2 DEF to, Returns
<1> QED
  BY <1>1, <1>2, <1>3
  DEF OnCourse, Near, Rises, States, VOID_PENDING, NULL, READY, PAUSED, PLAYING

LEMMA CourseCommitted ==
  ASSUME NEW b, Sound(b), OnCourse(b), NEW ret \in Returns
  PROVE  /\ OnCourse(Committed(b, ret)) /\ Rises(b, Committed(b, ret))
         /\ Committed(b, ret).target = b.target
         /\ ~Continues(b) => Settled(Committed(b, ret))
<1> USE DEF Sound, Elements, Settled
<1> DEFINE c == Committed(b, ret)
<1>1. CASE Settled(b)
  <2>1. c = [b EXCEPT !.return = ret]
    BY <1>1 DEF Committed, Commits
  <2>2. /\ c.current = b.current /\ c.next = b.next /\ c.pending = b.pending
        /\ c.target = b.target /\ b.current \in States
    BY <2>1
  <2> HIDE DEF c
  <2> QED
    BY <1>1, <2>2
    DEF c, OnCourse, Near, Rises, Continues, Commits, States, NULL, READY, PAUSED, PLAYING
<1>2. CASE Continues(b)
  <2> DEFINE to == GetNext(b.next, b.pending)
  <2>1. c = [b EXCEPT !.current = b.next, !.next = to, !.return = "ASYNC"]
    BY <1>2 DEF Committed, Commits, Continues
  <2>2. b.next \in States /\ b.pending \in States /\ b.pending # b.next
    BY <1>2 DEF Continues, Commits
  <2>3. to \in States /\ to <= b.next + 1 /\ (to <= b.next \/ to <= b.pending)
        /\ (b.pending >= PAUSED => to >= PAUSED \/ (to = READY /\ b.next <= READY))
    BY <2>2, NextIsState
  <2> HIDE DEF to, c
  <2>4. c.current = b.next /\ c.next = to /\ c.pending = b.pending /\ c.target = b.target
    BY <2>1
  <2> QED
    BY <1>2, <2>2, <2>3, <2>4
    DEF c, OnCourse, Near, Rises, States, VOID_PENDING, NULL, READY, PAUSED, PLAYING
<1>3. CASE ~Settled(b) /\ ~Continues(b)
  <2>1. c = [b EXCEPT !.current = b.next, !.next = VOID_PENDING, !.pending = VOID_PENDING,
                      !.return = ret]
    BY <1>3 DEF Committed, Commits
  <2>2. b.pending = b.next
    BY <1>3 DEF Continues, Commits
  <2> HIDE DEF c
  <2> QED
    BY <1>3, <2>1, <2>2
    DEF c, OnCourse, Near, Rises, States, VOID_PENDING, NULL, READY, PAUSED, PLAYING
<1> QED
  BY <1>1, <1>2, <1>3

LEMMA CourseAborted ==
  ASSUME NEW b, Sound(b), OnCourse(b)
  PROVE  /\ OnCourse(Aborted(b)) /\ Waiting(Aborted(b)) /\ Rises(b, Aborted(b))
         /\ Aborted(b).target = b.target
<1> DEFINE c == Aborted(b)
<1>1. /\ c.current = b.current /\ c.next = b.next /\ c.pending = b.pending
      /\ c.target = b.target /\ b.current \in States
      /\ Settled(b) \/ c.return = "FAILURE"
  BY DEF Sound, Elements, Aborted
<1> HIDE DEF c
<1>2. OnCourse(c) /\ Waiting(c)
  BY <1>1 DEF OnCourse, Waiting, Near, Settled
<1>3. Rises(b, c)
  BY <1>1 DEF Rises, States, NULL, READY, PAUSED, PLAYING
<1> QED
  BY <1>1, <1>2, <1>3 DEF c

LEMMA CourseLost ==
  ASSUME NEW b, Sound(b), OnCourse(b), Settled(b), b.target > READY
  PROVE  /\ OnCourse(Lost(b)) /\ Waiting(Lost(b)) /\ Rises(b, Lost(b))
         /\ Lost(b).target = b.target
BY DEF Sound, Elements, Settled, Lost, OnCourse, Waiting, Near, Rises,
       States, VOID_PENDING, NULL, READY, PAUSED, PLAYING

LEMMA CourseDone ==
  ASSUME NEW b, Sound(b), OnCourse(b), ~Settled(b), b.target > READY
  PROVE  /\ Sound(BinDone(b)) /\ OnCourse(BinDone(b)) /\ Waiting(BinDone(b))
         /\ Rises(b, BinDone(b)) /\ BinDone(b).target = b.target
<1> USE DEF Sound, Elements, Settled
<1> DEFINE c == BinDone(b)
<1>1. CASE DoneState(b) = b.target
  <2>1. c = [b EXCEPT !.current = b.target, !.next = VOID_PENDING, !.pending = VOID_PENDING,
                      !.return = "SUCCESS"]
    BY <1>1 DEF BinDone
  <2>2. /\ c.current = b.target /\ c.pending = VOID_PENDING /\ c.target = b.target
        /\ c \in Elements /\ b.target \in States
    BY <2>1 DEF Returns
  <2> HIDE DEF c
  <2> QED
    BY <2>2
    DEF c, OnCourse, Waiting, Near, Rises, States, VOID_PENDING, NULL, READY, PAUSED, PLAYING
<1>2. CASE DoneState(b) # b.target
  <2> DEFINE to == GetNext(b.current, b.target)
             at == DoneState(b)
  <2>1. c = [b EXCEPT !.current = at, !.next = to, !.pending = b.target, !.return = "ASYNC"]
    BY <1>2 DEF BinDone
  <2>2. b.current \in States /\ b.target \in States /\ at \in States
    BY DEF DoneState
  <2>3. to \in States /\ to <= b.current + 1 /\ (to <= b.current \/ to <= b.target)
        /\ (to >= PAUSED \/ (to = READY /\ b.current < READY))
        /\ (b.current > b.target => to <= b.target \/ b.target < PAUSED)
    BY <2>2, NextIsState
    DEF GetNext, States, VOID_PENDING, NULL, READY, PAUSED, PLAYING
  <2>4. at = b.current \/ at = b.next
    BY DEF DoneState
  <2> HIDE DEF to, at, c
  <2>5. c.current = at /\ c.next = to /\ c.pending = b.target /\ c.target = b.target
        /\ c \in Elements
    BY <2>1, <2>2, <2>3 DEF Returns
  <2>6. /\ b.next <= b.current \/ b.next <= b.target
        /\ b.next <= b.current + 1 /\ b.next \in States
        /\ b.next >= PAUSED \/ (b.next = READY /\ b.current <= READY)
    <3>1. b.pending <= b.target /\ b.target >= PAUSED /\ b.pending \in States
      BY <2>2 DEF OnCourse, States, VOID_PENDING, NULL, READY, PAUSED, PLAYING
    <3>2. b.next <= b.current \/ b.next <= b.pending
      BY DEF OnCourse
    <3>3. b.next \in States /\ b.next <= b.current + 1
      BY DEF OnCourse
    <3>4. b.next >= PAUSED \/ (b.next = READY /\ b.current <= READY)
      BY <3>1 DEF OnCourse, Near
    <3> QED
      BY <2>2, <3>1, <3>2, <3>3, <3>4 DEF States, NULL, READY, PAUSED, PLAYING
  <2>7. /\ to <= at \/ to <= b.target
        /\ to <= at + 1 /\ b.target >= PAUSED /\ b.target # VOID_PENDING
        /\ to >= PAUSED \/ (to = READY /\ at <= READY)
        /\ at > b.current => at <= b.target
    BY <2>2, <2>3, <2>4, <2>6 DEF States, VOID_PENDING, NULL, READY, PAUSED, PLAYING
  <2>8. OnCourse(c) /\ Waiting(c)
    BY <2>2, <2>5, <2>7 DEF OnCourse, Waiting, Near, States, NULL, READY, PAUSED, PLAYING
  <2>9. Rises(b, c)
    BY <2>5, <2>7 DEF Rises
  <2> QED
    BY <2>2, <2>3, <2>5, <2>8, <2>9 DEF c
<1> QED
  BY <1>1, <1>2

-----------------------------------------------------------------------------
(* The driver's locals keep their types. *)
LEMMA Constants ==
  /\ NULL \in States /\ READY \in States /\ PAUSED \in States /\ PLAYING \in States
  /\ VOID_PENDING \notin States
  /\ NewElement \in Elements
BY DEF NewElement, Elements, Returns, States, VOID_PENDING, NULL, READY, PAUSED, PLAYING

DriverTyped ==
  /\ d \in Drivers
  /\ d.pc \in {"check", "set", "change", "drain", "returned"} => d.child \in Children
  /\ d.pc = "drain" => d.child \in Sinks

LEMMA DriverNew ==
  ASSUME NEW from \in States, NEW to \in States
  PROVE  /\ Driver("idle") \in Drivers /\ Driver("idle").pc = "idle"
         /\ \A res \in Returns : [Driver("bin_returned") EXCEPT !.res = res] \in Drivers
         /\ \A res \in Returns : [Driver("bin_returned") EXCEPT !.res = res].pc = "bin_returned"
         /\ [Driver("start") EXCEPT !.from = from, !.to = to] \in Drivers
         /\ [Driver("start") EXCEPT !.from = from, !.to = to].pc = "start"
<1> USE Constants DEF Drivers, Driver
<1>1. "SUCCESS" \in Returns
  BY DEF Returns
<1> QED
  BY <1>1

LEMMA DriverCollected ==
  ASSUME DriverTyped, NEW ret \in Returns
  PROVE  Collected(ret) \in Drivers /\ Collected(ret).pc = "child"
<1>1. "SUCCESS" \in Returns
  BY DEF Returns
<1> DEFINE a == d.async \/ ret = "ASYNC"
           n == d.noPreroll \/ ret = "NO_PREROLL"
           f == ret = "FAILURE"
           Onward(e, todo, x, y, z) ==
             [e EXCEPT !.pc = "child", !.todo = todo, !.child = NONE, !.snap = NewElement,
                       !.cfrom = NULL, !.cto = NULL, !.res = "SUCCESS",
                       !.async = x, !.noPreroll = y, !.failed = z]
<1>2. a \in BOOLEAN /\ n \in BOOLEAN /\ f \in BOOLEAN
  OBVIOUS
<1>3. Collected(ret) = Onward(d, d.todo \ {d.child}, a, n, f)
  BY DEF Collected
<1>4. d \in Drivers /\ d.todo \ {d.child} \in SUBSET Children
  BY DEF DriverTyped, Drivers
<1>5. ASSUME NEW e \in Drivers, NEW todo \in SUBSET Children, NEW x \in BOOLEAN,
             NEW y \in BOOLEAN, NEW z \in BOOLEAN
      PROVE  Onward(e, todo, x, y, z) \in Drivers /\ Onward(e, todo, x, y, z).pc = "child"
  BY <1>1, Constants DEF Drivers
<1> HIDE DEF a, n, f, Onward
<1> QED
  BY <1>2, <1>3, <1>4, <1>5

LEMMA DriverReturns ==
  ASSUME DriverTyped, d.pc \in {"change", "drain"}, NEW ret \in Returns, ChildReturns(ret)
  PROVE  DriverTyped'
BY DEF DriverTyped, ChildReturns, Drivers, Sinks

LEMMA DriverStep ==
  ASSUME IInv, Next
  PROVE  DriverTyped'
<1> USE DEF Sinks, Transition
<1>1. /\ DriverTyped
      /\ \A e \in Children \cup {Bin} : Sound(el[e])
      /\ BagToSet(conts) \subseteq Continuations
  BY DEF IInv, Typed, TypeOK, DriverTyped, Sound
<1>2. /\ \A e \in Children \cup {Bin} : el[e].return \in Returns /\ el[e].current \in States
                                      /\ el[e].target \in States
      /\ {"SUCCESS", "FAILURE", "ASYNC", "NO_PREROLL"} = Returns
  BY <1>1 DEF Sound, Elements, Returns
<1>3. ASSUME UNCHANGED <<d, live>> PROVE DriverTyped'
  BY <1>1, <1>3 DEF DriverTyped
<1>4. ASSUME NEW from \in States, NEW to \in States,
             d' = [Driver("start") EXCEPT !.from = from, !.to = to]
      PROVE  DriverTyped'
  BY <1>4, DriverNew DEF DriverTyped
<1>5. ASSUME d' = Driver("idle")
      PROVE  DriverTyped'
  BY <1>5, DriverNew, Constants DEF DriverTyped
<1>6. ASSUME NEW ret \in Returns, d' = Collected(ret)
      PROVE  DriverTyped'
  BY <1>1, <1>6, DriverCollected DEF DriverTyped
<1>7. ASSUME NEW state \in Goals, SetState(state)
      PROVE  DriverTyped'
  <2>1. state \in States
    BY BinAssumption
  <2>2. StartOf(el[Bin], state) \in States
    BY <1>1, <2>1, SoundAims
  <2>3. GetNext(StartOf(el[Bin], state), state) \in States
    BY <2>1, <2>2, NextIsState
  <2> QED
    BY <1>3, <1>4, <1>7, <2>2, <2>3 DEF SetState
<1>8. ASSUME NEW k \in BagToSet(conts), Continue(k)
      PROVE  DriverTyped'
  <2>1. k.pending \in States
    BY <1>1 DEF Continuations
  <2>2. GetNext(el[Bin].current, k.pending) \in States
    BY <1>2, <2>1, NextIsState
  <2> QED
    BY <1>2, <1>3, <1>4, <1>8, <2>2 DEF Continue
<1>9. CASE BinStart
  BY <1>1, <1>9 DEF BinStart, DriverTyped, Drivers
<1>10. ASSUME NEW c \in Children, PickChild(c)
       PROVE  DriverTyped'
  BY <1>1, <1>10 DEF PickChild, DriverTyped, Drivers, Sound
<1>11. CASE CheckChild
  <2>1. d.snap.return \in Returns
    BY <1>1 DEF DriverTyped, Drivers, Elements
  <2>2. ASSUME d' = [d EXCEPT !.pc = "set"], UNCHANGED live PROVE DriverTyped'
    BY <1>1, <1>11, <2>2 DEF DriverTyped, Drivers, CheckChild
  <2> QED
    BY <1>2, <1>6, <1>11, <2>1, <2>2 DEF CheckChild
<1>12. CASE SetChild
  <2>1. d.child \in Children /\ d.to \in States /\ d.pc = "set"
    BY <1>1, <1>12 DEF SetChild, DriverTyped, Drivers
  <2>2. StartOf(el[d.child], d.to) \in States
    BY <1>1, <2>1, SoundAims
  <2>3. GetNext(StartOf(el[d.child], d.to), d.to) \in States
    BY <2>1, <2>2, NextIsState
  <2>4. ASSUME d' = [d EXCEPT !.pc = "change", !.snap = NewElement,
                              !.cfrom = StartOf(el[d.child], d.to),
                              !.cto = GetNext(StartOf(el[d.child], d.to), d.to)]
        PROVE  DriverTyped'
    <3>1. d' \in Drivers /\ d'.child = d.child /\ d'.pc = "change"
      BY <1>1, <2>2, <2>3, <2>4, Constants DEF DriverTyped, Drivers
    <3> QED
      BY <2>1, <3>1 DEF DriverTyped
  <2> QED
    BY <1>2, <1>6, <1>12, <2>4 DEF SetChild
<1>13. CASE ChildSame \/ ChildStarts \/ ChildStops \/ LiveChange
  <2>1. d.pc = "change" /\ d.child \in Children
    BY <1>1, <1>13 DEF DriverTyped, ChildSame, ChildStarts, ChildStops, LiveChange
  <2>2. PICK ret \in Returns : ChildReturns(ret)
    BY <1>2, <1>13, <2>1 DEF ChildSame, ChildStarts, ChildStops, LiveChange
  <2> QED
    BY <1>1, <2>1, <2>2, DriverReturns
<1>14. CASE SinkPauses \/ SinkPlays \/ SinkUnplays \/ SinkUnpauses
  <2>1. d.pc \in {"change", "drain"}
    BY <1>14 DEF SinkPauses, SinkPlays, SinkUnplays, SinkUnpauses
  <2>2. PICK ret \in Returns : ChildReturns(ret)
    BY <1>2, <1>14 DEF SinkPauses, SinkPlays, SinkUnplays, SinkUnpauses, SinkGoesAsync
  <2> QED
    BY <1>1, <2>1, <2>2, DriverReturns
<1>15. CASE SinkDeactivates
  BY <1>1, <1>15 DEF SinkDeactivates, DriverTyped, Drivers
<1>16. CASE ChildReturned
  <2>1. d.pc = "returned" /\ d.child \in Children /\ d.res \in Returns
    BY <1>1, <1>16 DEF ChildReturned, DriverTyped, Drivers
  <2>2. ASSUME Continues(el[d.child]),
               d' = [d EXCEPT !.pc = "change", !.res = "SUCCESS", !.cfrom = el[d.child].next,
                              !.cto = GetNext(el[d.child].next, el[d.child].pending)]
        PROVE  DriverTyped'
    <3>1. el[d.child].next \in States /\ el[d.child].pending \in States
      BY <1>1, <2>1, <2>2 DEF Sound, Elements, Continues, Commits, Settled
    <3>2. GetNext(el[d.child].next, el[d.child].pending) \in States
      BY <3>1, NextIsState
    <3>3. d' \in Drivers /\ d'.child = d.child /\ d'.pc = "change"
      BY <1>1, <1>2, <2>2, <3>1, <3>2 DEF DriverTyped, Drivers
    <3> QED
      BY <2>1, <3>3 DEF DriverTyped
  <2> QED
    BY <1>2, <1>6, <1>16, <2>1, <2>2 DEF ChildReturned
<1>17. CASE BinFinish
  <2>1. BinResult \in Returns
    BY <1>2 DEF BinResult
  <2>2. d' = [Driver("bin_returned") EXCEPT !.res = BinResult]
    BY <1>17 DEF BinFinish
  <2> QED
    BY <2>1, <2>2, DriverNew, Constants DEF DriverTyped
<1>18. CASE BinReturned
  <2>1. ASSUME Continues(el[Bin]) PROVE el[Bin].next \in States /\ el[Bin].pending \in States
    BY <1>1, <2>1 DEF Sound, Elements, Continues, Commits, Settled
  <2>2. ASSUME Continues(el[Bin])
        PROVE  GetNext(el[Bin].next, el[Bin].pending) \in States
    BY <2>1, <2>2, NextIsState
  <2> QED
    BY <1>4, <1>5, <1>18, <2>1, <2>2 DEF BinReturned
<1>19. ASSUME NEW c \in Children, Stream(c) \/ PostError(c) \/ FlushStart(c) \/ Flush(c)
       PROVE  DriverTyped'
  BY <1>3, <1>19
  DEF Stream, Arrive, PostDone, Resume, PostError, FlushStart, Flush, FlushLoses, FlushPosts,
      FlushStop
<1>20. CASE GetState \/ GetReturns
  BY <1>3, <1>20 DEF GetState, GetReturns
<1> QED
  BY <1>7, <1>8, <1>9, <1>10, <1>11, <1>12, <1>13, <1>14, <1>15, <1>16, <1>17, <1>18, <1>19, <1>20
  DEF Next, Drive

-----------------------------------------------------------------------------
(* The fields of the sinks; a live source never gets any. *)
SinkTyped ==
  /\ live \subseteq Children
  /\ sink \in [Children -> SinkFields]
  /\ thread \in [Children -> {"idle", "wait", "woken", "post"}]
  /\ flush \in [Children -> {"none", "start", "post", "stop"}]
  /\ \A c \in live : thread[c] = "idle" /\ flush[c] = "none" /\ sink[c] = NewSink

(* The sinks, their streaming and their seeking threads keep their types.  *)
LEMMA SinkStep ==
  ASSUME IInv, Next
  PROVE  SinkTyped'
<1> USE DEF Sinks, Transition
<1>1. SinkTyped /\ DriverTyped
  BY DEF IInv, Typed, TypeOK, SinkTyped, DriverTyped
<1>2. live' = live
  BY DEF Next, Drive, SetState, Continue, BinStart, PickChild, CheckChild, SetChild, ChildSame,
         ChildStarts, ChildStops, LiveChange, SinkPauses, SinkPlays, SinkUnplays,
         SinkDeactivates, SinkUnpauses, ChildReturned, BinFinish, BinReturned, Stream, Arrive,
         PostDone, Resume, PostError, FlushStart, Flush, FlushLoses, FlushPosts, FlushStop,
         GetState, GetReturns
<1>3. ASSUME UNCHANGED <<sink, thread, flush>> PROVE SinkTyped'
  BY <1>1, <1>2, <1>3 DEF SinkTyped
<1>4. ASSUME NEW c \in Children, c \notin live,
             NEW s \in SinkFields, NEW t \in {"idle", "wait", "woken", "post"},
             NEW f \in {"none", "start", "post", "stop"},
             sink' = [sink EXCEPT ![c] = s], thread' = [thread EXCEPT ![c] = t],
             flush' = [flush EXCEPT ![c] = f]
      PROVE  SinkTyped'
  BY <1>1, <1>2, <1>4 DEF SinkTyped
<1>5. \A c \in Children : /\ sink[c] \in SinkFields
                          /\ sink = [sink EXCEPT ![c] = sink[c]]
                          /\ thread = [thread EXCEPT ![c] = thread[c]]
                          /\ flush = [flush EXCEPT ![c] = flush[c]]
                          /\ thread[c] \in {"idle", "wait", "woken", "post"}
                          /\ flush[c] \in {"none", "start", "post", "stop"}
  BY <1>1 DEF SinkTyped
<1>6. ASSUME NEW c \in Children
      PROVE  Woken(c) = [thread EXCEPT ![c] = IF thread[c] = "wait" THEN "woken" ELSE thread[c]]
  BY <1>5 DEF Woken
<1>7. CASE SinkPauses \/ SinkUnplays
  <2>1. d.child \in Children /\ d.child \notin live
    BY <1>1, <1>7 DEF DriverTyped, SinkPauses, SinkUnplays
  <2>2. UNCHANGED <<thread, flush>>
    BY <1>7 DEF SinkPauses, SinkUnplays, SinkGoesAsync
  <2>3. PICK s \in SinkFields : sink' = [sink EXCEPT ![d.child] = s]
    <3>1. CASE SinkPauses
      <4> DEFINE t == [sink[d.child] EXCEPT !.have = FALSE, !.flushing = FALSE, !.active = TRUE]
                 s == [t EXCEPT !.need = TRUE, !.async = TRUE, !.committed = FALSE]
      <4>1. t \in SinkFields
        BY <1>5, <2>1 DEF SinkFields
      <4>2. s \in SinkFields
        BY <4>1 DEF SinkFields
      <4>3. sink' = [sink EXCEPT ![d.child] = s]
        BY <3>1 DEF SinkPauses, SinkGoesAsync
      <4> QED
        BY <4>2, <4>3
    <3>2. CASE SinkUnplays
      <4> DEFINE c == d.child
                 s == IF NeedsPreroll(c) /\ el[c].target > READY
                      THEN [sink[c] EXCEPT !.need = TRUE, !.async = TRUE, !.committed = FALSE]
                      ELSE [sink[c] EXCEPT !.async = IF NeedsPreroll(c) THEN @ ELSE FALSE,
                                           !.need = TRUE]
      <4>1. s \in SinkFields
        BY <1>5, <2>1 DEF SinkFields
      <4>2. sink' = [sink EXCEPT ![d.child] = s]
        BY <1>1, <2>1, <3>2 DEF SinkUnplays, SinkGoesAsync, SinkTyped
      <4> QED
        BY <4>1, <4>2
    <3> QED
      BY <1>7, <3>1, <3>2
  <2> QED
    BY <1>4, <1>5, <2>1, <2>2, <2>3
<1>8. CASE SinkPlays
  <2> DEFINE c == d.child
             s == IF NeedsPreroll(c)
                  THEN [sink[c] EXCEPT !.need = TRUE, !.async = TRUE, !.committed = FALSE]
                  ELSE [sink[c] EXCEPT !.async = FALSE, !.need = FALSE]
             t == IF ~NeedsPreroll(c) /\ thread[c] = "wait" THEN "woken" ELSE thread[c]
  <2>1. d.child \in Children /\ d.child \notin live
    BY <1>1, <1>8 DEF DriverTyped, SinkPlays
  <2>2. s \in SinkFields /\ t \in {"idle", "wait", "woken", "post"}
    BY <1>5, <2>1 DEF SinkFields
  <2>3. sink' = [sink EXCEPT ![d.child] = s]
    BY <1>1, <1>8, <2>1 DEF SinkPlays, SinkGoesAsync, SinkTyped
  <2>4. thread' = [thread EXCEPT ![d.child] = t]
    BY <1>5, <1>6, <1>8, <2>1 DEF SinkPlays, SinkGoesAsync
  <2>5. flush' = flush
    BY <1>8 DEF SinkPlays
  <2> HIDE DEF s, t
  <2> QED
    BY <1>4, <1>5, <2>1, <2>2, <2>3, <2>4, <2>5
<1>9. CASE SinkDeactivates
  <2>1. d.child \in Children /\ d.child \notin live
    BY <1>1, <1>9 DEF DriverTyped, SinkDeactivates
  <2>2. PICK s \in SinkFields : sink' = [sink EXCEPT ![d.child] = s]
    <3> DEFINE s == [sink[d.child] EXCEPT !.active = FALSE, !.flushing = TRUE, !.need = TRUE,
                                          !.have = FALSE]
    <3>1. s \in SinkFields
      BY <1>5, <2>1 DEF SinkFields
    <3>2. sink' = [sink EXCEPT ![d.child] = s]
      BY <1>1, <1>9, <2>1 DEF SinkDeactivates, SinkTyped
    <3> QED
      BY <3>1, <3>2
  <2>3. PICK t \in {"idle", "wait", "woken", "post"} : thread' = [thread EXCEPT ![d.child] = t]
    BY <1>5, <1>6, <1>9, <2>1 DEF SinkDeactivates
  <2>4. flush' = flush
    BY <1>9 DEF SinkDeactivates
  <2> QED
    BY <1>4, <1>5, <2>1, <2>2, <2>3, <2>4
<1>10. CASE SinkUnpauses
  <2>1. d.child \in Children /\ d.child \notin live
    BY <1>1, <1>10 DEF DriverTyped, SinkUnpauses
  <2>2. [sink[d.child] EXCEPT !.committed = TRUE] \in SinkFields
    BY <1>5, <2>1 DEF SinkFields
  <2>3. /\ sink' = [sink EXCEPT ![d.child] = [sink[d.child] EXCEPT !.committed = TRUE]]
        /\ UNCHANGED <<thread, flush>>
    BY <1>1, <1>10, <2>1 DEF SinkUnpauses, SinkTyped
  <2> QED
    BY <1>4, <1>5, <2>1, <2>2, <2>3
<1>11. ASSUME NEW c \in Children, Stream(c)
       PROVE  SinkTyped'
  <2>1. c \notin live
    BY <1>1, <1>11 DEF Stream, Arrive, PostDone, Resume, SinkTyped, NewSink
  <2>2. PICK s \in SinkFields, t \in {"idle", "wait", "woken", "post"} :
          sink' = [sink EXCEPT ![c] = s] /\ thread' = [thread EXCEPT ![c] = t]
    <3>1. ASSUME NEW s \in SinkFields, Waits(c, s) \/ Goes(c, s)
          PROVE  \E s2 \in SinkFields, t \in {"idle", "wait", "woken", "post"} :
                   sink' = [sink EXCEPT ![c] = s2] /\ thread' = [thread EXCEPT ![c] = t]
      <4>1. [s EXCEPT !.have = TRUE] \in SinkFields /\ [s EXCEPT !.have = FALSE] \in SinkFields
        BY DEF SinkFields
      <4> QED
        BY <3>1, <4>1 DEF Waits, Goes
    <3>2. CASE PostDone(c)
      BY <1>5, <3>1, <3>2 DEF PostDone
    <3>3. CASE Resume(c) /\ sink[c].flushing
      BY <1>5, <3>1, <3>3 DEF Resume
    <3>4. CASE Preroll(c)
      <4> DEFINE s == [sink[c] EXCEPT !.have = FALSE]
                 b == s.flushing \/ ~Settled(el[c]) \/ el[c].current # PLAYING
                 n == el[c].pending # PLAYING
      <4>1. s \in SinkFields /\ b \in BOOLEAN /\ n \in BOOLEAN
        BY <1>5 DEF SinkFields
      <4>2. /\ [s EXCEPT !.async = FALSE] \in SinkFields
            /\ [s EXCEPT !.async = FALSE, !.committed = TRUE, !.need = n] \in SinkFields
            /\ [s EXCEPT !.async = FALSE, !.need = FALSE, !.flushing = b] \in SinkFields
        <5> HIDE DEF s, b, n
        <5> QED
          BY <4>1 DEF SinkFields
      <4>3. \/ Goes(c, s) \/ Waits(c, s) \/ Waits(c, [s EXCEPT !.async = FALSE])
            \/ Goes(c, [s EXCEPT !.async = FALSE, !.need = FALSE, !.flushing = b])
            \/ /\ sink' = [sink EXCEPT ![c] = [s EXCEPT !.async = FALSE, !.committed = TRUE,
                                                        !.need = n]]
               /\ thread' = [thread EXCEPT ![c] = "post"]
        BY <3>4, Zenon DEF Preroll
      <4> HIDE DEF s, b, n
      <4> QED
        BY <3>1, <4>1, <4>2, <4>3
    <3> QED
      BY <1>11, <3>2, <3>3, <3>4 DEF Stream, Arrive, Resume
  <2>3. flush' = flush
    BY <1>11 DEF Stream, Arrive, PostDone, Resume
  <2> QED
    BY <1>4, <1>5, <2>1, <2>2, <2>3
<1>12. ASSUME NEW c \in Children, FlushStart(c)
       PROVE  SinkTyped'
  <2>1. c \notin live
    BY <1>1, <1>12 DEF FlushStart, SinkTyped, NewSink
  <2> DEFINE s == [sink[c] EXCEPT !.need = TRUE, !.have = FALSE, !.flushing = TRUE]
  <2>2. s \in SinkFields /\ sink' = [sink EXCEPT ![c] = s]
    BY <1>1, <1>5, <1>12 DEF FlushStart, SinkFields, SinkTyped
  <2>3. PICK t \in {"idle", "wait", "woken", "post"} : thread' = [thread EXCEPT ![c] = t]
    BY <1>5, <1>6, <1>12 DEF FlushStart
  <2>4. flush' = [flush EXCEPT ![c] = "start"]
    BY <1>12 DEF FlushStart
  <2> HIDE DEF s
  <2> QED
    BY <1>4, <2>1, <2>2, <2>3, <2>4
<1>13. ASSUME NEW c \in Children, Flush(c)
       PROVE  SinkTyped'
  <2>1. c \notin live
    BY <1>1, <1>13 DEF Flush, FlushLoses, FlushPosts, FlushStop, SinkTyped
  <2>2. thread' = thread
    BY <1>13 DEF Flush, FlushLoses, FlushPosts, FlushStop
  <2>3. PICK f \in {"none", "start", "post", "stop"} : flush' = [flush EXCEPT ![c] = f]
    BY <1>13 DEF Flush, FlushLoses, FlushPosts, FlushStop
  <2>4. PICK s \in SinkFields : sink' = [sink EXCEPT ![c] = s]
    <3>1. [sink[c] EXCEPT !.async = TRUE] \in SinkFields
      BY <1>5 DEF SinkFields
    <3>2. [sink[c] EXCEPT !.flushing = IF sink[c].active THEN FALSE ELSE @] \in SinkFields
      BY <1>5 DEF SinkFields
    <3>3. CASE FlushLoses(c)
      BY <1>1, <3>1, <3>3 DEF FlushLoses, SinkTyped
    <3>4. CASE FlushStop(c)
      BY <1>1, <3>2, <3>4 DEF FlushStop, SinkTyped
    <3>5. CASE FlushPosts(c)
      BY <1>5, <3>5 DEF FlushPosts
    <3> QED
      BY <1>13, <3>3, <3>4, <3>5 DEF Flush
  <2> QED
    BY <1>4, <1>5, <2>1, <2>2, <2>3, <2>4
<1>14. CASE UNCHANGED sinkVars
  BY <1>3, <1>14 DEF sinkVars
<1> QED
  BY <1>7, <1>8, <1>9, <1>10, <1>11, <1>12, <1>13, <1>14
  DEF Next, Drive, SetState, Continue, BinStart, PickChild, CheckChild, SetChild, ChildSame,
      ChildStarts, ChildStops, LiveChange, ChildReturned, BinFinish, BinReturned, PostError,
      GetState, GetReturns

-----------------------------------------------------------------------------
(* The bag of continuations. *)
LEMMA BagAdds ==
  ASSUME NEW B, IsABag(B), NEW k
  PROVE  /\ IsABag(B (+) SetToBag({k}))
         /\ BagToSet(B (+) SetToBag({k})) = BagToSet(B) \cup {k}
BY DEF IsABag, BagToSet, SetToBag, (+)

LEMMA BagRemoves ==
  ASSUME NEW B, IsABag(B), NEW k
  PROVE  /\ IsABag(B (-) SetToBag({k}))
         /\ BagToSet(B (-) SetToBag({k})) \subseteq BagToSet(B)
BY DEF IsABag, BagToSet, SetToBag, (-)

(* What a step does to the bin's fields. *)
BinMoved ==
  /\ el' \in [Children \cup {Bin} -> Elements]
  /\ \A e \in Children \cup {Bin} : Sound(el'[e])
  /\ OnCourse(el'[Bin]) /\ Rises(el[Bin], el'[Bin])

ContsTyped ==
  /\ IsABag(conts) /\ BagToSet(conts) \subseteq Continuations
  /\ CurrentContinuations

CountsTyped == sets \in Nat /\ cookie \in Nat /\ cookie <= sets /\ sets <= MaxSets

(* The invariant in the parts the steps use. *)
LEMMA Facts ==
  ASSUME IInv
  PROVE  /\ el \in [Children \cup {Bin} -> Elements]
         /\ \A e \in Children \cup {Bin} : Sound(el[e])
         /\ OnCourse(el[Bin]) /\ el[Bin].current \in Int /\ el[Bin].target \in States
         /\ ContsTyped /\ CountsTyped /\ DriverTyped /\ SinkTyped
         /\ starts \subseteq Sinks
BY BinAssumption
DEF IInv, Typed, TypeOK, Sound, ContsTyped, CountsTyped, DriverTyped, SinkTyped, Elements, States,
    NULL, READY, PAUSED, PLAYING

(* A step that changes the fields of the bin, of a child, or of neither. *)
LEMMA BinMoves ==
  ASSUME IInv, NEW b, el' = [el EXCEPT ![Bin] = b], Sound(b), OnCourse(b), Rises(el[Bin], b)
  PROVE  BinMoved /\ el'[Bin] = b /\ \A c \in Children : el'[c] = el[c]
BY Facts, BinAssumption DEF BinMoved, Sound

LEMMA ChildMoves ==
  ASSUME IInv, NEW c \in Children, NEW e, el' = [el EXCEPT ![c] = e], Sound(e)
  PROVE  BinMoved /\ el'[Bin] = el[Bin]
<1>1. c # Bin
  BY BinAssumption
<1>2. Rises(el[Bin], el[Bin])
  BY Facts DEF Rises
<1> QED
  BY <1>1, <1>2, Facts DEF BinMoved, Sound

LEMMA NothingMoves ==
  ASSUME IInv, el' = el
  PROVE  BinMoved /\ el'[Bin] = el[Bin]
<1>1. Rises(el[Bin], el[Bin])
  BY Facts DEF Rises
<1> QED
  BY <1>1, Facts DEF BinMoved

(* The bin's message handler, in whatever thread: an ASYNC_DONE that       *)
(* counts commits and pushes a continuation for the target.                *)
Handled ==
  /\ BinMoved
  /\ el'[Bin].target = el[Bin].target
  /\ \A c \in Children : el'[c] = el[c]
  /\ Waiting(el[Bin]) => Waiting(el'[Bin])
  /\ IsABag(conts') /\ BagToSet(conts') \subseteq Continuations
  /\ \A k \in BagToSet(conts') :
       k \in BagToSet(conts) \/ (k.cookie = cookie /\ k.pending = el[Bin].target)

(* The handlers of ASYNC_START and ASYNC_DONE, in whatever thread. *)
LEMMA NothingHandled ==
  ASSUME IInv, el' = el, conts' = conts
  PROVE  Handled
BY NothingMoves, Facts DEF Handled, ContsTyped

LEMMA DoneHandled ==
  ASSUME IInv, NEW busy, el[Bin].target > READY, HandleAsyncDone(busy)
  PROVE  Handled
<1> DEFINE b == el[Bin]
           k == [cookie |-> cookie, pending |-> b.target]
<1>1. CASE DoneIgnored(b, busy)
  BY <1>1, NothingHandled DEF HandleAsyncDone
<1>2. CASE ~DoneIgnored(b, busy)
  <2>1. Sound(b) /\ OnCourse(b) /\ ~Settled(b)
    BY <1>2, Facts DEF DoneIgnored
  <2>2. /\ Sound(BinDone(b)) /\ OnCourse(BinDone(b)) /\ Waiting(BinDone(b))
        /\ Rises(b, BinDone(b)) /\ BinDone(b).target = b.target
    BY <2>1, CourseDone
  <2>3. el' = [el EXCEPT ![Bin] = BinDone(b)]
    BY <1>2 DEF HandleAsyncDone
  <2>4. BinMoved /\ el'[Bin] = BinDone(b) /\ \A c \in Children : el'[c] = el[c]
    BY <2>2, <2>3, BinMoves
  <2>5. conts' = conts \/ conts' = conts (+) SetToBag({k})
    BY <1>2 DEF HandleAsyncDone
  <2>6. IsABag(conts') /\ BagToSet(conts') \subseteq BagToSet(conts) \cup {k}
    <3>1. IsABag(conts)
      BY Facts DEF ContsTyped
    <3>2. /\ IsABag(conts (+) SetToBag({k}))
          /\ BagToSet(conts (+) SetToBag({k})) = BagToSet(conts) \cup {k}
      BY <3>1, BagAdds
    <3> QED
      BY <2>5, <3>1, <3>2
  <2>7. k \in Continuations
    BY Facts, BinAssumption DEF CountsTyped, Continuations
  <2>8. BagToSet(conts) \subseteq Continuations
    BY Facts DEF ContsTyped
  <2> QED
    BY <2>2, <2>4, <2>6, <2>7, <2>8 DEF Handled
<1> QED
  BY <1>1, <1>2

LEMMA MessageHandled ==
  ASSUME IInv, NEW c \in Children, PostAsyncStart(c) \/ PostAsyncDone(c)
  PROVE  Handled /\ cookie' = cookie
<1> SUFFICES Handled
  BY DEF PostAsyncStart, PostAsyncDone
<1>0. el[Bin].target > READY <=> ~(el[Bin].target <= READY)
  BY Facts DEF States, NULL, READY, PAUSED, PLAYING
<1>1. ASSUME el' = el, conts' = conts PROVE Handled
  BY <1>1, NothingHandled
<1>2. CASE PostAsyncDone(c)
  <2>1. CASE el' = el /\ conts' = conts
    BY <1>1, <2>1
  <2>2. CASE ~(el' = el /\ conts' = conts)
    <3>1. el[Bin].target > READY /\ HandleAsyncDone(polling)
      BY <1>0, <1>2, <2>2 DEF PostAsyncDone
    <3> QED
      BY <3>1, DoneHandled
  <2> QED
    BY <2>1, <2>2
<1>3. CASE PostAsyncStart(c)
  <2>1. CASE el[Bin].target > READY /\ ~StartIgnored(el[Bin])
    <3>1. Settled(el[Bin]) /\ Sound(el[Bin]) /\ OnCourse(el[Bin])
      BY <2>1, Facts DEF StartIgnored
    <3>2. "SUCCESS" \in Returns
      BY DEF Returns
    <3>3. /\ Sound(Lost(el[Bin])) /\ OnCourse(Lost(el[Bin])) /\ Waiting(Lost(el[Bin]))
          /\ Rises(el[Bin], Lost(el[Bin])) /\ Lost(el[Bin]).target = el[Bin].target
      BY <2>1, <3>1, <3>2, CourseLost, SoundMoves
    <3>4. el' = [el EXCEPT ![Bin] = Lost(el[Bin])] /\ conts' = conts
      BY <1>0, <1>3, <2>1 DEF PostAsyncStart, HandleAsyncStart
    <3>5. BinMoved /\ el'[Bin] = Lost(el[Bin]) /\ \A e \in Children : el'[e] = el[e]
      BY <3>3, <3>4, BinMoves
    <3>6. IsABag(conts') /\ BagToSet(conts') \subseteq Continuations
          /\ BagToSet(conts') = BagToSet(conts)
      BY <3>4, Facts DEF ContsTyped
    <3> QED
      BY <3>3, <3>5, <3>6 DEF Handled
  <2>2. CASE ~(el[Bin].target > READY /\ ~StartIgnored(el[Bin]))
    <3>1. conts' = conts
      BY <1>3 DEF PostAsyncStart
    <3>2. el' = el
      BY <1>0, <1>3, <2>2, Facts DEF PostAsyncStart, HandleAsyncStart
    <3> QED
      BY <1>1, <3>1, <3>2
  <2> QED
    BY <2>1, <2>2
<1> QED
  BY <1>2, <1>3

(* The continuations stay current while the cookie stays. *)
LEMMA ContsKept ==
  ASSUME IInv, el'[Bin].target = el[Bin].target, UNCHANGED <<conts, cookie, sets>>
  PROVE  ContsTyped' /\ CountsTyped'
BY Facts DEF ContsTyped, CountsTyped, CurrentContinuations

LEMMA ContsHandled ==
  ASSUME IInv, Handled, UNCHANGED <<cookie, sets>>
  PROVE  ContsTyped' /\ CountsTyped'
<1>1. CountsTyped'
  BY Facts DEF CountsTyped
<1>2. CurrentContinuations'
  <2> SUFFICES ASSUME NEW k \in BagToSet(conts')
               PROVE  k.cookie <= cookie /\ (k.cookie = cookie => k.pending = el'[Bin].target)
    BY DEF CurrentContinuations
  <2>1. el'[Bin].target = el[Bin].target /\ cookie \in Nat
    BY Facts DEF Handled, CountsTyped
  <2>2. k \in BagToSet(conts) \/ (k.cookie = cookie /\ k.pending = el[Bin].target)
    BY DEF Handled
  <2> QED
    BY <2>1, <2>2, Facts DEF ContsTyped, CurrentContinuations
<1> QED
  BY <1>1, <1>2 DEF ContsTyped, Handled

(* What every step does: it keeps the invariant, and does not let the bin  *)
(* rise above its target.                                                  *)
Stepped ==
  /\ BinMoved
  /\ d'.pc = "idle" => Waiting(el'[Bin])
  /\ ContsTyped' /\ CountsTyped'
  /\ starts' \subseteq Sinks'

LEMMA SetStateStep ==
  ASSUME IInv, NEW state \in Goals, SetState(state)
  PROVE  Stepped
<1> DEFINE b == el[Bin]
<1>1. state \in States /\ Sound(b) /\ OnCourse(b) /\ Waiting(b)
  BY BinAssumption, Facts DEF IInv, SetState, StateLockFree
<1>2. IsBusy(b, state) => Sound(Aimed(b, state))
  BY <1>1, SoundAims
<1>3. Sound(Started(b, state))
  BY <1>1, SoundAims
<1>4. IsBusy(b, state) =>
        OnCourse(Aimed(b, state)) /\ Waiting(Aimed(b, state)) /\ Rises(b, Aimed(b, state))
  BY <1>1, CourseAimed
<1>5. /\ OnCourse(Started(b, state)) /\ Rises(b, Started(b, state))
      /\ Started(b, state).target = state
  BY <1>1, CourseStarted
<1>6. BinMoved /\ el'[Bin].target = state
  <2>1. CASE IsBusy(b, state)
    <3>1. el' = [el EXCEPT ![Bin] = Aimed(b, state)]
      BY <2>1 DEF SetState
    <3>2. Forgiven(b) \in Elements
      BY <1>1, SoundAims DEF Sound
    <3>3. Aimed(b, state).target = state
      BY <3>2 DEF Aimed, Elements
    <3> QED
      BY <1>2, <1>4, <2>1, <3>1, <3>3, BinMoves
  <2>2. CASE ~IsBusy(b, state)
    <3>1. el' = [el EXCEPT ![Bin] = Started(b, state)]
      BY <2>2 DEF SetState
    <3> QED
      BY <1>3, <1>5, <3>1, BinMoves
  <2> QED
    BY <2>1, <2>2
<1>7. d'.pc = "idle" => Waiting(el'[Bin])
  <2>1. CASE IsBusy(b, state)
    <3>1. el' = [el EXCEPT ![Bin] = Aimed(b, state)]
      BY <2>1 DEF SetState
    <3> QED
      BY <1>2, <1>4, <2>1, <3>1, BinMoves
  <2>2. CASE ~IsBusy(b, state)
    <3>1. StartOf(b, state) \in States
      BY <1>1, SoundAims
    <3>2. GetNext(StartOf(b, state), state) \in States
      BY <1>1, <3>1, NextIsState
    <3>3. d' = [Driver("start") EXCEPT !.from = StartOf(b, state),
                                       !.to = GetNext(StartOf(b, state), state)]
      BY <2>2 DEF SetState
    <3>4. d'.pc = "start"
      BY <3>1, <3>2, <3>3, DriverNew
    <3> QED
      BY <3>4
  <2> QED
    BY <2>1, <2>2
<1>8. CountsTyped'
  BY Facts, BinAssumption DEF CountsTyped, SetState
<1>9. ContsTyped'
  <2>1. cookie \in Nat /\ ContsTyped
    BY Facts DEF CountsTyped
  <2>2. conts' = conts /\ cookie' = IF state # b.target THEN cookie + 1 ELSE cookie
    BY DEF SetState
  <2>3. \A k \in BagToSet(conts) : k.cookie \in Nat
    BY <2>1 DEF ContsTyped, Continuations
  <2>4. ASSUME NEW k \in BagToSet(conts)
        PROVE  k.cookie <= cookie' /\ (k.cookie = cookie' => k.pending = state)
    BY <2>1, <2>2, <2>3 DEF ContsTyped, CurrentContinuations
  <2> QED
    BY <1>6, <2>1, <2>2, <2>4 DEF ContsTyped, CurrentContinuations
<1>10. starts' \subseteq Sinks'
  BY Facts DEF SetState, Sinks
<1> QED
  BY <1>6, <1>7, <1>8, <1>9, <1>10 DEF Stepped

LEMMA ContinueStep ==
  ASSUME IInv, NEW k \in BagToSet(conts), Continue(k)
  PROVE  Stepped
<1> DEFINE b == el[Bin]
<1>1. Sound(b) /\ OnCourse(b) /\ Waiting(b) /\ ContsTyped
  BY Facts DEF IInv, Continue, StateLockFree
<1>2. /\ IsABag(conts') /\ BagToSet(conts') \subseteq BagToSet(conts)
      /\ BagToSet(conts) \subseteq Continuations
  BY <1>1, BagRemoves DEF Continue, ContsTyped
<1>3. BinMoved /\ el'[Bin].target = b.target /\ (d'.pc = "idle" => Waiting(el'[Bin]))
  <2>1. CASE Overtaken(k)
    BY <1>1, <2>1, NothingMoves DEF Continue
  <2>2. CASE ~Overtaken(k)
    <3> DEFINE c == [b EXCEPT !.next = GetNext(b.current, b.target), !.pending = b.target,
                              !.return = "ASYNC"]
    <3>1. k.pending = b.target
      BY <1>1, <2>2 DEF Overtaken, ContsTyped, CurrentContinuations
    <3>2. /\ el' = [el EXCEPT ![Bin] = c]
          /\ d' = [Driver("start") EXCEPT !.from = b.current, !.to = GetNext(b.current, b.target)]
      BY <2>2, <3>1 DEF Continue
    <3>3. Sound(c) /\ OnCourse(c) /\ Rises(b, c) /\ c.target = b.target
      BY <1>1, CourseContinued
    <3>4. b.current \in States /\ b.target \in States
      BY <1>1 DEF Sound, Elements
    <3>5. GetNext(b.current, b.target) \in States
      BY <3>4, NextIsState
    <3>6. d'.pc = "start"
      BY <3>2, <3>4, <3>5, DriverNew
    <3> HIDE DEF c
    <3> QED
      BY <3>2, <3>3, <3>6, BinMoves
  <2> QED
    BY <2>1, <2>2
<1>4. CountsTyped' /\ CurrentContinuations'
  BY <1>1, <1>2, <1>3, Facts
  DEF CountsTyped, ContsTyped, CurrentContinuations, Continue, appVars
<1>5. starts' \subseteq Sinks'
  BY Facts DEF Continue, Sinks
<1> QED
  BY <1>2, <1>3, <1>4, <1>5 DEF Stepped, ContsTyped

(* The driver among the children: only the child it is at moves. *)
LEMMA ChildStep ==
  ASSUME IInv, SetChild \/ ChildReturned
  PROVE  Stepped
<1>1. d.child \in Children /\ DriverTyped /\ Sound(el[d.child])
  BY Facts DEF DriverTyped, SetChild, ChildReturned
<1>2. PICK e : el' = [el EXCEPT ![d.child] = e] /\ Sound(e)
  <2>1. el = [el EXCEPT ![d.child] = el[d.child]]
    BY <1>1, Facts
  <2>2. CASE SetChild
    <3>1. d.to \in States
      BY <1>1 DEF DriverTyped, Drivers
    <3>2. /\ IsBusy(el[d.child], d.to) => Sound(Aimed(el[d.child], d.to))
          /\ Sound(Started(el[d.child], d.to))
      BY <1>1, <3>1, SoundAims
    <3> QED
      BY <1>1, <2>2, <3>2 DEF SetChild
  <2>3. CASE ChildReturned
    <3> DEFINE ret == IF d.res = "ASYNC" THEN "SUCCESS" ELSE d.res
    <3>1. ret \in Returns
      BY <1>1 DEF DriverTyped, Drivers, Returns
    <3>2. Sound(Committed(el[d.child], ret)) /\ Sound(Aborted(el[d.child]))
      BY <1>1, <3>1, SoundMoves
    <3>3. \/ el' = [el EXCEPT ![d.child] = Aborted(el[d.child])]
          \/ el' = el
          \/ el' = [el EXCEPT ![d.child] = Committed(el[d.child], ret)]
      BY <2>3 DEF ChildReturned
    <3> QED
      BY <1>1, <2>1, <3>2, <3>3
  <2> QED
    BY <2>2, <2>3
<1>3. BinMoved /\ el'[Bin] = el[Bin]
  BY <1>1, <1>2, ChildMoves
<1>4. d'.pc # "idle"
  <2>1. \A ret \in Returns : Collected(ret).pc = "child"
    BY <1>1, DriverCollected
  <2>2. "ASYNC" \in Returns /\ "FAILURE" \in Returns /\ "SUCCESS" \in Returns
    BY DEF Returns
  <2>3. d \in Drivers /\ d.res \in Returns
    BY <1>1 DEF DriverTyped, Drivers
  <2>4. CASE SetChild
    BY <2>1, <2>2, <2>3, <2>4 DEF SetChild, Drivers
  <2>5. CASE ChildReturned
    BY <2>1, <2>2, <2>3, <2>5 DEF ChildReturned, Drivers
  <2> QED
    BY <2>4, <2>5
<1>5. ContsTyped' /\ CountsTyped'
  BY <1>3, ContsKept DEF SetChild, ChildReturned, binVars, appVars
<1>6. starts' \subseteq Sinks'
  BY Facts DEF SetChild, ChildReturned, binVars, Sinks
<1> QED
  BY <1>3, <1>4, <1>5, <1>6 DEF Stepped

(* Every thread that posts a message to the bin. *)
LEMMA MessageStep ==
  ASSUME IInv, NEW c \in Children, c \notin live,
         PostAsyncStart(c) \/ PostAsyncDone(c), UNCHANGED <<sets, live>>,
         d'.pc = "idle" => d.pc = "idle"
  PROVE  Stepped
<1>1. Handled /\ cookie' = cookie
  BY MessageHandled
<1>2. ContsTyped' /\ CountsTyped'
  BY <1>1, ContsHandled
<1>3. d'.pc = "idle" => Waiting(el'[Bin])
  BY <1>1 DEF IInv, Handled
<1>4. starts' \subseteq Sinks'
  BY Facts DEF PostAsyncStart, PostAsyncDone, Sinks
<1> QED
  BY <1>1, <1>2, <1>3, <1>4 DEF Stepped, Handled

(* A step that leaves the bin and its messages alone. *)
LEMMA QuietStep ==
  ASSUME IInv, UNCHANGED <<el, conts, cookie, sets, live, starts>>,
         d'.pc = "idle" => d.pc = "idle"
  PROVE  Stepped
<1>1. BinMoved /\ el'[Bin] = el[Bin]
  BY NothingMoves
<1>2. ContsTyped' /\ CountsTyped'
  BY <1>1, ContsKept
<1> QED
  BY <1>1, <1>2, Facts DEF Stepped, IInv, Sinks

LEMMA PostingStep ==
  ASSUME IInv, SinkPauses \/ SinkPlays \/ SinkUnplays \/ SinkUnpauses
  PROVE  Stepped
<1> USE DEF Transition
<1>1. DriverTyped /\ d.child \in Sinks /\ d.child \in Children /\ d.child \notin live
  BY Facts DEF DriverTyped, SinkPauses, SinkPlays, SinkUnplays, SinkUnpauses, Sinks
<1>2. d'.pc = "returned"
  BY <1>1 DEF SinkPauses, SinkPlays, SinkUnplays, SinkUnpauses, SinkGoesAsync, ChildReturns,
              DriverTyped, Drivers
<1>3. UNCHANGED <<sets, live>>
  BY DEF SinkPauses, SinkPlays, SinkUnplays, SinkUnpauses, appVars
<1>4. \/ PostAsyncStart(d.child) \/ PostAsyncDone(d.child)
      \/ UNCHANGED <<el, conts, cookie, starts>>
  BY DEF SinkPauses, SinkPlays, SinkUnplays, SinkUnpauses, SinkGoesAsync, binVars
<1> QED
  BY <1>1, <1>2, <1>3, <1>4, MessageStep, QuietStep

LEMMA BinFinishStep ==
  ASSUME IInv, BinFinish
  PROVE  Stepped
<1>1. Handled
  <2>1. CASE el' = el /\ conts' = conts
    BY <2>1, NothingHandled
  <2>2. CASE ~(el' = el /\ conts' = conts)
    <3>1. el[Bin].target > READY /\ HandleAsyncDone(FALSE)
      BY <2>2 DEF BinFinish
    <3> QED
      BY <3>1, DoneHandled
  <2> QED
    BY <2>1, <2>2
<1>2. ContsTyped' /\ CountsTyped'
  BY <1>1, ContsHandled DEF BinFinish, appVars
<1>3. d'.pc # "idle"
  <2>1. BinResult \in Returns
    BY Facts DEF BinResult, Returns, Sound, Elements
  <2> QED
    BY <2>1, DriverNew, Constants DEF BinFinish
<1>4. starts' \subseteq Sinks'
  BY Facts DEF BinFinish, Sinks
<1> QED
  BY <1>1, <1>2, <1>3, <1>4 DEF Stepped, Handled

LEMMA BinReturnedStep ==
  ASSUME IInv, BinReturned
  PROVE  Stepped
<1> DEFINE b == el[Bin]
           ret == IF d.res = "ASYNC" THEN "SUCCESS" ELSE d.res
<1>1. Sound(b) /\ OnCourse(b) /\ DriverTyped /\ ret \in Returns
  BY Facts DEF DriverTyped, Drivers, Returns
<1>2. Sound(Committed(b, ret)) /\ Sound(Aborted(b))
  BY <1>1, SoundMoves
<1>3. /\ OnCourse(Committed(b, ret)) /\ Rises(b, Committed(b, ret))
      /\ Committed(b, ret).target = b.target
      /\ ~Continues(b) => Settled(Committed(b, ret))
  BY <1>1, CourseCommitted
<1>4. /\ OnCourse(Aborted(b)) /\ Waiting(Aborted(b)) /\ Rises(b, Aborted(b))
      /\ Aborted(b).target = b.target
  BY <1>1, CourseAborted
<1>5. BinMoved /\ el'[Bin].target = b.target /\ (d'.pc = "idle" => Waiting(el'[Bin]))
  <2>1. CASE el' = [el EXCEPT ![Bin] = Aborted(b)]
    BY <1>2, <1>4, <2>1, BinMoves
  <2>2. CASE el' = el /\ b.target > READY
    <3>1. BinMoved /\ el'[Bin] = b
      BY <2>2, NothingMoves
    <3>2. Waiting(b)
      BY <1>1, <2>2, Facts DEF OnCourse, Waiting, States, NULL, READY, PAUSED, PLAYING
    <3> QED
      BY <3>1, <3>2
  <2>3. CASE /\ el' = [el EXCEPT ![Bin] = Committed(b, ret)]
             /\ d' = IF Continues(b)
                     THEN [Driver("start") EXCEPT !.from = b.next,
                                                  !.to = GetNext(b.next, b.pending)]
                     ELSE Driver("idle")
    <3>1. BinMoved /\ el'[Bin] = Committed(b, ret)
      BY <1>2, <1>3, <2>3, BinMoves
    <3>2. CASE Continues(b)
      <4>1. b.next \in States /\ b.pending \in States
        BY <1>1, <3>2 DEF Sound, Elements, Continues, Commits, Settled
      <4>2. GetNext(b.next, b.pending) \in States
        BY <4>1, NextIsState
      <4>3. d'.pc = "start"
        BY <2>3, <3>2, <4>1, <4>2, DriverNew
      <4> QED
        BY <1>3, <3>1, <4>3
    <3>3. CASE ~Continues(b)
      BY <1>3, <3>1, <3>3 DEF Waiting
    <3> QED
      BY <3>2, <3>3
  <2> QED
    BY <2>1, <2>2, <2>3 DEF BinReturned
<1>6. ContsTyped' /\ CountsTyped'
  BY <1>5, ContsKept DEF BinReturned, binVars, appVars
<1>7. starts' \subseteq Sinks'
  BY Facts DEF BinReturned, binVars, Sinks
<1> QED
  BY <1>5, <1>6, <1>7 DEF Stepped

(* The streaming and the seeking threads. *)
LEMMA ThreadStep ==
  ASSUME IInv, NEW c \in Children, Stream(c) \/ PostError(c) \/ FlushStart(c) \/ Flush(c)
  PROVE  Stepped
<1>1. UNCHANGED <<d, live, sets>> /\ SinkTyped
  BY Facts
  DEF Stream, Arrive, PostDone, Resume, PostError, FlushStart, Flush, FlushLoses, FlushPosts,
      FlushStop, appVars
<1>2. CASE PostDone(c) \/ FlushPosts(c)
  <2>1. c \notin live
    BY <1>1, <1>2 DEF PostDone, FlushPosts, SinkTyped
  <2> QED
    BY <1>1, <1>2, <2>1, MessageStep DEF PostDone, FlushPosts
<1>3. ASSUME NEW e, Sound(e), el' = [el EXCEPT ![c] = e],
             UNCHANGED <<conts, cookie, starts>>
      PROVE  Stepped
  <2>1. BinMoved /\ el'[Bin] = el[Bin]
    BY <1>3, ChildMoves
  <2>2. ContsTyped' /\ CountsTyped'
    BY <1>1, <1>3, <2>1, ContsKept
  <2> QED
    BY <1>1, <1>3, <2>1, <2>2, Facts DEF Stepped, IInv, Sinks
<1>4. Sound(el[c]) /\ el = [el EXCEPT ![c] = el[c]]
  BY Facts
<1>5. CASE Arrive(c) \/ Resume(c)
  <2>1. CanCommit(el[c]) => Sound(CommitPending(el[c]))
    BY <1>4 DEF CanCommit, CommitPending, Sound, Elements, Settled, Returns, States, PAUSED,
                PLAYING, VOID_PENDING
  <2>2. el' = el \/ (CanCommit(el[c]) /\ el' = [el EXCEPT ![c] = CommitPending(el[c])])
    BY <1>5 DEF Arrive, Resume, Preroll
  <2>3. UNCHANGED <<conts, cookie, starts>>
    BY <1>5 DEF Arrive, Resume, binVars
  <2> QED
    BY <1>3, <1>4, <2>1, <2>2, <2>3
<1>6. CASE PostError(c)
  <2> DEFINE b == [el[Bin] EXCEPT !.return = "FAILURE"]
  <2>1. el' = [el EXCEPT ![Bin] = b] /\ UNCHANGED <<conts, cookie, starts>>
    BY <1>6, Facts DEF PostError, binVars
  <2>2. Sound(el[Bin]) /\ OnCourse(el[Bin])
    BY Facts
  <2>3. /\ Sound(b) /\ b.current = el[Bin].current /\ b.next = el[Bin].next
        /\ b.pending = el[Bin].pending /\ b.target = el[Bin].target /\ b.return = "FAILURE"
    BY <2>2 DEF Sound, Elements, Returns, Settled
  <2> HIDE DEF b
  <2>4. OnCourse(b)
    BY <2>2, <2>3 DEF OnCourse, Settled, Near
  <2>5. Rises(el[Bin], b)
    BY <2>3, Facts DEF Rises
  <2>6. BinMoved /\ el'[Bin] = b
    BY <2>1, <2>3, <2>4, <2>5, BinMoves
  <2>7. Waiting(b)
    BY <2>3 DEF Waiting
  <2>8. ContsTyped' /\ CountsTyped'
    BY <1>1, <2>1, <2>3, <2>6, ContsKept
  <2> QED
    BY <1>1, <2>1, <2>6, <2>7, <2>8, Facts DEF Stepped, Sinks
<1>7. CASE FlushStart(c) \/ FlushStop(c)
  BY <1>1, <1>7, QuietStep DEF FlushStart, FlushStop, binVars
<1>8. CASE FlushLoses(c)
  <2>1. Sound(Lost(el[c]))
    <3>1. "SUCCESS" \in Returns
      BY DEF Returns
    <3> QED
      BY <1>4, <3>1, SoundMoves
  <2>2. el' = el \/ el' = [el EXCEPT ![c] = Lost(el[c])]
    BY <1>4, <1>8 DEF FlushLoses
  <2>3. UNCHANGED <<conts, cookie, starts>>
    BY <1>8 DEF FlushLoses, binVars
  <2> QED
    BY <1>3, <1>4, <2>1, <2>2, <2>3
<1> QED
  BY <1>2, <1>5, <1>6, <1>7, <1>8 DEF Stream, Flush

LEMMA NextStep ==
  ASSUME IInv, Next
  PROVE  Stepped
<1>1. DriverTyped
  BY Facts
<1>2. ASSUME NEW c \in Children, PickChild(c) PROVE Stepped
  <2>1. d'.pc # "idle"
    BY <1>1, <1>2 DEF PickChild, DriverTyped, Drivers
  <2> QED
    BY <1>2, <2>1, QuietStep DEF PickChild, binVars, appVars
<1>3. CASE BinStart
  <2>1. d'.pc # "idle"
    BY <1>1, <1>3 DEF BinStart, DriverTyped, Drivers
  <2>2. BinMoved /\ el'[Bin] = el[Bin]
    BY <1>3, NothingMoves DEF BinStart
  <2>3. ContsTyped' /\ CountsTyped'
    BY <1>3, <2>2, ContsKept DEF BinStart, appVars
  <2>4. starts' \subseteq Sinks'
    BY <1>3, Facts DEF BinStart, Sinks
  <2> QED
    BY <2>1, <2>2, <2>3, <2>4 DEF Stepped
<1>4. CASE CheckChild
  <2>1. d.snap.return \in Returns /\ "ASYNC" \in Returns
    BY <1>1 DEF DriverTyped, Drivers, Elements, Returns
  <2>2. \A ret \in Returns : Collected(ret).pc = "child"
    BY <1>1, DriverCollected
  <2>3. d'.pc # "idle"
    BY <1>1, <1>4, <2>1, <2>2 DEF CheckChild, DriverTyped, Drivers
  <2> QED
    BY <1>4, <2>3, QuietStep DEF CheckChild, binVars, appVars
<1>5. CASE ChildSame \/ ChildStarts \/ ChildStops \/ LiveChange \/ SinkDeactivates
  <2>1. d'.pc # "idle"
    BY <1>1, <1>5
    DEF ChildSame, ChildStarts, ChildStops, LiveChange, SinkDeactivates, ChildReturns,
        DriverTyped, Drivers
  <2> QED
    BY <1>5, <2>1, QuietStep
    DEF ChildSame, ChildStarts, ChildStops, LiveChange, SinkDeactivates, binVars, appVars
<1>6. CASE GetState \/ GetReturns
  BY <1>6, QuietStep DEF GetState, GetReturns, binVars, appVars
<1> QED
  BY <1>2, <1>3, <1>4, <1>5, <1>6, SetStateStep, ContinueStep, ChildStep, PostingStep,
     BinFinishStep, BinReturnedStep, ThreadStep
  DEF Next, Drive

-----------------------------------------------------------------------------
LEMMA InitIInv == Init => IInv
<1> SUFFICES ASSUME Init PROVE IInv
  OBVIOUS
<1> USE Constants, BinAssumption
<1>1. el \in [Children \cup {Bin} -> Elements] /\ \A e \in Children \cup {Bin} : el[e] = NewElement
  BY DEF Init
<1>2. IsABag(conts) /\ BagToSet(conts) = {}
  BY DEF Init, EmptyBag, IsABag, BagToSet, SetToBag
<1>3. d \in Drivers /\ d.pc = "idle"
  BY DriverNew DEF Init
<1>4. Settled(NewElement) /\ NewElement.target < PAUSED
  BY DEF Settled, NewElement, NULL, PAUSED
<1>5. /\ NewSink \in SinkFields
      /\ live \subseteq Children
      /\ sink = [c \in Children |-> NewSink]
      /\ thread = [c \in Children |-> "idle"] /\ flush = [c \in Children |-> "none"]
      /\ starts = {} /\ cookie = 0 /\ sets = 0 /\ MaxSets \in Nat
  BY DEF Init, NewSink, SinkFields
<1>6. d.from \in States /\ d.to \in States /\ d.cfrom \in States /\ d.cto \in States
  BY <1>3 DEF Drivers
<1>7. Typed
  BY <1>1, <1>2, <1>3, <1>4, <1>5, <1>6 DEF Typed, TypeOK
<1>8. ~(NewElement.target >= PAUSED)
  BY DEF NewElement, NULL, PAUSED
<1>9. OnCourse(NewElement) /\ Waiting(NewElement)
  BY <1>4, <1>8 DEF OnCourse, Waiting
<1>10. el[Bin] = NewElement
  BY <1>1
<1>11. OnCourse(el[Bin]) /\ Waiting(el[Bin])
  BY <1>9, <1>10
<1> QED
  BY <1>2, <1>7, <1>11 DEF IInv, CurrentContinuations

LEMMA NextIInv == IInv /\ [Next]_vars => IInv'
<1> SUFFICES ASSUME IInv, [Next]_vars
             PROVE  IInv'
  OBVIOUS
<1>1. CASE Next
  <2>1. Stepped /\ DriverTyped' /\ SinkTyped'
    BY <1>1, NextStep, DriverStep, SinkStep
  <2>2. Typed'
    <3>1. d'.from \in States /\ d'.to \in States /\ d'.cfrom \in States /\ d'.cto \in States
      BY <2>1 DEF DriverTyped, Drivers
    <3>2. cookie' \in 0..MaxSets
      BY <2>1, BinAssumption DEF Stepped, CountsTyped
    <3>3. /\ el' \in [Children \cup {Bin} -> Elements]
          /\ \A e \in Children \cup {Bin} : ~Settled(el'[e]) => el'[e].next \in States
      BY <2>1 DEF Stepped, BinMoved, Sound
    <3> QED
      BY <2>1, <3>1, <3>2, <3>3
      DEF Typed, TypeOK, Stepped, ContsTyped, CountsTyped, DriverTyped, SinkTyped
  <2> QED
    BY <2>1, <2>2 DEF IInv, Stepped, BinMoved, ContsTyped
<1>2. CASE UNCHANGED vars
  BY <1>2
  DEF vars, binVars, sinkVars, appVars, IInv, Typed, TypeOK, CurrentContinuations, Continuations,
      Sinks
<1> QED
  BY <1>1, <1>2

(* The inductive invariant of the bin: on course for the target last asked *)
(* for, with no current continuation for another.                          *)
THEOREM Invariance == Spec => []IInv
<1> QED
  BY InitIInv, NextIInv, PTL DEF Spec

(* Every variable of the bin keeps its type. *)
THEOREM TypeCorrect == Spec => []TypeOK
<1>1. IInv => TypeOK
  BY DEF IInv, Typed
<1> QED
  BY <1>1, Invariance, PTL

(* The bin never rises above the state last asked for, whatever set_state, *)
(* continuations, messages of the streaming threads, seeks and errors      *)
(* interleave: the cookie makes a continuation that was overtaken return.  *)
THEOREM NeverAboveTarget == Spec => NeverAbove
<1>1. IInv /\ [Next]_vars
        => [el'[Bin].current > el[Bin].current => el'[Bin].current <= el'[Bin].target]_vars
  BY NextStep DEF Stepped, BinMoved, Rises
<1> QED
  BY <1>1, Invariance, PTL DEF Spec, NeverAbove

-----------------------------------------------------------------------------
(* What GstBinView is about: the bin's fields and the driver's, and those  *)
(* of a child.  Seen(c) is the view of child c; what holds of every view   *)
(* and is kept by the steps of the bin, by the steps of a child in its own *)
(* view and in the views of the others, holds of every number of children. *)
bcurrent   == el[Bin].current
bnext      == el[Bin].next
bpending   == el[Bin].pending
btarget    == el[Bin].target
breturn    == el[Bin].return
kept       == \E k \in BagToSet(conts) : k.cookie = cookie
sought     == flushes > 0
noLive     == live = {}
noStart    == starts = {}
dpc        == d.pc
dfrom      == d.from
dto        == d.to
dres       == d.res
dasync     == d.async
dnoPreroll == d.noPreroll
dfailed    == d.failed
dcfrom     == d.cfrom
dcto       == d.cto
scurrent   == d.snap.current
snext      == d.snap.next
spending   == d.snap.pending
starget    == d.snap.target
sreturn    == d.snap.return

(* The driver is at child c, has it still to do; the fields of c. *)
AtOf(c)        == d.child = c
TodoOf(c)      == c \in d.todo
CurrentOf(c)   == el[c].current
NextOf(c)      == el[c].next
PendingOf(c)   == el[c].pending
TargetOf(c)    == el[c].target
ReturnOf(c)    == el[c].return
NeedOf(c)      == sink[c].need
HaveOf(c)      == sink[c].have
AsyncOf(c)     == sink[c].async
ActiveOf(c)    == sink[c].active
FlushingOf(c)  == sink[c].flushing
StreamingOf(c) == thread[c]
SeekingOf(c)   == flush[c]
StartingOf(c)  == c \in starts
LiveOf(c)      == c \in live

Seen(c) == INSTANCE GstBinView WITH at <- AtOf(c), todo <- TodoOf(c),
  current <- CurrentOf(c), next <- NextOf(c), pending <- PendingOf(c),
  target <- TargetOf(c), return <- ReturnOf(c), need <- NeedOf(c), have <- HaveOf(c),
  async <- AsyncOf(c), active <- ActiveOf(c), flushing <- FlushingOf(c),
  streaming <- StreamingOf(c), seeking <- SeekingOf(c), start <- StartingOf(c),
  isLive <- LiveOf(c)

-----------------------------------------------------------------------------
(* A view is what the steps of GstBinView are about, so the three lemmas   *)
(* that follow, on what those steps keep, have all of it expanded.         *)
USE DEF Seen!ViewTyped, Seen!Idle, Seen!Driving, Seen!Underway, Seen!Ending,
        Seen!AtChild, Seen!Changing, Seen!Awaits, Seen!Done, Seen!BinSettled,
        Seen!ChildSettled, Seen!Goal, Seen!Ceiling, Seen!Floor, Seen!Lower, Seen!Upper,
        Seen!Strays, Seen!Clean, Seen!BinAtStages, Seen!BinReturnsFit,
        Seen!ChildAtStages, Seen!NotAwaited, Seen!DriverAtChild, Seen!ChildReturnsFit,
        Seen!Prerolling, Seen!SinkAtStages, Seen!ThreadsAtStages, Seen!Together,
        Seen!ViewInv, Seen!Child, Seen!Sink, Seen!Threads, Seen!TheBin, Seen!SameState,
        Seen!SameSink, Seen!SameThreads, Seen!SameChild, Seen!SameBin, Seen!SameStarts,
        Seen!SameDone, Seen!SameLists, Seen!SameCourse, Seen!SameTurn, Seen!SameDriver,
        Seen!SameSettings, Seen!Known, Seen!BusyFor, Seen!FromFor, Seen!ReturnFor,
        Seen!Locked, Seen!Begins, Seen!Asked, Seen!AskedBusy, Seen!AskedFrom,
        Seen!Continued, Seen!Dropped, Seen!BinStarts, Seen!BReached, Seen!Ignored,
        Seen!DoneHandled, Seen!Parent, Seen!Result, Seen!BinFinishes,
        Seen!BinFinishesDone, Seen!BinFinishesOpen, Seen!Ends, Seen!SameAround,
        Seen!Delayed, Seen!Outcome, Seen!BinFails, Seen!BinWaits, Seen!BinCommits,
        Seen!BinGoesOn, Seen!SameElse, Seen!Collects, Seen!Picked, Seen!Checked,
        Seen!Required, Seen!CheckedSkips, Seen!CheckedWaits, Seen!CheckedSets,
        Seen!ChildAsked, Seen!ChildAskedBusy, Seen!ChildAskedFrom, Seen!Transits,
        Seen!Returned, Seen!ChildStays, Seen!ChildStarted, Seen!ChildBroken,
        Seen!ChildStopped, Seen!LiveChanges, Seen!StartIgnored, Seen!LostState,
        Seen!StartPosted, Seen!DonePosted, Seen!WokenStreaming, Seen!Unlocked,
        Seen!GoesAsync, Seen!SinkReadies, Seen!SinkUnprerolled, Seen!SinkStays,
        Seen!SinkPlaysOn, Seen!SinkHolds, Seen!SinkEmpties, Seen!SinkDrained,
        Seen!ChildFails, Seen!ChildWaits, Seen!ChildCommits, Seen!ChildGoesOn,
        Seen!Goes, Seen!Taken, Seen!StreamWaits, Seen!StreamCommits, Seen!StreamGoes,
        Seen!StreamRefused, Seen!StreamPosts, Seen!SeekStarts, Seen!SeekLoses,
        Seen!SeekPosts, Seen!SeekStops, Seen!Aside, Seen!Plays, Seen!GetNext,
        Seen!States, Seen!Returns, Seen!VOID_PENDING, Seen!NULL, Seen!READY,
        Seen!PAUSED, Seen!PLAYING, States, VOID_PENDING, NULL, READY, PAUSED, PLAYING

(* The steps of the bin, seen by any child. *)
LEMMA BinStepsView ==
  ASSUME NEW a \in Children, Seen(a)!ViewTyped, Seen(a)!ViewTyped', Seen(a)!ViewInv, Seen(a)!BinStep
  PROVE  Seen(a)!ViewInv' /\ ~Seen(a)!Plays
<1>1. ASSUME NEW state \in States, Seen(a)!AskedBusy(state)
       PROVE  Seen(a)!ViewInv' /\ ~Seen(a)!Plays
  BY <1>1, SMTT(60)
<1>2. ASSUME NEW state \in States, NEW from \in States, Seen(a)!AskedFrom(state, from)
       PROVE  Seen(a)!ViewInv' /\ ~Seen(a)!Plays
  BY <1>2, SMTT(60)
<1>3. CASE Seen(a)!Continued
  BY <1>3, SMTT(60)
<1>4. CASE Seen(a)!Dropped
  BY <1>4, SMTT(60)
<1>5. CASE Seen(a)!BinStarts
  BY <1>5, SMTT(60)
<1>6. CASE Seen(a)!BinFinishesDone
  BY <1>6, SMTT(60)
<1>7. CASE Seen(a)!BinFinishesOpen
  BY <1>7, SMTT(60)
<1>8. CASE Seen(a)!BinFails
  BY <1>8, SMTT(60)
<1>9. CASE Seen(a)!BinWaits
  BY <1>9, SMTT(60)
<1>10. CASE Seen(a)!BinCommits
  BY <1>10, SMTT(60)
<1>11. CASE Seen(a)!BinGoesOn
  BY <1>11, SMTT(60)
<1> HIDE DEF Seen!ViewInv, Seen!ViewTyped, Seen!Plays, Seen!Aside, Seen!AskedBusy,
             Seen!AskedFrom, Seen!Continued, Seen!Dropped, Seen!BinStarts,
             Seen!BinFinishesDone, Seen!BinFinishesOpen, Seen!BinFails, Seen!BinWaits,
             Seen!BinCommits, Seen!BinGoesOn
<1> QED
  BY <1>1, <1>2, <1>3, <1>4, <1>5, <1>6, <1>7, <1>8, <1>9, <1>10, <1>11 DEF Seen!BinStep

(* The steps of a child, seen by that child. *)
LEMMA ChildStepsView ==
  ASSUME NEW a \in Children, Seen(a)!ViewTyped, Seen(a)!ViewTyped', Seen(a)!ViewInv, Seen(a)!ChildStep
  PROVE  Seen(a)!ViewInv' /\ (Seen(a)!Plays => CurrentOf(a) >= PAUSED)
<1>1. CASE Seen(a)!Picked
  BY <1>1, SMTT(60)
<1>2. CASE Seen(a)!CheckedSkips
  BY <1>2, SMTT(60)
<1>3. CASE Seen(a)!CheckedWaits
  BY <1>3, SMTT(60)
<1>4. CASE Seen(a)!CheckedSets
  BY <1>4, SMTT(60)
<1>5. CASE Seen(a)!ChildAskedBusy
  BY <1>5, SMTT(60)
<1>6. ASSUME NEW from \in States, Seen(a)!ChildAskedFrom(from)
       PROVE  Seen(a)!ViewInv' /\ (Seen(a)!Plays => CurrentOf(a) >= PAUSED)
  BY <1>6, SMTT(60)
<1>7. CASE Seen(a)!ChildStays
  BY <1>7, SMTT(60)
<1>8. CASE Seen(a)!ChildStarted
  BY <1>8, SMTT(60)
<1>9. CASE Seen(a)!ChildBroken
  BY <1>9, SMTT(60)
<1>10. CASE Seen(a)!ChildStopped
  BY <1>10, SMTT(60)
<1>11. CASE Seen(a)!LiveChanges
  BY <1>11, SMTT(60)
<1>12. CASE Seen(a)!SinkReadies
  BY <1>12, SMTT(60)
<1>13. CASE Seen(a)!SinkUnprerolled
  BY <1>13, SMTT(60)
<1>14. CASE Seen(a)!SinkPlaysOn
  BY <1>14, SMTT(60)
<1>15. CASE Seen(a)!SinkHolds
  BY <1>15, SMTT(60)
<1>16. CASE Seen(a)!SinkEmpties
  BY <1>16, SMTT(60)
<1>17. CASE Seen(a)!SinkDrained
  BY <1>17, SMTT(60)
<1>18. CASE Seen(a)!ChildFails
  BY <1>18, SMTT(60)
<1>19. CASE Seen(a)!ChildWaits
  BY <1>19, SMTT(60)
<1>20. CASE Seen(a)!ChildCommits
  BY <1>20, SMTT(60)
<1>21. CASE Seen(a)!ChildGoesOn
  BY <1>21, SMTT(60)
<1>22. CASE Seen(a)!StreamWaits
  BY <1>22, SMTT(60)
<1>23. CASE Seen(a)!StreamCommits
  BY <1>23, SMTT(60)
<1>24. CASE Seen(a)!StreamGoes
  BY <1>24, SMTT(60)
<1>25. CASE Seen(a)!StreamRefused
  BY <1>25, SMTT(60)
<1>26. CASE Seen(a)!StreamPosts
  BY <1>26, SMTT(60)
<1>27. CASE Seen(a)!SeekStarts
  BY <1>27, SMTT(60)
<1>28. CASE Seen(a)!SeekLoses
  BY <1>28, SMTT(60)
<1>29. CASE Seen(a)!SeekPosts
  BY <1>29, SMTT(60)
<1>30. CASE Seen(a)!SeekStops
  BY <1>30, SMTT(60)
<1> HIDE DEF Seen!ViewInv, Seen!ViewTyped, Seen!Plays, Seen!Aside, Seen!Picked,
             Seen!CheckedSkips, Seen!CheckedWaits, Seen!CheckedSets,
             Seen!ChildAskedBusy, Seen!ChildAskedFrom, Seen!ChildStays,
             Seen!ChildStarted, Seen!ChildBroken, Seen!ChildStopped, Seen!LiveChanges,
             Seen!SinkReadies, Seen!SinkUnprerolled, Seen!SinkPlaysOn, Seen!SinkHolds,
             Seen!SinkEmpties, Seen!SinkDrained, Seen!ChildFails, Seen!ChildWaits,
             Seen!ChildCommits, Seen!ChildGoesOn, Seen!StreamWaits, Seen!StreamCommits,
             Seen!StreamGoes, Seen!StreamRefused, Seen!StreamPosts, Seen!SeekStarts,
             Seen!SeekLoses, Seen!SeekPosts, Seen!SeekStops
<1> QED
  BY <1>1, <1>2, <1>3, <1>4, <1>5, <1>6, <1>7, <1>8, <1>9, <1>10, <1>11, <1>12, <1>13,
     <1>14, <1>15, <1>16, <1>17, <1>18, <1>19, <1>20, <1>21, <1>22, <1>23, <1>24,
     <1>25, <1>26, <1>27, <1>28, <1>29, <1>30 DEF Seen!ChildStep

(* And seen by another child. *)
LEMMA OthersView ==
  ASSUME NEW a \in Children, NEW x \in Children, a # x,
         Seen(a)!ViewTyped, Seen(a)!ViewTyped', Seen(a)!ViewInv, Seen(a)!ChildStep,
         Seen(x)!ViewTyped, Seen(x)!ViewTyped', Seen(x)!ViewInv, Seen(x)!Aside
  PROVE  Seen(x)!ViewInv' /\ (Seen(a)!Plays => CurrentOf(x) >= PAUSED)
<1>1. ~(AtOf(a) /\ AtOf(x))
  BY DEF AtOf
<1>2. ~(AtOf(a)' /\ AtOf(x)')
  BY DEF AtOf
<1>3. CASE Seen(a)!Picked
  BY <1>1, <1>2, <1>3, SMTT(60)
<1>4. CASE Seen(a)!CheckedSkips
  BY <1>1, <1>2, <1>4, SMTT(60)
<1>5. CASE Seen(a)!CheckedWaits
  BY <1>1, <1>2, <1>5, SMTT(60)
<1>6. CASE Seen(a)!CheckedSets
  BY <1>1, <1>2, <1>6, SMTT(60)
<1>7. CASE Seen(a)!ChildAskedBusy
  BY <1>1, <1>2, <1>7, SMTT(60)
<1>8. ASSUME NEW from \in States, Seen(a)!ChildAskedFrom(from)
       PROVE  Seen(x)!ViewInv' /\ (Seen(a)!Plays => CurrentOf(x) >= PAUSED)
  BY <1>1, <1>2, <1>8, SMTT(60)
<1>9. CASE Seen(a)!ChildStays
  BY <1>1, <1>2, <1>9, SMTT(60)
<1>10. CASE Seen(a)!ChildStarted
  BY <1>1, <1>2, <1>10, SMTT(60)
<1>11. CASE Seen(a)!ChildBroken
  BY <1>1, <1>2, <1>11, SMTT(60)
<1>12. CASE Seen(a)!ChildStopped
  BY <1>1, <1>2, <1>12, SMTT(60)
<1>13. CASE Seen(a)!LiveChanges
  BY <1>1, <1>2, <1>13, SMTT(60)
<1>14. CASE Seen(a)!SinkReadies
  BY <1>1, <1>2, <1>14, SMTT(60)
<1>15. CASE Seen(a)!SinkUnprerolled
  BY <1>1, <1>2, <1>15, SMTT(60)
<1>16. CASE Seen(a)!SinkPlaysOn
  BY <1>1, <1>2, <1>16, SMTT(60)
<1>17. CASE Seen(a)!SinkHolds
  BY <1>1, <1>2, <1>17, SMTT(60)
<1>18. CASE Seen(a)!SinkEmpties
  BY <1>1, <1>2, <1>18, SMTT(60)
<1>19. CASE Seen(a)!SinkDrained
  BY <1>1, <1>2, <1>19, SMTT(60)
<1>20. CASE Seen(a)!ChildFails
  BY <1>1, <1>2, <1>20, SMTT(60)
<1>21. CASE Seen(a)!ChildWaits
  BY <1>1, <1>2, <1>21, SMTT(60)
<1>22. CASE Seen(a)!ChildCommits
  BY <1>1, <1>2, <1>22, SMTT(60)
<1>23. CASE Seen(a)!ChildGoesOn
  BY <1>1, <1>2, <1>23, SMTT(60)
<1>24. CASE Seen(a)!StreamWaits
  BY <1>1, <1>2, <1>24, SMTT(60)
<1>25. CASE Seen(a)!StreamCommits
  BY <1>1, <1>2, <1>25, SMTT(60)
<1>26. CASE Seen(a)!StreamGoes
  BY <1>1, <1>2, <1>26, SMTT(60)
<1>27. CASE Seen(a)!StreamRefused
  BY <1>1, <1>2, <1>27, SMTT(60)
<1>28. CASE Seen(a)!StreamPosts
  BY <1>1, <1>2, <1>28, SMTT(60)
<1>29. CASE Seen(a)!SeekStarts
  BY <1>1, <1>2, <1>29, SMTT(60)
<1>30. CASE Seen(a)!SeekLoses
  BY <1>1, <1>2, <1>30, SMTT(60)
<1>31. CASE Seen(a)!SeekPosts
  BY <1>1, <1>2, <1>31, SMTT(60)
<1>32. CASE Seen(a)!SeekStops
  BY <1>1, <1>2, <1>32, SMTT(60)
<1> HIDE DEF Seen!ViewInv, Seen!ViewTyped, Seen!Plays, Seen!Aside, Seen!Picked,
             Seen!CheckedSkips, Seen!CheckedWaits, Seen!CheckedSets,
             Seen!ChildAskedBusy, Seen!ChildAskedFrom, Seen!ChildStays,
             Seen!ChildStarted, Seen!ChildBroken, Seen!ChildStopped, Seen!LiveChanges,
             Seen!SinkReadies, Seen!SinkUnprerolled, Seen!SinkPlaysOn, Seen!SinkHolds,
             Seen!SinkEmpties, Seen!SinkDrained, Seen!ChildFails, Seen!ChildWaits,
             Seen!ChildCommits, Seen!ChildGoesOn, Seen!StreamWaits, Seen!StreamCommits,
             Seen!StreamGoes, Seen!StreamRefused, Seen!StreamPosts, Seen!SeekStarts,
             Seen!SeekLoses, Seen!SeekPosts, Seen!SeekStops
<1> QED
  BY <1>3, <1>4, <1>5, <1>6, <1>7, <1>8, <1>9, <1>10, <1>11, <1>12, <1>13, <1>14,
     <1>15, <1>16, <1>17, <1>18, <1>19, <1>20, <1>21, <1>22, <1>23, <1>24, <1>25,
     <1>26, <1>27, <1>28, <1>29, <1>30, <1>31, <1>32 DEF Seen!ChildStep

(* A view before anything was asked. *)
LEMMA InitView ==
  ASSUME NEW a \in Children,
         bcurrent = NULL, bpending = VOID_PENDING, btarget = NULL, breturn = "SUCCESS",
         ~polling, ~pendingDone, ~kept, ~sought, noStart, ~StartingOf(a), dpc = "idle",
         ~dasync, ~dnoPreroll, ~dfailed,
         CurrentOf(a) = NULL, PendingOf(a) = VOID_PENDING, ReturnOf(a) = "SUCCESS",
         ~NeedOf(a), ~HaveOf(a), ~AsyncOf(a), ~ActiveOf(a), ~FlushingOf(a),
         StreamingOf(a) = "idle", SeekingOf(a) = "none"
  PROVE  Seen(a)!ViewInv
OBVIOUS

(* And one when everything is done. *)
LEMMA SettledView ==
  ASSUME NEW a \in Children, Seen(a)!ViewTyped, Seen(a)!ViewInv, dpc = "idle",
         bpending = VOID_PENDING, breturn = "SUCCESS", SeekingOf(a) = "none"
  PROVE  CurrentOf(a) >= bcurrent /\ (~sought => CurrentOf(a) <= bcurrent)
OBVIOUS

HIDE DEF Seen!ViewTyped, Seen!Idle, Seen!Driving, Seen!Underway, Seen!Ending,
        Seen!AtChild, Seen!Changing, Seen!Awaits, Seen!Done, Seen!BinSettled,
        Seen!ChildSettled, Seen!Goal, Seen!Ceiling, Seen!Floor, Seen!Lower, Seen!Upper,
        Seen!Strays, Seen!Clean, Seen!BinAtStages, Seen!BinReturnsFit,
        Seen!ChildAtStages, Seen!NotAwaited, Seen!DriverAtChild, Seen!ChildReturnsFit,
        Seen!Prerolling, Seen!SinkAtStages, Seen!ThreadsAtStages, Seen!Together,
        Seen!ViewInv, Seen!Child, Seen!Sink, Seen!Threads, Seen!TheBin, Seen!SameState,
        Seen!SameSink, Seen!SameThreads, Seen!SameChild, Seen!SameBin, Seen!SameStarts,
        Seen!SameDone, Seen!SameLists, Seen!SameCourse, Seen!SameTurn, Seen!SameDriver,
        Seen!SameSettings, Seen!Known, Seen!BusyFor, Seen!FromFor, Seen!ReturnFor,
        Seen!Locked, Seen!Begins, Seen!Asked, Seen!AskedBusy, Seen!AskedFrom,
        Seen!Continued, Seen!Dropped, Seen!BinStarts, Seen!BReached, Seen!Ignored,
        Seen!DoneHandled, Seen!Parent, Seen!Result, Seen!BinFinishes,
        Seen!BinFinishesDone, Seen!BinFinishesOpen, Seen!Ends, Seen!SameAround,
        Seen!Delayed, Seen!Outcome, Seen!BinFails, Seen!BinWaits, Seen!BinCommits,
        Seen!BinGoesOn, Seen!SameElse, Seen!Collects, Seen!Picked, Seen!Checked,
        Seen!Required, Seen!CheckedSkips, Seen!CheckedWaits, Seen!CheckedSets,
        Seen!ChildAsked, Seen!ChildAskedBusy, Seen!ChildAskedFrom, Seen!Transits,
        Seen!Returned, Seen!ChildStays, Seen!ChildStarted, Seen!ChildBroken,
        Seen!ChildStopped, Seen!LiveChanges, Seen!StartIgnored, Seen!LostState,
        Seen!StartPosted, Seen!DonePosted, Seen!WokenStreaming, Seen!Unlocked,
        Seen!GoesAsync, Seen!SinkReadies, Seen!SinkUnprerolled, Seen!SinkStays,
        Seen!SinkPlaysOn, Seen!SinkHolds, Seen!SinkEmpties, Seen!SinkDrained,
        Seen!ChildFails, Seen!ChildWaits, Seen!ChildCommits, Seen!ChildGoesOn,
        Seen!Goes, Seen!Taken, Seen!StreamWaits, Seen!StreamCommits, Seen!StreamGoes,
        Seen!StreamRefused, Seen!StreamPosts, Seen!SeekStarts, Seen!SeekLoses,
        Seen!SeekPosts, Seen!SeekStops, Seen!Aside, Seen!Plays, Seen!GetNext,
        Seen!States, Seen!Returns, Seen!VOID_PENDING, Seen!NULL, Seen!READY,
        Seen!PAUSED, Seen!PLAYING, States, VOID_PENDING, NULL, READY, PAUSED, PLAYING

-----------------------------------------------------------------------------
(* The views of a state in which IInv holds. *)
LEMMA ViewsTyped == IInv => \A c \in Children : Seen(c)!ViewTyped
<1> SUFFICES ASSUME IInv, NEW c \in Children PROVE Seen(c)!ViewTyped
  OBVIOUS
<1> USE DEF Seen!States, Seen!Returns, Seen!VOID_PENDING, Seen!NULL, Seen!READY, Seen!PAUSED,
            Seen!PLAYING, States, Returns, VOID_PENDING, NULL, READY, PAUSED, PLAYING
<1>1. /\ Sound(el[Bin]) /\ Sound(el[c]) /\ OnCourse(el[Bin]) /\ DriverTyped /\ SinkTyped
      /\ starts \subseteq Sinks /\ (d.pc = "idle" => Waiting(el[Bin]))
  BY Facts DEF IInv
<1>2. /\ bcurrent \in States /\ bnext \in States \cup {VOID_PENDING}
      /\ bpending \in States \cup {VOID_PENDING} /\ btarget \in States
      /\ breturn \in Returns
      /\ bpending # VOID_PENDING => bnext # VOID_PENDING
  BY <1>1 DEF Sound, Elements, Settled, bcurrent, bnext, bpending, btarget, breturn
<1>3. /\ CurrentOf(c) \in States /\ NextOf(c) \in States \cup {VOID_PENDING}
      /\ PendingOf(c) \in States \cup {VOID_PENDING} /\ TargetOf(c) \in States
      /\ ReturnOf(c) \in Returns
      /\ PendingOf(c) # VOID_PENDING => NextOf(c) # VOID_PENDING
  BY <1>1 DEF Sound, Elements, Settled, CurrentOf, NextOf, PendingOf, TargetOf, ReturnOf
<1>4. /\ dpc \in {"idle", "start", "child", "check", "set", "change", "drain", "returned",
                  "bin_returned"}
      /\ dfrom \in States /\ dto \in States /\ dcfrom \in States /\ dcto \in States
      /\ dres \in Returns
      /\ dasync \in BOOLEAN /\ dnoPreroll \in BOOLEAN /\ dfailed \in BOOLEAN
      /\ d.snap \in Elements
  BY <1>1
  DEF DriverTyped, Drivers, dpc, dfrom, dto, dcfrom, dcto, dres, dasync, dnoPreroll, dfailed
<1>5. /\ scurrent \in States /\ snext \in States \cup {VOID_PENDING}
      /\ spending \in States \cup {VOID_PENDING} /\ starget \in States
      /\ sreturn \in Returns
  BY <1>4 DEF Elements, scurrent, snext, spending, starget, sreturn
<1>6. /\ NeedOf(c) \in BOOLEAN /\ HaveOf(c) \in BOOLEAN /\ AsyncOf(c) \in BOOLEAN
      /\ ActiveOf(c) \in BOOLEAN /\ FlushingOf(c) \in BOOLEAN
      /\ StreamingOf(c) \in {"idle", "wait", "woken", "post"}
      /\ SeekingOf(c) \in {"none", "start", "post", "stop"}
  BY <1>1
  DEF SinkTyped, SinkFields, NeedOf, HaveOf, AsyncOf, ActiveOf, FlushingOf, StreamingOf,
      SeekingOf
<1>7. /\ noLive => ~LiveOf(c)
      /\ noStart => ~StartingOf(c)
      /\ LiveOf(c) => /\ StreamingOf(c) = "idle" /\ SeekingOf(c) = "none" /\ ~StartingOf(c)
                      /\ ~NeedOf(c) /\ ~HaveOf(c) /\ ~AsyncOf(c) /\ ~ActiveOf(c)
                      /\ ~FlushingOf(c)
      /\ dpc = "drain" /\ AtOf(c) => ~LiveOf(c)
  BY <1>1
  DEF SinkTyped, DriverTyped, Sinks, NewSink, noLive, noStart, LiveOf, StartingOf, StreamingOf,
      SeekingOf, NeedOf, HaveOf, AsyncOf, ActiveOf, FlushingOf, dpc, AtOf
<1>8. /\ bpending # VOID_PENDING =>
           /\ bnext <= bcurrent \/ bnext <= bpending
           /\ bpending <= btarget
           /\ bnext <= bcurrent + 1
           /\ btarget >= PAUSED =>
                /\ bpending >= PAUSED
                /\ bnext >= PAUSED \/ (bnext = READY /\ bcurrent <= READY)
      /\ bpending = VOID_PENDING /\ btarget >= PAUSED => bcurrent >= PAUSED
      /\ dpc = "idle" /\ bpending # VOID_PENDING /\ breturn # "FAILURE"
           => bnext >= PAUSED \/ (bnext = READY /\ bcurrent <= READY)
  BY <1>1
  DEF OnCourse, Waiting, Near, Settled, bcurrent, bnext, bpending, btarget, breturn, dpc
<1> QED
  BY <1>2, <1>3, <1>4, <1>5, <1>6, <1>7, <1>8 DEF Seen!ViewTyped

(* What a step that sets the fields of the bin, of a child or of a sink,   *)
(* or that leaves them alone, does to a view.                              *)
LEMMA BinBecomes ==
  ASSUME NEW c \in Children, NEW b, el'[Bin] = b
  PROVE  Seen(c)!TheBin(b.current, b.next, b.pending, b.target, b.return)
BY DEF Seen!TheBin, bcurrent, bnext, bpending, btarget, breturn

LEMMA ChildBecomes ==
  ASSUME NEW c \in Children, NEW e, el'[c] = e
  PROVE  Seen(c)!Child(e.current, e.next, e.pending, e.target, e.return)
BY DEF Seen!Child, CurrentOf, NextOf, PendingOf, TargetOf, ReturnOf

LEMMA SinkBecomes ==
  ASSUME NEW c \in Children, NEW s, sink'[c] = s
  PROVE  Seen(c)!Sink(s.need, s.have, s.async, s.active, s.flushing)
BY DEF Seen!Sink, NeedOf, HaveOf, AsyncOf, ActiveOf, FlushingOf

LEMMA BinStays ==
  ASSUME NEW c \in Children, el'[Bin] = el[Bin]
  PROVE  Seen(c)!SameBin
BY DEF Seen!SameBin, Seen!TheBin, bcurrent, bnext, bpending, btarget, breturn

LEMMA ChildStateStays ==
  ASSUME NEW c \in Children, el'[c] = el[c]
  PROVE  Seen(c)!SameState
BY DEF Seen!SameState, Seen!Child, CurrentOf, NextOf, PendingOf, TargetOf, ReturnOf

LEMMA SinkStateStays ==
  ASSUME NEW c \in Children, sink'[c] = sink[c]
  PROVE  Seen(c)!SameSink
BY DEF Seen!SameSink, Seen!Sink, NeedOf, HaveOf, AsyncOf, ActiveOf, FlushingOf

LEMMA ThreadsBecome ==
  ASSUME NEW c \in Children
  PROVE  /\ Seen(c)!Threads(thread'[c], flush'[c])
         /\ thread'[c] = thread[c] /\ flush'[c] = flush[c] => Seen(c)!SameThreads
BY DEF Seen!SameThreads, Seen!Threads, StreamingOf, SeekingOf

LEMMA ChildViewStays ==
  ASSUME NEW c \in Children, el'[c] = el[c], sink'[c] = sink[c], thread'[c] = thread[c],
         flush'[c] = flush[c]
  PROVE  Seen(c)!SameChild
BY ChildStateStays, SinkStateStays, ThreadsBecome DEF Seen!SameChild

LEMMA ListsStay ==
  ASSUME NEW c \in Children
  PROVE  /\ starts' = starts => Seen(c)!SameStarts
         /\ UNCHANGED <<polling, pendingDone>> => Seen(c)!SameDone
         /\ UNCHANGED <<conts, cookie>> => (kept' <=> kept)
         /\ UNCHANGED binVars => Seen(c)!SameLists
         /\ UNCHANGED <<live, flushes>> => Seen(c)!SameSettings
BY DEF binVars, Seen!SameLists, Seen!SameStarts, Seen!SameDone, Seen!SameSettings, StartingOf,
       noStart, kept, sought, noLive, LiveOf

LEMMA DriverStays ==
  ASSUME NEW c \in Children, d' = d
  PROVE  Seen(c)!SameDriver
BY DEF Seen!SameDriver, Seen!SameCourse, Seen!SameTurn, dpc, dfrom, dto, dres, dasync,
       dnoPreroll, dfailed, dcfrom, dcto, scurrent, snext, spending, starget, sreturn, AtOf,
       TodoOf

(* A step at one child that leaves the bin and its lists alone. *)
LEMMA ElseStays ==
  ASSUME NEW c \in Children, el'[Bin] = el[Bin], UNCHANGED <<binVars, live, flushes>>
  PROVE  Seen(c)!SameElse
BY BinStays, ListsStay DEF Seen!SameElse

(* The driver's ways, seen by the children. *)
LEMMA DriverBegins ==
  ASSUME NEW c \in Children, NEW from, NEW to,
         d' = [Driver("start") EXCEPT !.from = from, !.to = to]
  PROVE  Seen(c)!Begins(from, to)
BY DEF Seen!Begins, Driver, dpc, dfrom, dto, dasync, dnoPreroll, dfailed

LEMMA DriverEnds ==
  ASSUME NEW c \in Children, d' = Driver("idle")
  PROVE  Seen(c)!Ends
BY DEF Seen!Ends, Driver, dpc, dasync, dnoPreroll, dfailed

LEMMA DriverReturned ==
  ASSUME NEW c \in Children, DriverTyped, NEW ret, ChildReturns(ret)
  PROVE  Seen(c)!Returned(ret)
BY DEF DriverTyped, Drivers, ChildReturns, Seen!Returned, Seen!SameCourse, Seen!SameTurn, dpc,
       dfrom, dto, dres, dasync, dnoPreroll, dfailed, dcfrom, dcto, AtOf, TodoOf

LEMMA DriverCollects ==
  ASSUME DriverTyped, NEW a \in Children, d.child = a, NEW ret, d' = Collected(ret)
  PROVE  /\ Seen(a)!Collects(ret)
         /\ \A x \in Children \ {a} : (TodoOf(x)' <=> TodoOf(x)) /\ ~AtOf(x)'
<1>1. NONE \notin Children
  BY BinAssumption
<1>2. /\ d'.pc = "child" /\ d'.child = NONE /\ d'.todo = d.todo \ {a}
      /\ d'.from = d.from /\ d'.to = d.to
      /\ d'.async = (d.async \/ ret = "ASYNC")
      /\ d'.noPreroll = (d.noPreroll \/ ret = "NO_PREROLL")
      /\ d'.failed = (ret = "FAILURE")
  BY DEF DriverTyped, Drivers, Collected
<1> QED
  BY <1>1, <1>2
  DEF Seen!Collects, dpc, dfrom, dto, dasync, dnoPreroll, dfailed, AtOf, TodoOf

-----------------------------------------------------------------------------
(* A run without errors, and without seeks that do not take the            *)
(* STATE_LOCK; what all children see of it.                                *)
Calm == errors = 0 /\ (flushes = 0 \/ LockedSeeks)
Views == \A c \in Children : Seen(c)!ViewInv

LEMMA LockedSeen ==
  ASSUME IInv, Calm, StateLockFree, NEW c \in Children
  PROVE  Seen(c)!Locked
<1>1. flushes > 0 => LockedSeeks
  BY DEF Calm
<1> QED
  BY <1>1 DEF StateLockFree, Seen!Locked, Seen!Idle, dpc, sought, SeekingOf

LEMMA SetStateSeen ==
  ASSUME IInv, Calm, NEW state \in States, SetState(state), NEW c \in Children
  PROVE  Seen(c)!BinStep
<1> DEFINE b == el[Bin]
           from == StartOf(b, state)
           to == GetNext(from, state)
<1>1. Sound(b) /\ c # Bin /\ Bin \in Children \cup {Bin} /\ ContsTyped /\ CountsTyped
      /\ el \in [Children \cup {Bin} -> Elements]
  BY Facts, BinAssumption
<1>2. kept' => kept /\ state = btarget
  <2>1. CASE state = b.target
    BY <2>1 DEF SetState, kept, btarget
  <2>2. CASE state # b.target
    <3>1. cookie' = cookie + 1 /\ conts' = conts /\ cookie \in Nat
      BY <1>1, <2>2 DEF SetState, CountsTyped
    <3>2. \A k \in BagToSet(conts) : k.cookie \in Int /\ k.cookie <= cookie
      BY <1>1 DEF IInv, CurrentContinuations, ContsTyped, Continuations
    <3> QED
      BY <3>1, <3>2 DEF kept
  <2> QED
    BY <2>1, <2>2
<1>3. Seen(c)!States = States /\ Seen(c)!VOID_PENDING = VOID_PENDING
  BY DEF Seen!States, Seen!VOID_PENDING, Seen!NULL, Seen!READY, Seen!PAUSED, Seen!PLAYING,
         States, VOID_PENDING, NULL, READY, PAUSED, PLAYING
<1>4. Seen(c)!Asked(state)
  <2>1. Seen(c)!Locked
    BY LockedSeen DEF SetState
  <2>2. el'[c] = el[c]
    BY <1>1 DEF SetState
  <2>3. Seen(c)!SameChild
    BY <2>2, ChildViewStays DEF SetState, sinkVars
  <2>4. Seen(c)!SameStarts /\ Seen(c)!SameDone /\ Seen(c)!SameSettings
    BY ListsStay DEF SetState
  <2> QED
    BY <1>2, <1>3, <2>1, <2>3, <2>4 DEF Seen!Asked
<1>5. IsBusy(b, state) <=> Seen(c)!BusyFor(bnext, bpending, breturn, state)
  BY <1>1, <1>3
  DEF IsBusy, Forgiven, Settled, Sound, Elements, Seen!BusyFor, Seen!Known, bnext, bpending,
      breturn, States, VOID_PENDING, NULL, READY, PAUSED, PLAYING
<1>6. CASE IsBusy(b, state)
  <2>1. el'[Bin] = [b EXCEPT !.target = state, !.pending = state, !.return = "ASYNC"]
    <3>1. Forgiven(b) = b
      BY <1>6 DEF IsBusy, Forgiven, Settled
    <3>2. el'[Bin] = Aimed(b, state)
      BY <1>1, <1>6 DEF SetState
    <3> QED
      BY <3>1, <3>2 DEF Aimed
  <2>2. Seen(c)!TheBin(bcurrent, bnext, state, state, "ASYNC")
    BY <1>1, <2>1
    DEF Sound, Elements, Seen!TheBin, bcurrent, bnext, bpending, btarget, breturn
  <2>3. Seen(c)!SameDriver
    BY <1>6, DriverStays DEF SetState
  <2> QED
    BY <1>3, <1>4, <1>5, <1>6, <2>2, <2>3 DEF Seen!AskedBusy, Seen!BinStep
<1>7. CASE ~IsBusy(b, state)
  <2>1. from \in States /\ to \in States
    BY <1>1, SoundAims, NextIsState
  <2>2. from = Seen(c)!FromFor(bcurrent, bnext, bpending, breturn, state)
    BY <1>1, <1>3
    DEF StartOf, Forgiven, Settled, Sound, Elements, Seen!FromFor, bcurrent, bnext, bpending,
        breturn, States, VOID_PENDING, NULL, READY, PAUSED, PLAYING
  <2>3. to = Seen(c)!GetNext(from, state)
    BY DEF GetNext, Seen!GetNext
  <2>4. from # to <=> from # state
    BY <2>1, NextIsState
  <2>5. Seen(c)!TheBin(bcurrent, to, state, state, Seen(c)!ReturnFor(from, state, breturn))
    <3>1. el'[Bin] = Started(b, state)
      BY <1>1, <1>7 DEF SetState
    <3> HIDE DEF from, to
    <3>2. el'[Bin] = [Forgiven(b) EXCEPT !.target = state, !.pending = state, !.next = to,
                          !.return = IF from # to THEN "ASYNC" ELSE @]
      BY <3>1 DEF Started, from, to
    <3>3. /\ Forgiven(b) \in Elements /\ Forgiven(b).current = b.current
          /\ Forgiven(b).return = IF b.return = "FAILURE" THEN "SUCCESS" ELSE b.return
      BY <1>1 DEF Forgiven, Sound, Elements, VOID_PENDING, Returns
    <3>4. /\ el'[Bin].current = b.current /\ el'[Bin].next = to /\ el'[Bin].pending = state
          /\ el'[Bin].target = state
          /\ el'[Bin].return = IF from # to THEN "ASYNC" ELSE Forgiven(b).return
      BY <3>2, <3>3 DEF Elements
    <3> QED
      BY <2>4, <3>3, <3>4
      DEF Seen!TheBin, Seen!ReturnFor, bcurrent, bnext, bpending, btarget, breturn
  <2>6. Seen(c)!Begins(from, to)
    BY <1>7, DriverBegins DEF SetState
  <2> HIDE DEF from, to
  <2>7. Seen(c)!AskedFrom(state, from)
    BY <1>4, <1>5, <1>7, <2>2, <2>3, <2>5, <2>6 DEF Seen!AskedFrom
  <2> QED
    BY <1>3, <2>1, <2>7 DEF Seen!BinStep
<1> QED
  BY <1>6, <1>7

LEMMA ContinueSeen ==
  ASSUME IInv, Calm, NEW k \in BagToSet(conts), Continue(k), NEW c \in Children
  PROVE  Seen(c)!BinStep
<1> DEFINE b == el[Bin]
           to == GetNext(b.current, b.target)
<1>1. Sound(b) /\ c # Bin /\ ContsTyped /\ el \in [Children \cup {Bin} -> Elements]
  BY Facts, BinAssumption
<1>2. kept' => kept
  <2>1. BagToSet(conts') \subseteq BagToSet(conts) /\ cookie' = cookie
    BY <1>1, BagRemoves DEF Continue, ContsTyped
  <2> QED
    BY <2>1 DEF kept
<1>3. /\ Seen(c)!SameStarts /\ Seen(c)!SameDone /\ Seen(c)!SameSettings
      /\ UNCHANGED <<sink, thread, flush>>
  BY ListsStay DEF Continue, sinkVars, appVars
<1>4. CASE Overtaken(k)
  <2>1. el' = el /\ d' = d
    BY <1>4 DEF Continue
  <2>2. Seen(c)!SameChild /\ Seen(c)!SameBin /\ Seen(c)!SameDriver
    BY <1>3, <2>1, ChildViewStays, BinStays, DriverStays
  <2> QED
    BY <1>2, <1>3, <2>2 DEF Seen!Dropped, Seen!BinStep
<1>5. CASE ~Overtaken(k)
  <2>1. k.cookie = cookie /\ k.pending = b.target /\ kept
    BY <1>5 DEF Overtaken, IInv, CurrentContinuations, kept
  <2>2. /\ el' = [el EXCEPT ![Bin] = [b EXCEPT !.next = to, !.pending = b.target,
                                                !.return = "ASYNC"]]
        /\ d' = [Driver("start") EXCEPT !.from = b.current, !.to = to]
    BY <1>5, <2>1 DEF Continue
  <2>3. Seen(c)!Begins(b.current, to)
    BY <2>2, DriverBegins
  <2>4. el'[c] = el[c]
    BY <1>1, <2>2
  <2>5. Seen(c)!SameChild
    BY <1>3, <2>4, ChildViewStays
  <2>6. Seen(c)!Locked
    BY LockedSeen DEF Continue
  <2>7. to = Seen(c)!GetNext(bcurrent, btarget)
    BY DEF GetNext, Seen!GetNext, bcurrent, btarget
  <2> HIDE DEF to
  <2>8. Seen(c)!TheBin(bcurrent, to, btarget, btarget, "ASYNC")
    BY <1>1, <2>2 DEF Sound, Elements, Seen!TheBin, bcurrent, bnext, bpending, btarget, breturn
  <2>9. Seen(c)!Begins(bcurrent, to)
    BY <2>3 DEF bcurrent
  <2>10. Seen(c)!Continued
    BY <1>2, <1>3, <2>1, <2>5, <2>6, <2>7, <2>8, <2>9 DEF Seen!Continued
  <2> QED
    BY <2>10 DEF Seen!BinStep
<1> QED
  BY <1>4, <1>5

LEMMA BinStartSeen ==
  ASSUME IInv, BinStart, NEW c \in Children
  PROVE  Seen(c)!BinStep
<1>1. DriverTyped
  BY Facts
<1>2. /\ dpc = "start" /\ dpc' = "child" /\ polling' /\ TodoOf(c)' /\ Seen(c)!SameCourse
  BY <1>1
  DEF BinStart, DriverTyped, Drivers, Seen!SameCourse, dpc, dfrom, dto, dasync, dnoPreroll,
      dfailed, TodoOf
<1>3. /\ StartingOf(c)' <=> StartingOf(c) /\ dto # READY
      /\ noStart' <=> noStart \/ dto = READY
  BY DEF BinStart, StartingOf, noStart, dto
<1>4. /\ Seen(c)!SameChild /\ Seen(c)!SameBin /\ Seen(c)!SameSettings
      /\ kept' <=> kept
      /\ pendingDone' <=> pendingDone
  BY ChildViewStays, BinStays, ListsStay DEF BinStart, sinkVars, appVars
<1>5. READY = Seen(c)!READY
  BY DEF READY, Seen!READY
<1>6. Seen(c)!BinStarts
  BY <1>2, <1>3, <1>4, <1>5 DEF Seen!BinStarts
<1> QED
  BY <1>6 DEF Seen!BinStep

(* The handlers of the two messages, whoever posts them. *)
LEMMA DoneSeen ==
  ASSUME IInv, NEW STATE busy, HandleAsyncDone(busy), cookie' = cookie, NEW c \in Children
  PROVE  Seen(c)!DoneHandled(busy) /\ el'[c] = el[c]
<1> DEFINE b == el[Bin]
<1>1. Sound(b) /\ c # Bin /\ el \in [Children \cup {Bin} -> Elements]
  BY Facts, BinAssumption
<1>2. el'[c] = el[c]
  BY <1>1 DEF HandleAsyncDone
<1>3. /\ Seen(c)!VOID_PENDING = VOID_PENDING
      /\ DoneIgnored(b, busy) <=> Seen(c)!Ignored(busy)
      /\ DoneState(b) = Seen(c)!BReached
      /\ GetNext(b.current, b.target) = Seen(c)!GetNext(bcurrent, btarget)
  BY DEF DoneIgnored, DoneState, Settled, GetNext, Seen!VOID_PENDING, Seen!Ignored,
         Seen!BinSettled, Seen!BReached, Seen!GetNext, Seen!PLAYING, VOID_PENDING, PLAYING,
         bcurrent, bnext, bpending, btarget, breturn
<1>4. CASE DoneIgnored(b, busy)
  <2>1. el' = el /\ conts' = conts
    BY <1>4 DEF HandleAsyncDone
  <2>2. Seen(c)!SameBin /\ (kept' <=> kept)
    BY <2>1, BinStays, ListsStay
  <2> QED
    BY <1>2, <1>3, <1>4, <2>2 DEF Seen!DoneHandled
<1>5. CASE ~DoneIgnored(b, busy) /\ DoneState(b) = b.target
  <2>1. el'[Bin] = BinDone(b) /\ conts' = conts
    BY <1>1, <1>5 DEF HandleAsyncDone
  <2>2. Seen(c)!TheBin(btarget, VOID_PENDING, VOID_PENDING, btarget, "SUCCESS")
    BY <1>1, <1>5, <2>1
    DEF BinDone, Sound, Elements, Seen!TheBin, bcurrent, bnext, bpending, btarget, breturn
  <2>3. kept' <=> kept
    BY <2>1 DEF kept
  <2>4. DoneState(b) = btarget
    BY <1>5 DEF btarget
  <2> QED
    BY <1>2, <1>3, <1>5, <2>2, <2>3, <2>4 DEF Seen!DoneHandled
<1>6. CASE ~DoneIgnored(b, busy) /\ DoneState(b) # b.target
  <2> DEFINE to == GetNext(b.current, b.target)
  <2>1. el'[Bin] = [b EXCEPT !.current = DoneState(b), !.next = to, !.pending = b.target,
                             !.return = "ASYNC"]
    BY <1>1, <1>6 DEF HandleAsyncDone, BinDone
  <2>2. DoneState(b) # btarget
    BY <1>6 DEF btarget
  <2> HIDE DEF to
  <2>3. Seen(c)!TheBin(DoneState(b), to, btarget, btarget, "ASYNC")
    BY <1>1, <2>1
    DEF Sound, Elements, Seen!TheBin, bcurrent, bnext, bpending, btarget, breturn
  <2>4. to = Seen(c)!GetNext(bcurrent, btarget)
    BY <1>3 DEF to
  <2> QED
    BY <1>2, <1>3, <1>6, <2>2, <2>3, <2>4 DEF Seen!DoneHandled
<1> QED
  BY <1>4, <1>5, <1>6

LEMMA BinFinishSeen ==
  ASSUME IInv, Views, BinFinish, NEW c \in Children
  PROVE  Seen(c)!BinStep
<1>1. DriverTyped /\ starts \subseteq Children /\ live \subseteq Children
  BY Facts DEF Sinks, SinkTyped
<1>2. dpc = "child" /\ (dfailed \/ ~TodoOf(c))
  BY DEF BinFinish, dpc, dfailed, TodoOf
<1>3. dfrom = Seen(c)!PLAYING /\ dto = Seen(c)!PLAYING => noStart
  <2>1. ASSUME dfrom = Seen(c)!PLAYING, dto = Seen(c)!PLAYING, NEW s \in Children
        PROVE  ~StartingOf(s)
    <3>1. Seen(s)!NotAwaited
      BY DEF Views, Seen!ViewInv
    <3>2. dfrom = Seen(s)!PLAYING /\ dto = Seen(s)!PLAYING /\ Seen(s)!Underway
      BY <1>2, <2>1 DEF Seen!PLAYING, Seen!Underway, Seen!Driving
    <3> QED
      BY <3>1, <3>2 DEF Seen!NotAwaited
  <2> QED
    BY <1>1, <2>1 DEF noStart, StartingOf
<1>4. Seen(c)!BinSettled /\ ~sought /\ ~dfailed /\ dto = Seen(c)!PAUSED /\ ~noLive => dnoPreroll
  <2> SUFFICES ASSUME ~sought, ~dfailed, dto = Seen(c)!PAUSED, ~noLive
               PROVE  dnoPreroll
    OBVIOUS
  <2>1. PICK l \in live : TRUE
    BY DEF noLive
  <2>2. Seen(l)!ChildAtStages /\ LiveOf(l)
    BY <1>1, <2>1 DEF Views, Seen!ViewInv, LiveOf
  <2>3. dto = Seen(l)!PAUSED
    BY DEF Seen!PAUSED
  <2>4. d.todo = {}
    BY DEF BinFinish, dfailed
  <2>5. Seen(l)!Done
    BY <1>2, <2>4 DEF Seen!Done, Seen!Driving, TodoOf
  <2> QED
    BY <2>2, <2>3, <2>5 DEF Seen!ChildAtStages
<1>5. BinResult = Seen(c)!Result
  BY <1>1
  DEF BinResult, DriverTyped, Drivers, Seen!Result, Seen!Parent, dfrom, dto, dfailed, dnoPreroll,
      dasync, breturn
<1>6. /\ dpc' = "bin_returned" /\ dres' = BinResult
      /\ ~polling' /\ ~pendingDone' /\ ~dasync' /\ ~dnoPreroll' /\ ~dfailed'
  BY DEF BinFinish, Driver, dpc, dres, dasync, dnoPreroll, dfailed
<1>7. el'[c] = el[c]
  BY DoneSeen DEF BinFinish
<1>8. Seen(c)!SameChild /\ Seen(c)!SameStarts /\ Seen(c)!SameSettings
  BY <1>7, ChildViewStays, ListsStay DEF BinFinish, sinkVars, appVars
<1>9. Seen(c)!BinFinishes
  BY <1>2, <1>3, <1>4, <1>5, <1>6, <1>8 DEF Seen!BinFinishes
<1>10. READY = Seen(c)!READY
  BY DEF READY, Seen!READY
<1>11. CASE (BinResult = "ASYNC" \/ pendingDone) /\ el[Bin].target > READY /\ starts = {}
  <2>1. Seen(c)!DoneHandled(FALSE)
    BY <1>11, DoneSeen DEF BinFinish
  <2>2. Seen(c)!BinFinishesDone
    BY <1>5, <1>9, <1>10, <1>11, <2>1 DEF Seen!BinFinishesDone, btarget, noStart
  <2> QED
    BY <2>2 DEF Seen!BinStep
<1>12. CASE ~((BinResult = "ASYNC" \/ pendingDone) /\ el[Bin].target > READY /\ starts = {})
  <2>1. Seen(c)!SameBin /\ (kept' <=> kept)
    BY <1>12, BinStays, ListsStay DEF BinFinish
  <2>2. Seen(c)!BinFinishesOpen
    BY <1>5, <1>9, <1>10, <1>12, <2>1 DEF Seen!BinFinishesOpen, btarget, noStart
  <2> QED
    BY <2>2 DEF Seen!BinStep
<1> QED
  BY <1>11, <1>12

LEMMA BinReturnedSeen ==
  ASSUME IInv, BinReturned, NEW c \in Children
  PROVE  Seen(c)!BinStep
<1> DEFINE b == el[Bin]
           ret == IF d.res = "ASYNC" THEN "SUCCESS" ELSE d.res
<1>1. Sound(b) /\ c # Bin /\ el \in [Children \cup {Bin} -> Elements]
  BY Facts, BinAssumption
<1>2. /\ Seen(c)!VOID_PENDING = VOID_PENDING /\ Seen(c)!READY = READY
      /\ Settled(b) <=> Seen(c)!BinSettled
      /\ ret = Seen(c)!Outcome
      /\ GetNext(b.next, b.pending) = Seen(c)!GetNext(bnext, bpending)
      /\ Seen(c)!Ending
  BY DEF BinReturned, Settled, GetNext, Seen!VOID_PENDING, Seen!READY, Seen!BinSettled,
         Seen!Outcome, Seen!GetNext, Seen!Ending, VOID_PENDING, READY, bnext, bpending, dres, dpc
<1>3. el'[c] = el[c]
  BY <1>1 DEF BinReturned
<1>4. Seen(c)!SameAround
  BY <1>3, ChildViewStays, ListsStay DEF BinReturned, Seen!SameAround, sinkVars, appVars
<1>5. CASE /\ d.res = "FAILURE"
           /\ el' = [el EXCEPT ![Bin] = Aborted(b)]
           /\ d' = Driver("idle")
  <2>1. el'[Bin] = Aborted(b)
    BY <1>1, <1>5
  <2>2. Seen(c)!TheBin(bcurrent, bnext, bpending, btarget,
                       IF Seen(c)!BinSettled THEN breturn ELSE "FAILURE")
    BY <1>1, <1>2, <2>1
    DEF Aborted, Sound, Elements, Seen!TheBin, bcurrent, bnext, bpending, btarget, breturn
  <2>3. Seen(c)!Ends
    BY <1>5, DriverEnds
  <2>4. Seen(c)!BinFails
    BY <1>2, <1>4, <1>5, <2>2, <2>3 DEF Seen!BinFails, dres
  <2> QED
    BY <2>4 DEF Seen!BinStep
<1>6. CASE d.res = "ASYNC" /\ b.target > READY /\ d' = Driver("idle") /\ el' = el
  <2>1. Seen(c)!Ends /\ Seen(c)!SameBin
    BY <1>6, DriverEnds, BinStays
  <2>2. Seen(c)!BinWaits
    BY <1>2, <1>4, <1>6, <2>1 DEF Seen!BinWaits, Seen!Delayed, dres, btarget
  <2> QED
    BY <2>2 DEF Seen!BinStep
<1>7. CASE /\ d.res # "FAILURE" /\ ~(d.res = "ASYNC" /\ b.target > READY)
           /\ el' = [el EXCEPT ![Bin] = Committed(b, ret)]
           /\ d' = IF Continues(b)
                   THEN [Driver("start") EXCEPT !.from = b.next,
                                                !.to = GetNext(b.next, b.pending)]
                   ELSE Driver("idle")
  <2>1. dres # "FAILURE" /\ ~Seen(c)!Delayed(btarget)
    BY <1>2, <1>7 DEF Seen!Delayed, dres, btarget
  <2>2. el'[Bin] = Committed(b, ret)
    BY <1>1, <1>7
  <2> HIDE DEF ret
  <2>3. CASE ~Continues(b)
    <3>1. Seen(c)!Ends
      BY <1>7, <2>3, DriverEnds
    <3>2. CASE Settled(b)
      <4>1. Seen(c)!TheBin(bcurrent, bnext, bpending, btarget, ret)
        BY <1>1, <2>2, <3>2
        DEF Committed, Commits, Sound, Elements, Seen!TheBin, bcurrent, bnext, bpending, btarget,
            breturn
      <4>2. Seen(c)!BinCommits
        BY <1>2, <1>4, <2>1, <3>1, <3>2, <4>1 DEF Seen!BinCommits
      <4> QED
        BY <4>2 DEF Seen!BinStep
    <3>3. CASE ~Settled(b)
      <4>1. Seen(c)!TheBin(bnext, VOID_PENDING, VOID_PENDING, btarget, ret)
        BY <1>1, <2>2, <2>3, <3>3
        DEF Committed, Commits, Sound, Elements, Seen!TheBin, bcurrent, bnext, bpending, btarget,
            breturn
      <4>2. bpending = bnext
        BY <2>3, <3>3 DEF Continues, Commits, bpending, bnext
      <4>3. Seen(c)!BinCommits
        BY <1>2, <1>4, <2>1, <3>1, <3>3, <4>1, <4>2 DEF Seen!BinCommits
      <4> QED
        BY <4>3 DEF Seen!BinStep
    <3> QED
      BY <3>2, <3>3
  <2>4. CASE Continues(b)
    <3> DEFINE to == GetNext(b.next, b.pending)
    <3>1. Seen(c)!Begins(b.next, to)
      BY <1>7, <2>4, DriverBegins
    <3>2. el'[Bin] = [b EXCEPT !.current = b.next, !.next = to, !.return = "ASYNC"]
      BY <2>2, <2>4 DEF Committed, Continues
    <3> HIDE DEF to
    <3>3. Seen(c)!TheBin(bnext, to, bpending, btarget, "ASYNC")
      BY <1>1, <3>2
      DEF Sound, Elements, Seen!TheBin, bcurrent, bnext, bpending, btarget, breturn
    <3>4. ~Seen(c)!BinSettled /\ bpending # bnext
      BY <1>2, <2>4 DEF Continues, Commits, bpending, bnext
    <3>5. to = Seen(c)!GetNext(bnext, bpending) /\ Seen(c)!Begins(bnext, to)
      BY <1>2, <3>1 DEF to, bnext
    <3>6. Seen(c)!BinGoesOn
      BY <1>2, <1>4, <2>1, <3>3, <3>4, <3>5 DEF Seen!BinGoesOn
    <3> QED
      BY <3>6 DEF Seen!BinStep
  <2> QED
    BY <2>3, <2>4
<1> QED
  BY <1>5, <1>6, <1>7 DEF BinReturned

-----------------------------------------------------------------------------
(* A step at a child: what it does to the views of that child and of the   *)
(* others.                                                                 *)
StepAt(a) ==
  /\ Seen(a)!ChildStep
  /\ \A x \in Children \ {a} : Seen(x)!Aside

LEMMA AsideSeen ==
  ASSUME NEW x \in Children, el'[x] = el[x], sink'[x] = sink[x], thread'[x] = thread[x],
         flush'[x] = flush[x], StartingOf(x)' <=> StartingOf(x), live' = live,
         TodoOf(x)' <=> TodoOf(x), (AtOf(x)' <=> AtOf(x)) \/ dpc = "child"
  PROVE  Seen(x)!Aside
BY ChildViewStays DEF Seen!Aside, LiveOf

(* A step of the driver in which only the driver changes. *)
LEMMA QuietSeen ==
  ASSUME NEW a \in Children, UNCHANGED <<live, el, binVars, sinkVars, appVars>>
  PROVE  /\ Seen(a)!SameChild /\ Seen(a)!SameElse
         /\ (\A x \in Children \ {a} : /\ TodoOf(x)' <=> TodoOf(x)
                                       /\ (AtOf(x)' <=> AtOf(x)) \/ dpc = "child")
              => \A x \in Children \ {a} : Seen(x)!Aside
<1>1. UNCHANGED <<live, el, starts, sink, thread, flush, flushes>>
  BY DEF binVars, sinkVars, appVars
<1>2. Seen(a)!SameChild /\ Seen(a)!SameElse
  BY <1>1, ChildViewStays, ElseStays
<1>3. \A x \in Children : StartingOf(x)' <=> StartingOf(x)
  BY <1>1 DEF StartingOf
<1> QED
  BY <1>1, <1>2, <1>3, AsideSeen

(* Wherever the driver goes, it stays with the child and does not forget   *)
(* another, or leaves that child.                                          *)
LEMMA TurnStays ==
  ASSUME d'.child = d.child, d'.todo = d.todo
  PROVE  \A x \in Children : (TodoOf(x)' <=> TodoOf(x)) /\ (AtOf(x)' <=> AtOf(x))
BY DEF TodoOf, AtOf

LEMMA TurnCollects ==
  ASSUME DriverTyped, NEW a \in Children, d.child = a, NEW ret, d' = Collected(ret)
  PROVE  \A x \in Children \ {a} : (TodoOf(x)' <=> TodoOf(x)) /\ (AtOf(x)' <=> AtOf(x))
BY DriverCollects DEF AtOf

LEMMA PickSeen ==
  ASSUME IInv, NEW a \in Children, PickChild(a)
  PROVE  StepAt(a)
<1>1. DriverTyped
  BY Facts
<1>2. Seen(a)!SameChild /\ Seen(a)!SameElse
  BY QuietSeen DEF PickChild
<1>3. /\ dpc = "child" /\ ~dfailed /\ TodoOf(a)
      /\ dpc' = IF ReturnOf(a) = "NO_PREROLL" THEN "set" ELSE "check"
      /\ AtOf(a)' /\ (TodoOf(a)' <=> TodoOf(a))
      /\ d'.snap = el[a] /\ d'.todo = d.todo
  BY <1>1 DEF PickChild, DriverTyped, Drivers, dpc, dfailed, TodoOf, AtOf, ReturnOf
<1>4. Seen(a)!SameCourse
  BY <1>1
  DEF PickChild, DriverTyped, Drivers, Seen!SameCourse, dfrom, dto, dasync, dnoPreroll, dfailed
<1>5. /\ scurrent' = CurrentOf(a) /\ snext' = NextOf(a) /\ spending' = PendingOf(a)
      /\ starget' = TargetOf(a) /\ sreturn' = ReturnOf(a)
  BY <1>3
  DEF scurrent, snext, spending, starget, sreturn, CurrentOf, NextOf, PendingOf, TargetOf,
      ReturnOf
<1>6. Seen(a)!Picked
  BY <1>2, <1>3, <1>4, <1>5 DEF Seen!Picked
<1>7. \A x \in Children \ {a} : Seen(x)!Aside
  BY <1>3, QuietSeen DEF PickChild, TodoOf
<1> QED
  BY <1>6, <1>7 DEF StepAt, Seen!ChildStep

LEMMA CheckSeen ==
  ASSUME IInv, NEW a \in Children, d.child = a, CheckChild
  PROVE  StepAt(a)
<1>1. DriverTyped
  BY Facts
<1>2. Seen(a)!Checked
  BY QuietSeen DEF CheckChild, Seen!Checked, dpc, AtOf
<1>3. Needed(d.snap, el[Bin].pending) <=> Seen(a)!Required
  BY DEF Needed, Settled, Seen!Required, Seen!PLAYING, Seen!VOID_PENDING, PLAYING, VOID_PENDING,
         dto, scurrent, spending, bpending
<1>4. (d.child \in starts /\ d.to > d.from) <=> (StartingOf(a) /\ dto > dfrom)
  BY DEF StartingOf, dto, dfrom
<1>5. ASSUME NEW ret, d' = Collected(ret)
      PROVE  Seen(a)!Collects(ret) /\ \A x \in Children \ {a} : Seen(x)!Aside
  BY <1>1, <1>5, DriverCollects, TurnCollects, QuietSeen DEF CheckChild
<1>6. CASE ~Needed(d.snap, el[Bin].pending)
  <2>1. Seen(a)!Collects(sreturn) /\ \A x \in Children \ {a} : Seen(x)!Aside
    BY <1>5, <1>6 DEF CheckChild, sreturn
  <2>2. Seen(a)!CheckedSkips
    BY <1>2, <1>3, <1>6, <2>1 DEF Seen!CheckedSkips
  <2> QED
    BY <2>1, <2>2 DEF StepAt, Seen!ChildStep
<1>7. CASE Needed(d.snap, el[Bin].pending) /\ d.child \in starts /\ d.to > d.from
  <2>1. Seen(a)!Collects("ASYNC") /\ \A x \in Children \ {a} : Seen(x)!Aside
    BY <1>5, <1>7 DEF CheckChild
  <2>2. Seen(a)!CheckedWaits
    BY <1>2, <1>4, <1>7, <2>1 DEF Seen!CheckedWaits
  <2> QED
    BY <2>1, <2>2 DEF StepAt, Seen!ChildStep
<1>8. CASE Needed(d.snap, el[Bin].pending) /\ ~(d.child \in starts /\ d.to > d.from)
  <2>1. d' = [d EXCEPT !.pc = "set"]
    BY <1>8 DEF CheckChild
  <2>2. dpc' = "set" /\ d'.child = d.child /\ d'.todo = d.todo /\ Seen(a)!SameCourse
    BY <1>1, <2>1
    DEF DriverTyped, Drivers, Seen!SameCourse, dpc, dfrom, dto, dasync, dnoPreroll, dfailed
  <2>3. Seen(a)!SameTurn /\ \A x \in Children \ {a} : Seen(x)!Aside
    BY <2>2, TurnStays, QuietSeen DEF CheckChild, Seen!SameTurn
  <2>4. Seen(a)!CheckedSets
    BY <1>2, <1>3, <1>4, <1>8, <2>2, <2>3 DEF Seen!CheckedSets
  <2> QED
    BY <2>3, <2>4 DEF StepAt, Seen!ChildStep
<1> QED
  BY <1>6, <1>7, <1>8

(* A step of the driver in which that child's fields change too. *)
LEMMA OneSeen ==
  ASSUME IInv, NEW a \in Children, NEW e, el' = [el EXCEPT ![a] = e],
         UNCHANGED <<live, binVars, sinkVars, appVars>>
  PROVE  /\ el'[a] = e
         /\ Seen(a)!SameSink /\ Seen(a)!SameThreads /\ Seen(a)!SameElse
         /\ (\A x \in Children \ {a} : (TodoOf(x)' <=> TodoOf(x)) /\ (AtOf(x)' <=> AtOf(x)))
              => \A x \in Children \ {a} : Seen(x)!Aside
<1>1. /\ UNCHANGED <<live, starts, sink, thread, flush, flushes>>
      /\ el'[a] = e /\ el'[Bin] = el[Bin] /\ \A x \in Children \ {a} : el'[x] = el[x]
  BY Facts, BinAssumption DEF binVars, sinkVars, appVars
<1>2. Seen(a)!SameSink /\ Seen(a)!SameThreads /\ Seen(a)!SameElse
  BY <1>1, SinkStateStays, ThreadsBecome, ElseStays
<1>3. \A x \in Children : StartingOf(x)' <=> StartingOf(x)
  BY <1>1 DEF StartingOf
<1> QED
  BY <1>1, <1>2, <1>3, AsideSeen

LEMMA SetChildSeen ==
  ASSUME IInv, NEW a \in Children, d.child = a, SetChild
  PROVE  StepAt(a)
<1> DEFINE e == el[a]
           from == StartOf(e, d.to)
           to == GetNext(from, d.to)
<1>1. DriverTyped /\ d.to \in States /\ Sound(e) /\ a # Bin
  BY Facts, BinAssumption DEF DriverTyped, Drivers
<1>2. Seen(a)!States = States /\ Seen(a)!VOID_PENDING = VOID_PENDING
  BY DEF Seen!States, Seen!VOID_PENDING, Seen!NULL, Seen!READY, Seen!PAUSED, Seen!PLAYING,
         States, VOID_PENDING, NULL, READY, PAUSED, PLAYING
<1>3. IsBusy(e, d.to) <=> Seen(a)!BusyFor(NextOf(a), PendingOf(a), ReturnOf(a), dto)
  BY <1>1, <1>2
  DEF IsBusy, Forgiven, Settled, Sound, Elements, Seen!BusyFor, Seen!Known, NextOf, PendingOf,
      ReturnOf, dto, States, VOID_PENDING, NULL, READY, PAUSED, PLAYING
<1>4. dpc = "set" /\ AtOf(a)
  BY DEF SetChild, dpc, AtOf
<1>5. CASE IsBusy(e, d.to)
  <2>1. el' = [el EXCEPT ![a] = Aimed(e, d.to)] /\ d' = Collected("ASYNC")
    BY <1>5 DEF SetChild
  <2>2. /\ el'[a] = Aimed(e, d.to)
        /\ Seen(a)!SameSink /\ Seen(a)!SameThreads /\ Seen(a)!SameElse
        /\ Seen(a)!Collects("ASYNC") /\ \A x \in Children \ {a} : Seen(x)!Aside
    <3> DEFINE aim == Aimed(e, d.to)
    <3>1. el' = [el EXCEPT ![a] = aim] /\ UNCHANGED <<live, binVars, sinkVars, appVars>>
      BY <2>1 DEF SetChild
    <3> HIDE DEF aim
    <3>2. /\ Seen(a)!Collects("ASYNC")
          /\ \A x \in Children \ {a} : (TodoOf(x)' <=> TodoOf(x)) /\ (AtOf(x)' <=> AtOf(x))
      BY <1>1, <2>1, DriverCollects, TurnCollects
    <3>3. /\ el'[a] = aim
          /\ Seen(a)!SameSink /\ Seen(a)!SameThreads /\ Seen(a)!SameElse
          /\ \A x \in Children \ {a} : Seen(x)!Aside
      BY <3>1, <3>2, OneSeen
    <3> QED
      BY <3>2, <3>3 DEF aim
  <2>3. Aimed(e, d.to) = [e EXCEPT !.target = d.to, !.pending = d.to, !.return = "ASYNC"]
    <3>1. Forgiven(e) = e
      BY <1>5 DEF IsBusy, Forgiven, Settled
    <3> QED
      BY <3>1 DEF Aimed
  <2>4. Seen(a)!Child(CurrentOf(a), NextOf(a), dto, dto, "ASYNC")
    BY <1>1, <2>2, <2>3
    DEF Sound, Elements, Seen!Child, CurrentOf, NextOf, PendingOf, TargetOf, ReturnOf, dto
  <2>5. Seen(a)!ChildAskedBusy
    BY <1>3, <1>4, <1>5, <2>2, <2>4 DEF Seen!ChildAskedBusy, Seen!ChildAsked
  <2> QED
    BY <2>2, <2>5 DEF StepAt, Seen!ChildStep
<1>6. CASE ~IsBusy(e, d.to)
  <2>1. /\ el' = [el EXCEPT ![a] = Started(e, d.to)]
        /\ d' = [d EXCEPT !.pc = "change", !.snap = NewElement, !.cfrom = from, !.cto = to]
    BY <1>6 DEF SetChild
  <2>2. from \in States /\ to \in States
    BY <1>1, SoundAims, NextIsState
  <2>3. from = Seen(a)!FromFor(CurrentOf(a), NextOf(a), PendingOf(a), ReturnOf(a), dto)
    BY <1>1, <1>2
    DEF StartOf, Forgiven, Settled, Sound, Elements, Seen!FromFor, CurrentOf, NextOf, PendingOf,
        ReturnOf, dto, States, VOID_PENDING, NULL, READY, PAUSED, PLAYING
  <2>4. to = Seen(a)!GetNext(from, dto)
    BY DEF GetNext, Seen!GetNext, dto
  <2>5. from # to <=> from # d.to
    BY <1>1, <2>2, NextIsState
  <2>6. Started(e, d.to) = [Forgiven(e) EXCEPT !.target = d.to, !.pending = d.to, !.next = to,
                              !.return = IF from # to THEN "ASYNC" ELSE @]
    BY DEF Started
  <2> HIDE DEF from, to
  <2>7. /\ dpc' = "change" /\ dcfrom' = from /\ dcto' = to
        /\ d'.child = d.child /\ d'.todo = d.todo /\ Seen(a)!SameCourse
    BY <1>1, <2>1
    DEF DriverTyped, Drivers, Seen!SameCourse, dpc, dfrom, dto, dasync, dnoPreroll, dfailed,
        dcfrom, dcto
  <2>8. /\ el'[a] = Started(e, d.to)
        /\ Seen(a)!SameSink /\ Seen(a)!SameThreads /\ Seen(a)!SameElse
        /\ Seen(a)!SameTurn /\ \A x \in Children \ {a} : Seen(x)!Aside
    BY <2>1, <2>7, OneSeen, TurnStays DEF SetChild, Seen!SameTurn
  <2>9. Seen(a)!Child(CurrentOf(a), to, dto, dto, Seen(a)!ReturnFor(from, dto, ReturnOf(a)))
    <3>1. /\ Forgiven(e) \in Elements /\ Forgiven(e).current = e.current
          /\ Forgiven(e).return = IF e.return = "FAILURE" THEN "SUCCESS" ELSE e.return
      BY <1>1 DEF Forgiven, Sound, Elements, VOID_PENDING, Returns
    <3>2. /\ el'[a].current = e.current /\ el'[a].next = to /\ el'[a].pending = d.to
          /\ el'[a].target = d.to
          /\ el'[a].return = IF from # to THEN "ASYNC" ELSE Forgiven(e).return
      BY <2>6, <2>8, <3>1 DEF Elements
    <3> QED
      BY <2>5, <3>1, <3>2
      DEF Seen!Child, Seen!ReturnFor, CurrentOf, NextOf, PendingOf, TargetOf, ReturnOf, dto
  <2>10. Seen(a)!ChildAskedFrom(from)
    BY <1>3, <1>4, <1>6, <2>3, <2>4, <2>7, <2>8, <2>9
    DEF Seen!ChildAskedFrom, Seen!ChildAsked
  <2> QED
    BY <1>2, <2>2, <2>8, <2>10 DEF StepAt, Seen!ChildStep
<1> QED
  BY <1>5, <1>6

-----------------------------------------------------------------------------
(* change_state of a child that returns without touching anything.         *)
LEMMA ReturnsSeen ==
  ASSUME IInv, NEW a \in Children, d.child = a, NEW ret, ChildReturns(ret),
         UNCHANGED <<live, el, binVars, sinkVars, getter, appVars>>
  PROVE  /\ Seen(a)!Returned(ret) /\ Seen(a)!SameChild /\ Seen(a)!SameElse
         /\ \A x \in Children \ {a} : Seen(x)!Aside
<1>1. DriverTyped
  BY Facts
<1>2. Seen(a)!Returned(ret)
  BY <1>1, DriverReturned
<1>3. d'.child = d.child /\ d'.todo = d.todo
  BY <1>1 DEF ChildReturns, DriverTyped, Drivers
<1> QED
  BY <1>2, <1>3, TurnStays, QuietSeen

LEMMA ChildSameSeen ==
  ASSUME IInv, NEW a \in Children, d.child = a, ChildSame
  PROVE  StepAt(a)
<1>1. /\ Seen(a)!Returned(ReturnOf(a)) /\ Seen(a)!SameChild /\ Seen(a)!SameElse
      /\ \A x \in Children \ {a} : Seen(x)!Aside
  BY ReturnsSeen DEF ChildSame, ReturnOf
<1>2. dpc = "change" /\ AtOf(a) /\ dcfrom = dcto
  BY DEF ChildSame, dpc, AtOf, dcfrom, dcto
<1>3. Seen(a)!ChildStays
  BY <1>1, <1>2 DEF Seen!ChildStays
<1> QED
  BY <1>1, <1>3 DEF StepAt, Seen!ChildStep

LEMMA TransitionSeen ==
  ASSUME NEW a \in Children, d.child = a, NEW from, NEW to, Transition(from, to)
  PROVE  Seen(a)!Transits(from, to)
BY DEF Transition, Seen!Transits, dpc, AtOf, dcfrom, dcto

LEMMA SameStates ==
  ASSUME NEW a \in Children
  PROVE  /\ NULL = Seen(a)!NULL /\ READY = Seen(a)!READY /\ PAUSED = Seen(a)!PAUSED
         /\ PLAYING = Seen(a)!PLAYING /\ VOID_PENDING = Seen(a)!VOID_PENDING
BY DEF NULL, READY, PAUSED, PLAYING, VOID_PENDING, Seen!NULL, Seen!READY, Seen!PAUSED,
       Seen!PLAYING, Seen!VOID_PENDING

LEMMA ChildStartsSeen ==
  ASSUME IInv, NEW a \in Children, d.child = a, ChildStarts
  PROVE  StepAt(a)
<1>1. Seen(a)!Transits(Seen(a)!NULL, Seen(a)!READY)
  BY TransitionSeen, SameStates DEF ChildStarts
<1>2. CASE ChildReturns("SUCCESS")
  <2>1. /\ Seen(a)!Returned("SUCCESS") /\ Seen(a)!SameChild /\ Seen(a)!SameElse
        /\ \A x \in Children \ {a} : Seen(x)!Aside
    BY <1>2, ReturnsSeen DEF ChildStarts
  <2>2. Seen(a)!ChildStarted
    BY <1>1, <2>1 DEF Seen!ChildStarted
  <2> QED
    BY <2>1, <2>2 DEF StepAt, Seen!ChildStep
<1>3. CASE ChildReturns("FAILURE")
  <2>1. /\ Seen(a)!Returned("FAILURE") /\ Seen(a)!SameChild /\ Seen(a)!SameElse
        /\ \A x \in Children \ {a} : Seen(x)!Aside
    BY <1>3, ReturnsSeen DEF ChildStarts
  <2>2. Seen(a)!ChildBroken
    BY <1>1, <2>1 DEF Seen!ChildBroken
  <2> QED
    BY <2>1, <2>2 DEF StepAt, Seen!ChildStep
<1> QED
  BY <1>2, <1>3 DEF ChildStarts

LEMMA ChildStopsSeen ==
  ASSUME IInv, NEW a \in Children, d.child = a, ChildStops
  PROVE  StepAt(a)
<1>1. Seen(a)!Transits(Seen(a)!READY, Seen(a)!NULL)
  BY TransitionSeen, SameStates DEF ChildStops
<1>2. /\ Seen(a)!Returned("SUCCESS") /\ Seen(a)!SameChild /\ Seen(a)!SameElse
      /\ \A x \in Children \ {a} : Seen(x)!Aside
  BY ReturnsSeen DEF ChildStops
<1>3. Seen(a)!ChildStopped
  BY <1>1, <1>2 DEF Seen!ChildStopped
<1> QED
  BY <1>2, <1>3 DEF StepAt, Seen!ChildStep

LEMMA LiveChangeSeen ==
  ASSUME IInv, NEW a \in Children, d.child = a, LiveChange
  PROVE  StepAt(a)
<1> DEFINE ret == IF dcto = Seen(a)!PAUSED THEN "NO_PREROLL" ELSE "SUCCESS"
<1>1. /\ Seen(a)!Returned(ret) /\ Seen(a)!SameChild /\ Seen(a)!SameElse
      /\ \A x \in Children \ {a} : Seen(x)!Aside
  <2>1. ChildReturns(ret)
    BY SameStates DEF LiveChange, dcto
  <2> HIDE DEF ret
  <2> QED
    BY <2>1, ReturnsSeen DEF LiveChange
<1>2. /\ dpc = "change" /\ AtOf(a) /\ LiveOf(a) /\ dcfrom # dcto
      /\ dcfrom = Seen(a)!PAUSED \/ dcto = Seen(a)!PAUSED
  BY SameStates DEF LiveChange, dpc, AtOf, LiveOf, dcfrom, dcto
<1>3. Seen(a)!LiveChanges
  BY <1>1, <1>2 DEF Seen!LiveChanges
<1> QED
  BY <1>1, <1>3 DEF StepAt, Seen!ChildStep

LEMMA ChildReturnedSeen ==
  ASSUME IInv, NEW a \in Children, d.child = a, ChildReturned
  PROVE  StepAt(a)
<1> DEFINE e == el[a]
           ret == IF d.res = "ASYNC" THEN "SUCCESS" ELSE d.res
<1>1. DriverTyped /\ Sound(e)
  BY Facts
<1>2. /\ dpc = "returned" /\ AtOf(a) /\ ret = Seen(a)!Outcome
      /\ Settled(e) <=> Seen(a)!ChildSettled
      /\ GetNext(e.next, e.pending) = Seen(a)!GetNext(NextOf(a), PendingOf(a))
      /\ (d.res = "ASYNC" /\ e.target > READY) <=> Seen(a)!Delayed(TargetOf(a))
  BY SameStates
  DEF ChildReturned, Settled, GetNext, Seen!Outcome, Seen!ChildSettled, Seen!GetNext,
      Seen!Delayed, dpc, dres, AtOf, NextOf, PendingOf, TargetOf
<1>3. ASSUME NEW r, d' = Collected(r)
      PROVE  /\ Seen(a)!Collects(r)
             /\ \A x \in Children \ {a} : (TodoOf(x)' <=> TodoOf(x)) /\ (AtOf(x)' <=> AtOf(x))
  BY <1>1, <1>3, DriverCollects, TurnCollects
<1>4. UNCHANGED <<live, binVars, sinkVars, getter, appVars>>
  BY DEF ChildReturned
<1>5. CASE d.res = "FAILURE" /\ el' = [el EXCEPT ![a] = Aborted(e)] /\ d' = Collected("FAILURE")
  <2>1. /\ Seen(a)!Collects("FAILURE") /\ \A x \in Children \ {a} : Seen(x)!Aside
        /\ el'[a] = Aborted(e)
        /\ Seen(a)!SameSink /\ Seen(a)!SameThreads /\ Seen(a)!SameElse
    <3> DEFINE n == Aborted(e)
    <3>1. el' = [el EXCEPT ![a] = n]
      BY <1>5
    <3> HIDE DEF n
    <3>2. /\ el'[a] = n
          /\ Seen(a)!SameSink /\ Seen(a)!SameThreads /\ Seen(a)!SameElse
          /\ \A x \in Children \ {a} : Seen(x)!Aside
      BY <1>3, <1>4, <1>5, <3>1, OneSeen
    <3> QED
      BY <1>3, <1>5, <3>2 DEF n
  <2>2. Seen(a)!Child(CurrentOf(a), NextOf(a), PendingOf(a), TargetOf(a),
                      IF Seen(a)!ChildSettled THEN ReturnOf(a) ELSE "FAILURE")
    BY <1>1, <1>2, <2>1
    DEF Aborted, Sound, Elements, Seen!Child, CurrentOf, NextOf, PendingOf, TargetOf, ReturnOf
  <2>3. Seen(a)!ChildFails
    BY <1>2, <1>5, <2>1, <2>2 DEF Seen!ChildFails, dres
  <2> QED
    BY <2>1, <2>3 DEF StepAt, Seen!ChildStep
<1>6. CASE d.res = "ASYNC" /\ e.target > READY /\ d' = Collected("ASYNC") /\ el' = el
  <2>1. /\ Seen(a)!Collects("ASYNC") /\ Seen(a)!SameChild /\ Seen(a)!SameElse
        /\ \A x \in Children \ {a} : Seen(x)!Aside
    BY <1>3, <1>4, <1>6, QuietSeen
  <2>2. Seen(a)!ChildWaits
    BY <1>2, <1>6, <2>1 DEF Seen!ChildWaits
  <2> QED
    BY <2>1, <2>2 DEF StepAt, Seen!ChildStep
<1>7. CASE /\ d.res # "FAILURE" /\ ~(d.res = "ASYNC" /\ e.target > READY)
           /\ el' = [el EXCEPT ![a] = Committed(e, ret)]
           /\ d' = IF Continues(e)
                   THEN [d EXCEPT !.pc = "change", !.res = "SUCCESS", !.cfrom = e.next,
                                  !.cto = GetNext(e.next, e.pending)]
                   ELSE Collected(ret)
  <2> DEFINE n == Committed(e, ret)
  <2>1. dres # "FAILURE" /\ ~Seen(a)!Delayed(TargetOf(a)) /\ el' = [el EXCEPT ![a] = n]
    BY <1>2, <1>7 DEF dres
  <2> HIDE DEF n, ret
  <2>2. /\ el'[a] = n
        /\ Seen(a)!SameSink /\ Seen(a)!SameThreads /\ Seen(a)!SameElse
        /\ (\A x \in Children \ {a} : (TodoOf(x)' <=> TodoOf(x)) /\ (AtOf(x)' <=> AtOf(x)))
             => \A x \in Children \ {a} : Seen(x)!Aside
    BY <1>4, <2>1, OneSeen
  <2>3. CASE ~Continues(e)
    <3>1. Seen(a)!Collects(ret) /\ \A x \in Children \ {a} : Seen(x)!Aside
      BY <1>3, <1>7, <2>2, <2>3
    <3>2. CASE Settled(e)
      <4>1. Seen(a)!Child(CurrentOf(a), NextOf(a), PendingOf(a), TargetOf(a), ret)
        BY <1>1, <2>2, <3>2
        DEF n, Committed, Commits, Sound, Elements, Seen!Child, CurrentOf, NextOf, PendingOf,
            TargetOf, ReturnOf
      <4>2. Seen(a)!ChildCommits
        BY <1>2, <2>1, <2>2, <3>1, <3>2, <4>1 DEF Seen!ChildCommits
      <4> QED
        BY <3>1, <4>2 DEF StepAt, Seen!ChildStep
    <3>3. CASE ~Settled(e)
      <4>1. Seen(a)!Child(NextOf(a), Seen(a)!VOID_PENDING, Seen(a)!VOID_PENDING, TargetOf(a), ret)
        BY <1>1, <2>2, <2>3, <3>3, SameStates
        DEF n, Committed, Commits, Sound, Elements, Seen!Child, CurrentOf, NextOf, PendingOf,
            TargetOf, ReturnOf
      <4>2. PendingOf(a) = NextOf(a)
        BY <2>3, <3>3 DEF Continues, Commits, PendingOf, NextOf
      <4>3. Seen(a)!ChildCommits
        BY <1>2, <2>1, <2>2, <3>1, <3>3, <4>1, <4>2 DEF Seen!ChildCommits
      <4> QED
        BY <3>1, <4>3 DEF StepAt, Seen!ChildStep
    <3> QED
      BY <3>2, <3>3
  <2>4. CASE Continues(e)
    <3> DEFINE to == GetNext(e.next, e.pending)
    <3>1. d' = [d EXCEPT !.pc = "change", !.res = "SUCCESS", !.cfrom = e.next, !.cto = to]
      BY <1>7, <2>4
    <3>2. n = [e EXCEPT !.current = e.next, !.next = to, !.return = "ASYNC"]
      BY <2>4 DEF n, Committed, Continues
    <3>3. to = Seen(a)!GetNext(NextOf(a), PendingOf(a))
      BY <1>2
    <3> HIDE DEF to
    <3>4. /\ dpc' = "change" /\ dcfrom' = NextOf(a) /\ dcto' = to
          /\ d'.child = d.child /\ d'.todo = d.todo /\ Seen(a)!SameCourse
      BY <1>1, <3>1
      DEF DriverTyped, Drivers, Seen!SameCourse, dpc, dfrom, dto, dasync, dnoPreroll, dfailed,
          dcfrom, dcto, NextOf
    <3>5. Seen(a)!SameTurn /\ \A x \in Children \ {a} : Seen(x)!Aside
      BY <2>2, <3>4, TurnStays DEF Seen!SameTurn
    <3>6. Seen(a)!Child(NextOf(a), to, PendingOf(a), TargetOf(a), "ASYNC")
      BY <1>1, <2>2, <3>2
      DEF Sound, Elements, Seen!Child, CurrentOf, NextOf, PendingOf, TargetOf, ReturnOf
    <3>7. ~Seen(a)!ChildSettled /\ PendingOf(a) # NextOf(a)
      BY <1>2, <2>4 DEF Continues, Commits, PendingOf, NextOf
    <3>8. Seen(a)!ChildGoesOn
      BY <1>2, <2>1, <2>2, <3>3, <3>4, <3>5, <3>6, <3>7 DEF Seen!ChildGoesOn
    <3> QED
      BY <3>5, <3>8 DEF StepAt, Seen!ChildStep
  <2> QED
    BY <2>3, <2>4
<1> QED
  BY <1>5, <1>6, <1>7 DEF ChildReturned

-----------------------------------------------------------------------------
(* The two messages, seen by the child that posts them.                    *)
LEMMA StartPostedSeen ==
  ASSUME IInv, NEW a \in Children, PostAsyncStart(a)
  PROVE  /\ Seen(a)!StartPosted
         /\ \A x \in Children : el'[x] = el[x]
         /\ \A x \in Children \ {a} : StartingOf(x)' <=> StartingOf(x)
<1> DEFINE b == el[Bin]
<1>1. Sound(b) /\ a # Bin /\ el \in [Children \cup {Bin} -> Elements] /\ Bin \notin Children
  BY Facts, BinAssumption
<1>2. Seen(a)!SameDone /\ (kept' <=> kept)
  BY ListsStay DEF PostAsyncStart
<1>3. b.target = btarget /\ READY = Seen(a)!READY
  BY SameStates DEF btarget
<1>4. CASE b.target <= READY
  <2>1. el' = el /\ starts' = starts
    BY <1>4 DEF PostAsyncStart
  <2>2. Seen(a)!SameStarts /\ Seen(a)!SameBin
    BY <2>1, ListsStay, BinStays
  <2>3. Seen(a)!StartPosted
    BY <1>2, <1>3, <1>4, <2>2 DEF Seen!StartPosted
  <2> QED
    BY <2>1, <2>3 DEF StartingOf
<1>5. CASE ~(b.target <= READY)
  <2>1. b.target > READY
    BY <1>1, <1>5 DEF Sound, Elements, States, NULL, READY, PAUSED, PLAYING
  <2>2. starts' = starts \cup {a} /\ HandleAsyncStart
    BY <1>5 DEF PostAsyncStart
  <2>3. StartingOf(a)' /\ ~noStart' /\ \A x \in Children \ {a} : StartingOf(x)' <=> StartingOf(x)
    BY <2>2 DEF StartingOf, noStart
  <2>4. \A x \in Children : el'[x] = el[x]
    BY <1>1, <2>2 DEF HandleAsyncStart
  <2>5. StartIgnored(b) <=> Seen(a)!StartIgnored
    BY SameStates
    DEF StartIgnored, Settled, Seen!StartIgnored, Seen!BinSettled, breturn, bpending
  <2>6. CASE StartIgnored(b)
    <3>1. el'[Bin] = el[Bin]
      BY <1>1, <2>2, <2>6 DEF HandleAsyncStart
    <3>2. Seen(a)!SameBin
      BY <3>1, BinStays
    <3>3. Seen(a)!StartPosted
      BY <1>2, <1>3, <2>1, <2>3, <2>5, <2>6, <3>2 DEF Seen!StartPosted
    <3> QED
      BY <2>3, <2>4, <3>3
  <2>7. CASE ~StartIgnored(b)
    <3> DEFINE lost == IF b.current > PAUSED THEN PAUSED ELSE b.current
    <3>1. el'[Bin] = Lost(b)
      BY <1>1, <2>2, <2>7 DEF HandleAsyncStart
    <3>2. lost = Seen(a)!LostState(bcurrent)
      BY SameStates DEF Seen!LostState, bcurrent
    <3>3. Lost(b) = [b EXCEPT !.current = lost, !.next = lost, !.pending = lost,
                              !.return = "ASYNC"]
      BY DEF Lost
    <3> HIDE DEF lost
    <3>4. Seen(a)!TheBin(lost, lost, lost, btarget, "ASYNC")
      BY <1>1, <3>1, <3>3
      DEF Sound, Elements, Seen!TheBin, bcurrent, bnext, bpending, btarget, breturn
    <3>5. Seen(a)!StartPosted
      BY <1>2, <1>3, <2>1, <2>3, <2>5, <2>7, <3>2, <3>4 DEF Seen!StartPosted
    <3> QED
      BY <2>3, <2>4, <3>5
  <2> QED
    BY <2>6, <2>7
<1> QED
  BY <1>4, <1>5

LEMMA DonePostedSeen ==
  ASSUME IInv, NEW a \in Children, PostAsyncDone(a)
  PROVE  /\ Seen(a)!DonePosted
         /\ \A x \in Children : el'[x] = el[x]
         /\ \A x \in Children \ {a} : StartingOf(x)' <=> StartingOf(x)
<1> DEFINE b == el[Bin]
<1>1. Sound(b)
  BY Facts
<1>2. b.target = btarget /\ b.return = breturn /\ READY = Seen(a)!READY
  BY SameStates DEF btarget, breturn
<1>3. polling' = polling /\ cookie' = cookie
  BY DEF PostAsyncDone
<1>4. CASE b.target <= READY
  <2>1. el' = el /\ starts' = starts /\ pendingDone' = pendingDone /\ conts' = conts
    BY <1>4 DEF PostAsyncDone
  <2>2. Seen(a)!SameLists /\ Seen(a)!SameBin
    BY <1>3, <2>1, ListsStay, BinStays DEF binVars
  <2>3. Seen(a)!DonePosted
    BY <1>2, <1>3, <1>4, <2>2 DEF Seen!DonePosted
  <2> QED
    BY <2>1, <2>3 DEF StartingOf
<1>5. CASE ~(b.target <= READY)
  <2>1. b.target > READY
    BY <1>1, <1>5 DEF Sound, Elements, States, NULL, READY, PAUSED, PLAYING
  <2>2. starts' = starts \ {a}
    BY <1>5 DEF PostAsyncDone
  <2>3. ~StartingOf(a)' /\ \A x \in Children \ {a} : StartingOf(x)' <=> StartingOf(x)
    BY <2>2 DEF StartingOf
  <2>4. CASE starts' = {}
    <3>1. /\ HandleAsyncDone(polling)
          /\ pendingDone' = (pendingDone \/ (polling /\ breturn # "FAILURE"))
      BY <1>2, <1>5, <2>4 DEF PostAsyncDone
    <3>2. Seen(a)!DoneHandled(polling) /\ \A x \in Children : el'[x] = el[x]
      BY <1>3, <3>1, DoneSeen
    <3>3. noStart'
      BY <2>4 DEF noStart
    <3>4. Seen(a)!DonePosted
      BY <1>2, <1>3, <2>1, <2>3, <3>1, <3>2, <3>3 DEF Seen!DonePosted
    <3> QED
      BY <2>3, <3>2, <3>4
  <2>5. CASE starts' # {}
    <3>1. el' = el /\ pendingDone' = pendingDone /\ conts' = conts
      BY <1>5, <2>5 DEF PostAsyncDone
    <3>2. Seen(a)!SameDone /\ (kept' <=> kept) /\ Seen(a)!SameBin /\ ~noStart'
      BY <1>3, <2>5, <3>1, ListsStay, BinStays DEF noStart
    <3>3. Seen(a)!DonePosted
      BY <1>2, <1>3, <2>1, <2>3, <3>2 DEF Seen!DonePosted
    <3> QED
      BY <2>3, <3>1, <3>3
  <2> QED
    BY <2>4, <2>5
<1> QED
  BY <1>4, <1>5

-----------------------------------------------------------------------------
(* gst_base_sink_change_state.                                             *)
LEMMA UnlockedSeen ==
  ASSUME NEW a \in Children
  PROVE  MutexFree(a) <=> Seen(a)!Unlocked
BY DEF MutexFree, Seen!Unlocked, StreamingOf

(* A sink that wakes its streaming thread, and others that do not.         *)
LEMMA WokenSeen ==
  ASSUME IInv, NEW a \in Children, thread' = Woken(a)
  PROVE  /\ StreamingOf(a)' = Seen(a)!WokenStreaming
         /\ \A x \in Children \ {a} : thread'[x] = thread[x]
<1>1. thread \in [Children -> {"idle", "wait", "woken", "post"}]
  BY Facts DEF SinkTyped
<1> QED
  BY <1>1 DEF Woken, StreamingOf, Seen!WokenStreaming

(* A driver at a sink whose fields change, with what its change_state      *)
(* does to the bin.                                                        *)
LEMMA SinkStepSeen ==
  ASSUME IInv, NEW a \in Children, NEW s, sink' = [sink EXCEPT ![a] = s],
         flush' = flush, live' = live, d'.child = d.child, d'.todo = d.todo,
         \A x \in Children \ {a} : /\ el'[x] = el[x] /\ thread'[x] = thread[x]
                                   /\ StartingOf(x)' <=> StartingOf(x)
  PROVE  /\ Seen(a)!Sink(s.need, s.have, s.async, s.active, s.flushing)
         /\ Seen(a)!SameTurn
         /\ \A x \in Children \ {a} : Seen(x)!Aside
<1>1. sink'[a] = s /\ \A x \in Children \ {a} : sink'[x] = sink[x]
  BY Facts DEF SinkTyped
<1> QED
  BY <1>1, SinkBecomes, TurnStays, AsideSeen DEF Seen!SameTurn

(* The fields of a sink before the step. *)
LEMMA SinkFieldsOf ==
  ASSUME IInv, NEW a \in Children
  PROVE  /\ sink[a] \in SinkFields
         /\ sink[a].need = NeedOf(a) /\ sink[a].have = HaveOf(a) /\ sink[a].async = AsyncOf(a)
         /\ sink[a].active = ActiveOf(a) /\ sink[a].flushing = FlushingOf(a)
BY Facts DEF SinkTyped, NeedOf, HaveOf, AsyncOf, ActiveOf, FlushingOf

LEMMA GoesAsyncSeen ==
  ASSUME IInv, NEW a \in Children, d.child = a, NEW s \in SinkFields, SinkGoesAsync(a, s),
         UNCHANGED <<live, flush, appVars>>
  PROVE  /\ Seen(a)!Sink(TRUE, s.have, TRUE, s.active, s.flushing) /\ Seen(a)!GoesAsync
         /\ \A x \in Children \ {a} : Seen(x)!Aside
<1> DEFINE t == [s EXCEPT !.need = TRUE, !.async = TRUE, !.committed = FALSE]
<1>1. sink' = [sink EXCEPT ![a] = t] /\ PostAsyncStart(a) /\ ChildReturns("ASYNC")
      /\ thread' = thread /\ flushes' = flushes
  BY DEF SinkGoesAsync, appVars
<1>2. t.need /\ t.async /\ t.have = s.have /\ t.active = s.active /\ t.flushing = s.flushing
  BY DEF SinkFields
<1> HIDE DEF t
<1>3. DriverTyped
  BY Facts
<1>4. d'.child = d.child /\ d'.todo = d.todo
  BY <1>1, <1>3 DEF ChildReturns, DriverTyped, Drivers
<1>5. /\ Seen(a)!StartPosted
      /\ \A x \in Children : el'[x] = el[x]
      /\ \A x \in Children \ {a} : StartingOf(x)' <=> StartingOf(x)
  BY <1>1, StartPostedSeen
<1>6. /\ Seen(a)!Sink(t.need, t.have, t.async, t.active, t.flushing)
      /\ \A x \in Children \ {a} : Seen(x)!Aside
  BY <1>1, <1>4, <1>5, SinkStepSeen
<1>7. Seen(a)!SameState /\ Seen(a)!SameThreads /\ Seen(a)!SameSettings /\ Seen(a)!Returned("ASYNC")
  BY <1>1, <1>3, <1>5, ChildStateStays, ThreadsBecome, ListsStay, DriverReturned
<1> QED
  BY <1>2, <1>5, <1>6, <1>7 DEF Seen!GoesAsync, Seen!Sink

LEMMA SinkPausesSeen ==
  ASSUME IInv, NEW a \in Children, d.child = a, SinkPauses
  PROVE  StepAt(a)
<1> DEFINE s == [sink[a] EXCEPT !.have = FALSE, !.flushing = FALSE, !.active = TRUE]
<1>1. s \in SinkFields /\ ~s.have /\ s.active /\ ~s.flushing
  BY SinkFieldsOf DEF SinkFields
<1>2. SinkGoesAsync(a, s) /\ UNCHANGED <<live, flush, appVars>>
  BY DEF SinkPauses
<1> HIDE DEF s
<1>3. /\ Seen(a)!Sink(TRUE, s.have, TRUE, s.active, s.flushing) /\ Seen(a)!GoesAsync
      /\ \A x \in Children \ {a} : Seen(x)!Aside
  BY <1>1, <1>2, GoesAsyncSeen
<1>4. /\ Seen(a)!Transits(Seen(a)!READY, Seen(a)!PAUSED) /\ ~LiveOf(a) /\ Seen(a)!Unlocked
  BY TransitionSeen, SameStates, UnlockedSeen DEF SinkPauses, Sinks, LiveOf
<1>5. Seen(a)!Sink(TRUE, FALSE, TRUE, TRUE, FALSE)
  BY <1>1, <1>3 DEF Seen!Sink
<1>6. Seen(a)!SinkReadies
  BY <1>3, <1>4, <1>5 DEF Seen!SinkReadies
<1> QED
  BY <1>3, <1>6 DEF StepAt, Seen!ChildStep

(* A sink that is to preroll again. *)
LEMMA UnprerolledSeen ==
  ASSUME IInv, NEW a \in Children, d.child = a, d.child \in Sinks, MutexFree(a),
         NeedsPreroll(a), SinkGoesAsync(a, sink[a]), UNCHANGED <<live, flush, appVars>>,
         \/ Transition(PAUSED, PLAYING)
         \/ Transition(PLAYING, PAUSED) /\ el[a].target > READY
  PROVE  StepAt(a)
<1>1. /\ Seen(a)!Sink(TRUE, sink[a].have, TRUE, sink[a].active, sink[a].flushing)
      /\ Seen(a)!GoesAsync
      /\ \A x \in Children \ {a} : Seen(x)!Aside
  BY SinkFieldsOf, GoesAsyncSeen
<1>2. Seen(a)!Sink(TRUE, HaveOf(a), TRUE, ActiveOf(a), FlushingOf(a)) /\ ~HaveOf(a)
  BY <1>1, SinkFieldsOf DEF NeedsPreroll
<1>3. \/ Seen(a)!Transits(Seen(a)!PAUSED, Seen(a)!PLAYING)
      \/ Seen(a)!Transits(Seen(a)!PLAYING, Seen(a)!PAUSED) /\ TargetOf(a) > Seen(a)!READY
  BY TransitionSeen, SameStates DEF TargetOf
<1>4. ~LiveOf(a) /\ Seen(a)!Unlocked
  BY UnlockedSeen DEF Sinks, LiveOf
<1>5. Seen(a)!SinkUnprerolled
  BY <1>1, <1>2, <1>3, <1>4 DEF Seen!SinkUnprerolled
<1> QED
  BY <1>1, <1>5 DEF StepAt, Seen!ChildStep

LEMMA SinkPlaysSeen ==
  ASSUME IInv, NEW a \in Children, d.child = a, SinkPlays
  PROVE  StepAt(a)
<1>1. CASE NeedsPreroll(a)
  BY <1>1, UnprerolledSeen DEF SinkPlays
<1>2. CASE ~NeedsPreroll(a)
  <2> DEFINE s == [sink[a] EXCEPT !.async = FALSE, !.need = FALSE]
  <2>1. sink' = [sink EXCEPT ![a] = s]
    BY <1>2, Facts DEF SinkPlays, SinkTyped
  <2>2. /\ thread' = Woken(a) /\ ChildReturns("SUCCESS")
        /\ UNCHANGED <<el, binVars, live, flush, flushes, starts>>
    BY <1>2 DEF SinkPlays, appVars, binVars
  <2>3. /\ ~s.need /\ ~s.async /\ s.have = HaveOf(a) /\ s.active = ActiveOf(a)
        /\ s.flushing = FlushingOf(a)
    BY SinkFieldsOf DEF SinkFields
  <2> HIDE DEF s
  <2>4. DriverTyped
    BY Facts
  <2>5. d'.child = d.child /\ d'.todo = d.todo
    BY <2>2, <2>4 DEF ChildReturns, DriverTyped, Drivers
  <2>6. /\ StreamingOf(a)' = Seen(a)!WokenStreaming /\ SeekingOf(a)' = SeekingOf(a)
        /\ \A x \in Children \ {a} : thread'[x] = thread[x]
    BY <2>2, WokenSeen DEF SeekingOf
  <2>7. \A x \in Children : el'[x] = el[x] /\ (StartingOf(x)' <=> StartingOf(x))
    BY <2>2 DEF StartingOf
  <2>8. /\ Seen(a)!Sink(s.need, s.have, s.async, s.active, s.flushing)
        /\ \A x \in Children \ {a} : Seen(x)!Aside
    BY <2>1, <2>2, <2>5, <2>6, <2>7, SinkStepSeen
  <2>9. Seen(a)!Sink(FALSE, HaveOf(a), FALSE, ActiveOf(a), FlushingOf(a))
    BY <2>3, <2>8 DEF Seen!Sink
  <2>10. Seen(a)!SinkStays /\ Seen(a)!Threads(Seen(a)!WokenStreaming, SeekingOf(a))
    BY <2>2, <2>4, <2>6, ChildStateStays, ElseStays, DriverReturned
    DEF Seen!SinkStays, Seen!Threads
  <2>11. /\ Seen(a)!Transits(Seen(a)!PAUSED, Seen(a)!PLAYING) /\ ~LiveOf(a) /\ Seen(a)!Unlocked
         /\ HaveOf(a)
    BY <1>2, TransitionSeen, SameStates, UnlockedSeen
    DEF SinkPlays, Sinks, LiveOf, NeedsPreroll, HaveOf
  <2>12. Seen(a)!SinkPlaysOn
    BY <2>9, <2>10, <2>11 DEF Seen!SinkPlaysOn
  <2> QED
    BY <2>8, <2>12 DEF StepAt, Seen!ChildStep
<1> QED
  BY <1>1, <1>2

LEMMA SinkUnplaysSeen ==
  ASSUME IInv, NEW a \in Children, d.child = a, SinkUnplays
  PROVE  StepAt(a)
<1>1. CASE NeedsPreroll(a) /\ el[a].target > READY
  BY <1>1, UnprerolledSeen DEF SinkUnplays
<1>2. CASE ~(NeedsPreroll(a) /\ el[a].target > READY)
  <2> DEFINE as == IF NeedsPreroll(a) THEN sink[a].async ELSE FALSE
             s == [sink[a] EXCEPT !.async = as, !.need = TRUE]
  <2>1. sink' = [sink EXCEPT ![a] = s]
    BY <1>2, Facts DEF SinkUnplays, SinkTyped
  <2>2. /\ ChildReturns("SUCCESS")
        /\ UNCHANGED <<el, binVars, live, thread, flush, flushes, starts>>
    BY <1>2 DEF SinkUnplays, appVars, binVars
  <2>3. /\ s.need /\ (s.async <=> AsyncOf(a) /\ ~HaveOf(a)) /\ s.have = HaveOf(a)
        /\ s.active = ActiveOf(a) /\ s.flushing = FlushingOf(a)
    BY SinkFieldsOf DEF SinkFields, NeedsPreroll
  <2> HIDE DEF s
  <2>4. DriverTyped
    BY Facts
  <2>5. d'.child = d.child /\ d'.todo = d.todo
    BY <2>2, <2>4 DEF ChildReturns, DriverTyped, Drivers
  <2>6. \A x \in Children : el'[x] = el[x] /\ (StartingOf(x)' <=> StartingOf(x))
    BY <2>2 DEF StartingOf
  <2>7. /\ Seen(a)!Sink(s.need, s.have, s.async, s.active, s.flushing)
        /\ \A x \in Children \ {a} : Seen(x)!Aside
    BY <2>1, <2>2, <2>5, <2>6, SinkStepSeen
  <2>8. Seen(a)!Sink(TRUE, HaveOf(a), AsyncOf(a) /\ ~HaveOf(a), ActiveOf(a), FlushingOf(a))
    BY <2>3, <2>7 DEF Seen!Sink
  <2>9. Seen(a)!SinkStays /\ Seen(a)!SameThreads
    BY <2>2, <2>4, ChildStateStays, ThreadsBecome, ElseStays, DriverReturned
    DEF Seen!SinkStays
  <2>10. /\ Seen(a)!Transits(Seen(a)!PLAYING, Seen(a)!PAUSED) /\ ~LiveOf(a) /\ Seen(a)!Unlocked
    BY TransitionSeen, SameStates, UnlockedSeen DEF SinkUnplays, Sinks, LiveOf
  <2>11. ~HaveOf(a) => TargetOf(a) <= Seen(a)!READY
    BY <1>2, Facts, SameStates
    DEF NeedsPreroll, HaveOf, TargetOf, Elements, States, NULL, READY, PAUSED, PLAYING
  <2>12. Seen(a)!SinkHolds
    BY <2>8, <2>9, <2>10, <2>11 DEF Seen!SinkHolds
  <2> QED
    BY <2>7, <2>12 DEF StepAt, Seen!ChildStep
<1> QED
  BY <1>1, <1>2

LEMMA SinkDeactivatesSeen ==
  ASSUME IInv, NEW a \in Children, d.child = a, SinkDeactivates
  PROVE  StepAt(a)
<1> DEFINE s == [sink[a] EXCEPT !.active = FALSE, !.flushing = TRUE, !.need = TRUE,
                                !.have = FALSE]
<1>1. sink' = [sink EXCEPT ![a] = s]
  BY Facts DEF SinkDeactivates, SinkTyped
<1>2. /\ thread' = Woken(a) /\ d' = [d EXCEPT !.pc = "drain"]
      /\ UNCHANGED <<el, binVars, live, flush, flushes, starts>>
  BY DEF SinkDeactivates, appVars, binVars
<1>3. s.need /\ ~s.have /\ s.async = AsyncOf(a) /\ ~s.active /\ s.flushing
  BY SinkFieldsOf DEF SinkFields
<1> HIDE DEF s
<1>4. DriverTyped
  BY Facts
<1>5. /\ dpc' = "drain" /\ dcfrom' = dcfrom /\ dcto' = dcto
      /\ d'.child = d.child /\ d'.todo = d.todo /\ Seen(a)!SameCourse
  BY <1>2, <1>4
  DEF DriverTyped, Drivers, Seen!SameCourse, dpc, dfrom, dto, dasync, dnoPreroll, dfailed,
      dcfrom, dcto
<1>6. /\ StreamingOf(a)' = Seen(a)!WokenStreaming /\ SeekingOf(a)' = SeekingOf(a)
      /\ \A x \in Children \ {a} : thread'[x] = thread[x]
  BY <1>2, WokenSeen DEF SeekingOf
<1>7. \A x \in Children : el'[x] = el[x] /\ (StartingOf(x)' <=> StartingOf(x))
  BY <1>2 DEF StartingOf
<1>8. /\ Seen(a)!Sink(s.need, s.have, s.async, s.active, s.flushing) /\ Seen(a)!SameTurn
      /\ \A x \in Children \ {a} : Seen(x)!Aside
  BY <1>1, <1>2, <1>5, <1>6, <1>7, SinkStepSeen
<1>9. Seen(a)!Sink(TRUE, FALSE, AsyncOf(a), FALSE, TRUE)
  BY <1>3, <1>8 DEF Seen!Sink
<1>10. /\ Seen(a)!SameState /\ Seen(a)!SameElse
       /\ Seen(a)!Threads(Seen(a)!WokenStreaming, SeekingOf(a))
  BY <1>2, <1>6, ChildStateStays, ElseStays DEF Seen!Threads
<1>11. /\ Seen(a)!Transits(Seen(a)!PAUSED, Seen(a)!READY) /\ ~LiveOf(a) /\ Seen(a)!Unlocked
  BY TransitionSeen, SameStates, UnlockedSeen DEF SinkDeactivates, Sinks, LiveOf
<1>12. Seen(a)!SinkEmpties
  BY <1>5, <1>8, <1>9, <1>10, <1>11 DEF Seen!SinkEmpties
<1> QED
  BY <1>8, <1>12 DEF StepAt, Seen!ChildStep

LEMMA SinkUnpausesSeen ==
  ASSUME IInv, NEW a \in Children, d.child = a, SinkUnpauses
  PROVE  StepAt(a)
<1> DEFINE s == [sink[a] EXCEPT !.committed = TRUE]
<1>1. sink' = [sink EXCEPT ![a] = s]
  BY Facts DEF SinkUnpauses, SinkTyped
<1>2. ChildReturns("SUCCESS") /\ UNCHANGED <<live, thread, flush, flushes>>
  BY DEF SinkUnpauses, appVars
<1>3. /\ s.need = NeedOf(a) /\ s.have = HaveOf(a) /\ s.async = AsyncOf(a)
      /\ s.active = ActiveOf(a) /\ s.flushing = FlushingOf(a)
  BY SinkFieldsOf DEF SinkFields
<1> HIDE DEF s
<1>4. DriverTyped
  BY Facts
<1>5. d'.child = d.child /\ d'.todo = d.todo
  BY <1>2, <1>4 DEF ChildReturns, DriverTyped, Drivers
<1>6. /\ Seen(a)!DonePosted \/ (Seen(a)!SameBin /\ Seen(a)!SameLists)
      /\ \A x \in Children : el'[x] = el[x]
      /\ \A x \in Children \ {a} : StartingOf(x)' <=> StartingOf(x)
  <2>1. CASE PostAsyncDone(a)
    BY <2>1, DonePostedSeen
  <2>2. CASE UNCHANGED <<el, binVars>>
    BY <2>2, BinStays, ListsStay DEF StartingOf, binVars
  <2> QED
    BY <2>1, <2>2 DEF SinkUnpauses
<1>7. /\ Seen(a)!Sink(s.need, s.have, s.async, s.active, s.flushing)
      /\ \A x \in Children \ {a} : Seen(x)!Aside
  BY <1>1, <1>2, <1>5, <1>6, SinkStepSeen
<1>8. Seen(a)!SameSink
  BY <1>3, <1>7 DEF Seen!SameSink
<1>9. Seen(a)!SameChild /\ Seen(a)!SameSettings /\ Seen(a)!Returned("SUCCESS")
  BY <1>2, <1>4, <1>6, <1>8, ChildStateStays, ThreadsBecome, ListsStay, DriverReturned
  DEF Seen!SameChild
<1>10. dpc = "drain" /\ AtOf(a) /\ StreamingOf(a) = "idle" /\ SeekingOf(a) # "post"
  BY DEF SinkUnpauses, StreamLockFree, dpc, AtOf, StreamingOf, SeekingOf
<1>11. Seen(a)!SinkDrained
  BY <1>6, <1>9, <1>10 DEF Seen!SinkDrained
<1> QED
  BY <1>7, <1>11 DEF StepAt, Seen!ChildStep

-----------------------------------------------------------------------------
(* A thread of a sink, which leaves the driver alone. *)
LEMMA ThreadSeen ==
  ASSUME IInv, NEW a \in Children, live' = live, d' = d, DOMAIN sink' = DOMAIN sink,
         \A x \in Children \ {a} : /\ el'[x] = el[x] /\ sink'[x] = sink[x]
                                   /\ thread'[x] = thread[x] /\ flush'[x] = flush[x]
                                   /\ StartingOf(x)' <=> StartingOf(x)
  PROVE  Seen(a)!SameDriver /\ \A x \in Children \ {a} : Seen(x)!Aside
<1>1. \A x \in Children : (TodoOf(x)' <=> TodoOf(x)) /\ (AtOf(x)' <=> AtOf(x))
  BY TurnStays
<1> QED
  BY <1>1, AsideSeen, DriverStays

(* What gst_base_sink_do_preroll does to one sink; to its state, when it   *)
(* commits that.                                                           *)
LEMMA StreamSeen ==
  ASSUME IInv, NEW a \in Children, NEW s, NEW w, sink' = [sink EXCEPT ![a] = s],
         thread' = [thread EXCEPT ![a] = w], UNCHANGED <<live, d, flush, flushes>>,
         \A x \in Children \ {a} : el'[x] = el[x] /\ (StartingOf(x)' <=> StartingOf(x))
  PROVE  /\ Seen(a)!Sink(s.need, s.have, s.async, s.active, s.flushing) /\ Seen(a)!Goes(w)
         /\ \A x \in Children \ {a} : Seen(x)!Aside
<1>1. /\ sink'[a] = s /\ thread'[a] = w
      /\ \A x \in Children \ {a} : sink'[x] = sink[x] /\ thread'[x] = thread[x]
      /\ DOMAIN sink' = DOMAIN sink
  BY Facts DEF SinkTyped
<1>2. Seen(a)!SameDriver /\ \A x \in Children \ {a} : Seen(x)!Aside
  BY <1>1, ThreadSeen
<1>3. Seen(a)!Sink(s.need, s.have, s.async, s.active, s.flushing)
  BY <1>1, SinkBecomes
<1>4. Seen(a)!Threads(w, SeekingOf(a)) /\ Seen(a)!SameSettings
  BY <1>1, ListsStay DEF Seen!Threads, StreamingOf, SeekingOf
<1> QED
  BY <1>2, <1>3, <1>4 DEF Seen!Goes

LEMMA PrerollSeen ==
  ASSUME IInv, NEW a \in Children, Seen(a)!Taken, NeedOf(a) \/ StreamingOf(a) = "woken",
         Preroll(a), UNCHANGED <<live, binVars, d, flush, getter, appVars>>
  PROVE  StepAt(a)
<1> DEFINE s == [sink[a] EXCEPT !.have = FALSE]
           e == el[a]
<1>1. /\ s \in SinkFields /\ s.need = NeedOf(a) /\ ~s.have /\ s.async = AsyncOf(a)
      /\ s.active = ActiveOf(a) /\ s.flushing = FlushingOf(a)
  BY SinkFieldsOf DEF SinkFields
<1>2. UNCHANGED <<live, d, flush, flushes, starts>>
  BY DEF binVars, appVars
<1>3. \A x \in Children : StartingOf(x)' <=> StartingOf(x)
  BY <1>2 DEF StartingOf
<1>4. Sound(e) /\ a # Bin /\ el \in [Children \cup {Bin} -> Elements]
  BY Facts, BinAssumption
<1>5. CanCommit(e) <=> PendingOf(a) >= Seen(a)!PAUSED
  BY <1>4, SameStates
  DEF CanCommit, Sound, Elements, PendingOf, States, VOID_PENDING, NULL, READY, PAUSED, PLAYING
<1>6. (Settled(e) /\ e.current = PAUSED)
        <=> (Seen(a)!ChildSettled /\ CurrentOf(a) = Seen(a)!PAUSED)
  BY SameStates DEF Settled, Seen!ChildSettled, PendingOf, CurrentOf
<1>7. ASSUME el' = el
      PROVE  /\ Seen(a)!SameState /\ Seen(a)!SameBin /\ Seen(a)!SameLists
             /\ \A x \in Children \ {a} : el'[x] = el[x]
  BY <1>7, ChildStateStays, BinStays, ListsStay
<1> HIDE DEF s
<1>8. ASSUME NEW t \in SinkFields, Waits(a, t)
      PROVE  /\ sink' = [sink EXCEPT ![a] = [t EXCEPT !.have = TRUE]]
             /\ thread' = [thread EXCEPT ![a] = "wait"]
  BY <1>8 DEF Waits
<1>9. CASE ~s.need /\ Goes(a, s) /\ el' = el
  <2> DEFINE t == [s EXCEPT !.have = FALSE]
  <2>1. sink' = [sink EXCEPT ![a] = t] /\ thread' = [thread EXCEPT ![a] = "idle"]
    BY <1>9 DEF Goes
  <2>2. /\ t.need = NeedOf(a) /\ ~t.have /\ t.async = AsyncOf(a)
        /\ t.active = ActiveOf(a) /\ t.flushing = FlushingOf(a)
    BY <1>1 DEF SinkFields
  <2> HIDE DEF t
  <2>3. /\ Seen(a)!Sink(t.need, t.have, t.async, t.active, t.flushing) /\ Seen(a)!Goes("idle")
        /\ \A x \in Children \ {a} : Seen(x)!Aside
    BY <1>2, <1>3, <1>7, <1>9, <2>1, StreamSeen
  <2>4. Seen(a)!Sink(NeedOf(a), FALSE, AsyncOf(a), ActiveOf(a), FlushingOf(a))
    BY <2>2, <2>3 DEF Seen!Sink
  <2>5. Seen(a)!StreamGoes
    BY <1>1, <1>7, <1>9, <2>3, <2>4 DEF Seen!StreamGoes
  <2> QED
    BY <2>3, <2>5 DEF StepAt, Seen!ChildStep
<1>10. ASSUME NEW u \in SinkFields, Waits(a, u), el' = el, s.need, u.need, ~u.async,
              u.active = s.active, u.flushing = s.flushing,
              s.async => Settled(e) /\ e.current = PAUSED
       PROVE  StepAt(a)
  <2> DEFINE t == [u EXCEPT !.have = TRUE]
  <2>1. sink' = [sink EXCEPT ![a] = t] /\ thread' = [thread EXCEPT ![a] = "wait"]
    BY <1>10 DEF Waits
  <2>2. /\ t.need /\ t.have /\ ~t.async
        /\ t.active = ActiveOf(a) /\ t.flushing = FlushingOf(a)
    BY <1>1, <1>10 DEF SinkFields
  <2> HIDE DEF t
  <2>3. /\ Seen(a)!Sink(t.need, t.have, t.async, t.active, t.flushing) /\ Seen(a)!Goes("wait")
        /\ \A x \in Children \ {a} : Seen(x)!Aside
    BY <1>2, <1>3, <1>7, <1>10, <2>1, StreamSeen
  <2>4. Seen(a)!Sink(TRUE, TRUE, FALSE, ActiveOf(a), FlushingOf(a))
    BY <2>2, <2>3 DEF Seen!Sink
  <2>5. AsyncOf(a) => Seen(a)!ChildSettled /\ CurrentOf(a) = Seen(a)!PAUSED
    BY <1>1, <1>6, <1>10
  <2>6. Seen(a)!StreamWaits
    BY <1>1, <1>7, <1>10, <2>3, <2>4, <2>5 DEF Seen!StreamWaits
  <2> QED
    BY <2>3, <2>6 DEF StepAt, Seen!ChildStep
<1>11. CASE s.need /\ ~s.async /\ Waits(a, s) /\ el' = el
  BY <1>1, <1>10, <1>11
<1>12. CASE /\ s.need /\ s.async /\ Settled(e) /\ e.current = PAUSED
            /\ Waits(a, [s EXCEPT !.async = FALSE]) /\ el' = el
  <2> DEFINE u == [s EXCEPT !.async = FALSE]
  <2>1. /\ u \in SinkFields /\ u.need = s.need /\ ~u.async /\ u.active = s.active
        /\ u.flushing = s.flushing
    BY <1>1 DEF SinkFields
  <2>2. Waits(a, u)
    BY <1>12
  <2> HIDE DEF u
  <2> QED
    BY <1>10, <1>12, <2>1, <2>2
<1>13. CASE /\ s.need /\ s.async /\ CanCommit(e)
            /\ el' = [el EXCEPT ![a] = CommitPending(e)]
            /\ sink' = [sink EXCEPT ![a] = [s EXCEPT !.async = FALSE, !.committed = TRUE,
                                                     !.need = e.pending # PLAYING]]
            /\ thread' = [thread EXCEPT ![a] = "post"]
  <2> DEFINE t == [s EXCEPT !.async = FALSE, !.committed = TRUE, !.need = e.pending # PLAYING]
  <2>1. /\ t.need <=> PendingOf(a) # Seen(a)!PLAYING
        /\ ~t.have /\ ~t.async /\ t.active = ActiveOf(a) /\ t.flushing = FlushingOf(a)
    BY <1>1, SameStates DEF SinkFields, PendingOf
  <2>2. sink' = [sink EXCEPT ![a] = t]
    BY <1>13
  <2> HIDE DEF t
  <2>3. el'[a] = CommitPending(e) /\ \A x \in (Children \ {a}) \cup {Bin} : el'[x] = el[x]
    BY <1>4, <1>13
  <2>4. /\ Seen(a)!Sink(t.need, t.have, t.async, t.active, t.flushing) /\ Seen(a)!Goes("post")
        /\ \A x \in Children \ {a} : Seen(x)!Aside
    BY <1>2, <1>3, <1>13, <2>2, <2>3, StreamSeen
  <2>5. Seen(a)!Sink(PendingOf(a) # Seen(a)!PLAYING, FALSE, FALSE, ActiveOf(a), FlushingOf(a))
    BY <2>1, <2>4 DEF Seen!Sink
  <2>6. Seen(a)!Child(PendingOf(a), Seen(a)!VOID_PENDING, Seen(a)!VOID_PENDING, TargetOf(a),
                      "SUCCESS")
    BY <1>4, <2>3, SameStates
    DEF CommitPending, Sound, Elements, Seen!Child, CurrentOf, NextOf, PendingOf, TargetOf,
        ReturnOf
  <2>7. Seen(a)!SameBin /\ Seen(a)!SameLists
    BY <2>3, BinStays, ListsStay
  <2>8. Seen(a)!StreamCommits
    BY <1>1, <1>5, <1>13, <2>4, <2>5, <2>6, <2>7 DEF Seen!StreamCommits
  <2> QED
    BY <2>4, <2>8 DEF StepAt, Seen!ChildStep
<1>14. CASE /\ s.need /\ s.async /\ ~CanCommit(e) /\ ~(Settled(e) /\ e.current = PAUSED)
            /\ Goes(a, [s EXCEPT !.async = FALSE, !.need = FALSE,
                                 !.flushing = @ \/ ~Settled(e) \/ e.current # PLAYING])
            /\ el' = el
  <2> DEFINE f == s.flushing \/ ~Settled(e) \/ e.current # PLAYING
             u == [s EXCEPT !.async = FALSE, !.need = FALSE, !.flushing = f]
             t == [u EXCEPT !.have = FALSE]
  <2>1. Goes(a, u)
    BY <1>1, <1>14 DEF SinkFields
  <2>2. /\ ~t.need /\ ~t.have /\ ~t.async /\ t.active = ActiveOf(a)
        /\ t.flushing <=> f
    BY <1>1 DEF SinkFields
  <2>3. f <=> \/ FlushingOf(a) \/ ~Seen(a)!ChildSettled \/ CurrentOf(a) # Seen(a)!PLAYING
    BY <1>1, SameStates DEF Settled, Seen!ChildSettled, PendingOf, CurrentOf
  <2> HIDE DEF f
  <2>4. sink' = [sink EXCEPT ![a] = t] /\ thread' = [thread EXCEPT ![a] = "idle"]
    BY <2>1 DEF Goes
  <2> HIDE DEF u, t
  <2>5. /\ Seen(a)!Sink(t.need, t.have, t.async, t.active, t.flushing) /\ Seen(a)!Goes("idle")
        /\ \A x \in Children \ {a} : Seen(x)!Aside
    BY <1>2, <1>3, <1>7, <1>14, <2>4, StreamSeen
  <2>6. Seen(a)!Sink(FALSE, FALSE, FALSE, ActiveOf(a),
                     FlushingOf(a) \/ ~Seen(a)!ChildSettled \/ CurrentOf(a) # Seen(a)!PLAYING)
    BY <2>2, <2>3, <2>5 DEF Seen!Sink
  <2>7. PendingOf(a) < Seen(a)!PAUSED
    BY <1>4, <1>14, SameStates
    DEF CanCommit, Sound, Elements, PendingOf, States, VOID_PENDING, NULL, READY, PAUSED, PLAYING
  <2>8. Seen(a)!StreamRefused
    BY <1>1, <1>6, <1>7, <1>14, <2>5, <2>6, <2>7 DEF Seen!StreamRefused
  <2> QED
    BY <2>5, <2>8 DEF StepAt, Seen!ChildStep
<1> QED
  BY <1>9, <1>11, <1>12, <1>13, <1>14 DEF Preroll, s

LEMMA ArriveSeen ==
  ASSUME IInv, NEW a \in Children, Arrive(a)
  PROVE  StepAt(a)
<1>1. Seen(a)!Taken /\ NeedOf(a)
  BY DEF Arrive, Seen!Taken, StreamingOf, SeekingOf, ActiveOf, FlushingOf, NeedOf
<1> QED
  BY <1>1, PrerollSeen DEF Arrive

LEMMA ResumeSeen ==
  ASSUME IInv, NEW a \in Children, Resume(a)
  PROVE  StepAt(a)
<1>1. CASE ~sink[a].flushing
  <2>1. Seen(a)!Taken /\ StreamingOf(a) = "woken"
    BY <1>1 DEF Resume, Seen!Taken, StreamingOf, FlushingOf
  <2> QED
    BY <1>1, <2>1, PrerollSeen DEF Resume
<1>2. CASE sink[a].flushing
  <2> DEFINE t == [sink[a] EXCEPT !.have = FALSE]
  <2>1. /\ sink' = [sink EXCEPT ![a] = t] /\ thread' = [thread EXCEPT ![a] = "idle"]
        /\ UNCHANGED <<el, live, binVars, d, flush, flushes, starts>>
    BY <1>2 DEF Resume, Goes, binVars, appVars
  <2>2. /\ t.need = NeedOf(a) /\ ~t.have /\ t.async = AsyncOf(a)
        /\ t.active = ActiveOf(a) /\ t.flushing = FlushingOf(a)
    BY SinkFieldsOf DEF SinkFields
  <2> HIDE DEF t
  <2>3. \A x \in Children : el'[x] = el[x] /\ (StartingOf(x)' <=> StartingOf(x))
    BY <2>1 DEF StartingOf
  <2>4. /\ Seen(a)!Sink(t.need, t.have, t.async, t.active, t.flushing) /\ Seen(a)!Goes("idle")
        /\ \A x \in Children \ {a} : Seen(x)!Aside
    BY <2>1, <2>3, StreamSeen
  <2>5. Seen(a)!Sink(NeedOf(a), FALSE, AsyncOf(a), ActiveOf(a), FlushingOf(a))
    BY <2>2, <2>4 DEF Seen!Sink
  <2>6. StreamingOf(a) = "woken" /\ FlushingOf(a)
    BY <1>2 DEF Resume, StreamingOf, FlushingOf
  <2>7. Seen(a)!SameState /\ Seen(a)!SameBin /\ Seen(a)!SameLists
    BY <2>1, ChildStateStays, BinStays, ListsStay
  <2>8. Seen(a)!StreamGoes
    BY <2>4, <2>5, <2>6, <2>7 DEF Seen!StreamGoes
  <2> QED
    BY <2>4, <2>8 DEF StepAt, Seen!ChildStep
<1> QED
  BY <1>1, <1>2

LEMMA PostDoneSeen ==
  ASSUME IInv, NEW a \in Children, PostDone(a)
  PROVE  StepAt(a)
<1> DEFINE w == IF sink[a].need THEN "wait" ELSE "idle"
           h == IF sink[a].need THEN TRUE ELSE FALSE
           t == [sink[a] EXCEPT !.have = h]
<1>1. /\ sink' = [sink EXCEPT ![a] = t] /\ thread' = [thread EXCEPT ![a] = w]
      /\ UNCHANGED <<live, d, flush, flushes>>
  BY DEF PostDone, Waits, Goes, appVars
<1>2. /\ t.need = NeedOf(a) /\ (t.have <=> NeedOf(a)) /\ t.async = AsyncOf(a)
      /\ t.active = ActiveOf(a) /\ t.flushing = FlushingOf(a)
      /\ w = IF NeedOf(a) THEN "wait" ELSE "idle"
  BY SinkFieldsOf DEF SinkFields
<1> HIDE DEF t, w
<1>3. /\ Seen(a)!DonePosted
      /\ \A x \in Children : el'[x] = el[x]
      /\ \A x \in Children \ {a} : StartingOf(x)' <=> StartingOf(x)
  BY DonePostedSeen DEF PostDone
<1>4. /\ Seen(a)!Sink(t.need, t.have, t.async, t.active, t.flushing) /\ Seen(a)!Goes(w)
      /\ \A x \in Children \ {a} : Seen(x)!Aside
  BY <1>1, <1>3, StreamSeen
<1>5. Seen(a)!Sink(NeedOf(a), NeedOf(a), AsyncOf(a), ActiveOf(a), FlushingOf(a))
  BY <1>2, <1>4 DEF Seen!Sink
<1>6. StreamingOf(a) = "post" /\ Seen(a)!SameState
  BY <1>3, ChildStateStays DEF PostDone, StreamingOf
<1>7. Seen(a)!StreamPosts
  BY <1>2, <1>3, <1>4, <1>5, <1>6 DEF Seen!StreamPosts
<1> QED
  BY <1>4, <1>7 DEF StepAt, Seen!ChildStep

-----------------------------------------------------------------------------
(* A seek. *)
LEMMA FlushStartSeen ==
  ASSUME IInv, flushes \in Nat, Calm', NEW a \in Children, FlushStart(a)
  PROVE  StepAt(a)
<1> DEFINE s == [sink[a] EXCEPT !.need = TRUE, !.have = FALSE, !.flushing = TRUE]
<1>1. sink' = [sink EXCEPT ![a] = s]
  BY Facts DEF FlushStart, SinkTyped
<1>2. /\ thread' = Woken(a) /\ flush' = [flush EXCEPT ![a] = "start"]
      /\ UNCHANGED <<live, el, binVars, d>>
      /\ flushes' = flushes + 1
  BY DEF FlushStart
<1>3. /\ s.need /\ ~s.have /\ s.async = AsyncOf(a) /\ s.active = ActiveOf(a) /\ s.flushing
  BY SinkFieldsOf DEF SinkFields
<1> HIDE DEF s
<1>4. /\ sink'[a] = s /\ flush'[a] = "start" /\ DOMAIN sink' = DOMAIN sink
      /\ \A x \in Children \ {a} : sink'[x] = sink[x] /\ flush'[x] = flush[x]
  BY <1>1, <1>2, Facts DEF SinkTyped
<1>5. /\ StreamingOf(a)' = Seen(a)!WokenStreaming /\ SeekingOf(a)' = "start"
      /\ \A x \in Children \ {a} : thread'[x] = thread[x]
  BY <1>2, <1>4, WokenSeen DEF SeekingOf
<1>6. \A x \in Children : el'[x] = el[x] /\ (StartingOf(x)' <=> StartingOf(x))
  BY <1>2 DEF StartingOf, binVars
<1>7. Seen(a)!SameDriver /\ \A x \in Children \ {a} : Seen(x)!Aside
  BY <1>2, <1>4, <1>5, <1>6, ThreadSeen
<1>8. Seen(a)!Sink(s.need, s.have, s.async, s.active, s.flushing)
  BY <1>4, SinkBecomes
<1>9. Seen(a)!Sink(TRUE, FALSE, AsyncOf(a), ActiveOf(a), TRUE)
  BY <1>3, <1>8 DEF Seen!Sink
<1>10. /\ Seen(a)!SameState /\ Seen(a)!SameBin /\ Seen(a)!SameLists
       /\ Seen(a)!Threads(Seen(a)!WokenStreaming, "start")
  BY <1>2, <1>5, ChildStateStays, BinStays, ListsStay DEF Seen!Threads
<1>11. sought' /\ Seen(a)!Idle
  <2>1. flushes' # 0 /\ flushes' > 0
    BY <1>2
  <2>2. LockedSeeks
    BY <2>1 DEF Calm
  <2> QED
    BY <2>1, <2>2 DEF FlushStart, StateLockFree, Seen!Idle, dpc, sought
<1>12. /\ SeekingOf(a) = "none" /\ ActiveOf(a) /\ ~FlushingOf(a) /\ Seen(a)!Unlocked
       /\ noLive' <=> noLive
       /\ LiveOf(a)' <=> LiveOf(a)
  BY <1>2, UnlockedSeen DEF FlushStart, SeekingOf, ActiveOf, FlushingOf, noLive, LiveOf
<1>13. Seen(a)!SeekStarts
  BY <1>7, <1>9, <1>10, <1>11, <1>12 DEF Seen!SeekStarts
<1> QED
  BY <1>7, <1>13 DEF StepAt, Seen!ChildStep

LEMMA FlushLosesSeen ==
  ASSUME IInv, NEW a \in Children, FlushLoses(a)
  PROVE  StepAt(a)
<1> DEFINE s == [sink[a] EXCEPT !.async = TRUE]
           e == el[a]
           n == IF e.return # "FAILURE" /\ Settled(e) THEN Lost(e) ELSE e
           f == IF e.return = "FAILURE" THEN "stop" ELSE "post"
<1>1. sink' = [sink EXCEPT ![a] = s]
  BY Facts DEF FlushLoses, SinkTyped
<1>2. /\ el' = [el EXCEPT ![a] = n] /\ flush' = [flush EXCEPT ![a] = f]
      /\ UNCHANGED <<live, binVars, d, thread, flushes>>
  BY DEF FlushLoses, appVars
<1>3. /\ s.need = NeedOf(a) /\ s.have = HaveOf(a) /\ s.async /\ s.active = ActiveOf(a)
      /\ s.flushing = FlushingOf(a)
  BY SinkFieldsOf DEF SinkFields
<1> HIDE DEF s, n, f
<1>4. Sound(e) /\ a # Bin
  BY Facts, BinAssumption
<1>5. /\ sink'[a] = s /\ flush'[a] = f /\ DOMAIN sink' = DOMAIN sink
      /\ el'[a] = n /\ el'[Bin] = el[Bin]
      /\ \A x \in Children \ {a} : /\ sink'[x] = sink[x] /\ flush'[x] = flush[x]
                                   /\ el'[x] = el[x]
  BY <1>1, <1>2, <1>4, Facts DEF SinkTyped
<1>6. \A x \in Children : StartingOf(x)' <=> StartingOf(x)
  BY <1>2 DEF StartingOf, binVars
<1>7. Seen(a)!SameDriver /\ \A x \in Children \ {a} : Seen(x)!Aside
  BY <1>2, <1>5, <1>6, ThreadSeen
<1>8. Seen(a)!Sink(s.need, s.have, s.async, s.active, s.flushing)
  BY <1>5, SinkBecomes
<1>9. Seen(a)!Sink(NeedOf(a), HaveOf(a), TRUE, ActiveOf(a), FlushingOf(a))
  BY <1>3, <1>8 DEF Seen!Sink
<1>10. Seen(a)!SameElse
  BY <1>2, <1>5, ElseStays
<1>11. Seen(a)!Threads(StreamingOf(a), IF ReturnOf(a) = "FAILURE" THEN "stop" ELSE "post")
  BY <1>2, <1>5 DEF Seen!Threads, StreamingOf, SeekingOf, ReturnOf, f
<1>12. SeekingOf(a) = "start" /\ StreamingOf(a) = "idle"
  BY DEF FlushLoses, SeekingOf, StreamingOf
<1>13. Settled(e) <=> Seen(a)!ChildSettled
  BY SameStates DEF Settled, Seen!ChildSettled, PendingOf
<1>14. CASE e.return = "FAILURE" \/ ~Settled(e)
  <2>1. Seen(a)!SameState
    BY <1>5, <1>14, ChildStateStays DEF n
  <2>2. Seen(a)!SeekLoses
    BY <1>7, <1>9, <1>10, <1>11, <1>12, <1>13, <1>14, <2>1 DEF Seen!SeekLoses, ReturnOf
  <2> QED
    BY <1>7, <2>2 DEF StepAt, Seen!ChildStep
<1>15. CASE e.return # "FAILURE" /\ Settled(e)
  <2> DEFINE lost == IF e.current > PAUSED THEN PAUSED ELSE e.current
  <2>1. n = [e EXCEPT !.current = lost, !.next = lost, !.pending = lost, !.return = "ASYNC"]
    BY <1>15 DEF n, Lost
  <2>2. lost = Seen(a)!LostState(CurrentOf(a))
    BY SameStates DEF Seen!LostState, CurrentOf
  <2> HIDE DEF lost
  <2>3. Seen(a)!Child(lost, lost, lost, TargetOf(a), "ASYNC")
    BY <1>4, <1>5, <2>1
    DEF Sound, Elements, Seen!Child, CurrentOf, NextOf, PendingOf, TargetOf, ReturnOf
  <2>4. Seen(a)!SeekLoses
    BY <1>7, <1>9, <1>10, <1>11, <1>12, <1>13, <1>15, <2>2, <2>3 DEF Seen!SeekLoses, ReturnOf
  <2> QED
    BY <1>7, <2>4 DEF StepAt, Seen!ChildStep
<1> QED
  BY <1>14, <1>15

LEMMA FlushPostsSeen ==
  ASSUME IInv, NEW a \in Children, FlushPosts(a)
  PROVE  StepAt(a)
<1>1. /\ flush' = [flush EXCEPT ![a] = "stop"] /\ PostAsyncStart(a)
      /\ UNCHANGED <<live, d, sink, thread, flushes>>
  BY DEF FlushPosts, appVars
<1>2. flush'[a] = "stop" /\ \A x \in Children \ {a} : flush'[x] = flush[x]
  BY <1>1, Facts DEF SinkTyped
<1>3. /\ Seen(a)!StartPosted
      /\ \A x \in Children : el'[x] = el[x]
      /\ \A x \in Children \ {a} : StartingOf(x)' <=> StartingOf(x)
  BY <1>1, StartPostedSeen
<1>4. Seen(a)!SameDriver /\ \A x \in Children \ {a} : Seen(x)!Aside
  BY <1>1, <1>2, <1>3, ThreadSeen
<1>5. Seen(a)!SameState /\ Seen(a)!SameSink /\ Seen(a)!SameSettings
  BY <1>1, <1>3, ChildStateStays, SinkStateStays, ListsStay
<1>6. SeekingOf(a) = "post" /\ Seen(a)!Threads(StreamingOf(a), "stop")
  BY <1>1, <1>2 DEF FlushPosts, Seen!Threads, StreamingOf, SeekingOf
<1>7. Seen(a)!SeekPosts
  BY <1>3, <1>4, <1>5, <1>6 DEF Seen!SeekPosts
<1> QED
  BY <1>4, <1>7 DEF StepAt, Seen!ChildStep

LEMMA FlushStopSeen ==
  ASSUME IInv, NEW a \in Children, FlushStop(a)
  PROVE  StepAt(a)
<1> DEFINE f == IF sink[a].active THEN FALSE ELSE sink[a].flushing
           s == [sink[a] EXCEPT !.flushing = f]
<1>1. sink' = [sink EXCEPT ![a] = s]
  BY Facts DEF FlushStop, SinkTyped
<1>2. /\ flush' = [flush EXCEPT ![a] = "none"]
      /\ UNCHANGED <<live, el, binVars, d, thread, flushes>>
  BY DEF FlushStop, appVars
<1>3. /\ s.need = NeedOf(a) /\ s.have = HaveOf(a) /\ s.async = AsyncOf(a)
      /\ s.active = ActiveOf(a)
      /\ s.flushing <=> FlushingOf(a) /\ ~ActiveOf(a)
  BY SinkFieldsOf DEF SinkFields
<1> HIDE DEF s
<1>4. /\ sink'[a] = s /\ flush'[a] = "none" /\ DOMAIN sink' = DOMAIN sink
      /\ \A x \in Children \ {a} : sink'[x] = sink[x] /\ flush'[x] = flush[x]
  BY <1>1, <1>2, Facts DEF SinkTyped
<1>5. \A x \in Children : el'[x] = el[x] /\ (StartingOf(x)' <=> StartingOf(x))
  BY <1>2 DEF StartingOf, binVars
<1>6. Seen(a)!SameDriver /\ \A x \in Children \ {a} : Seen(x)!Aside
  BY <1>2, <1>4, <1>5, ThreadSeen
<1>7. Seen(a)!Sink(s.need, s.have, s.async, s.active, s.flushing)
  BY <1>4, SinkBecomes
<1>8. Seen(a)!Sink(NeedOf(a), HaveOf(a), AsyncOf(a), ActiveOf(a), FlushingOf(a) /\ ~ActiveOf(a))
  BY <1>3, <1>7 DEF Seen!Sink
<1>9. Seen(a)!SameState /\ Seen(a)!SameElse /\ Seen(a)!Threads(StreamingOf(a), "none")
  BY <1>2, <1>4, ChildStateStays, ElseStays DEF Seen!Threads, StreamingOf, SeekingOf
<1>10. SeekingOf(a) = "stop" /\ StreamingOf(a) = "idle"
  BY DEF FlushStop, SeekingOf, StreamingOf
<1>11. Seen(a)!SeekStops
  BY <1>6, <1>8, <1>9, <1>10 DEF Seen!SeekStops
<1> QED
  BY <1>6, <1>11 DEF StepAt, Seen!ChildStep

-----------------------------------------------------------------------------
(* The steps, by what they are about. *)
LEMMA DroppedSeen ==
  ASSUME UNCHANGED <<live, el, binVars, d, sinkVars, flushes>>, NEW c \in Children
  PROVE  Seen(c)!BinStep
<1>1. /\ Seen(c)!SameChild /\ Seen(c)!SameBin /\ Seen(c)!SameLists /\ Seen(c)!SameDriver
      /\ Seen(c)!SameSettings
  BY ChildViewStays, BinStays, ListsStay, DriverStays DEF sinkVars
<1>2. Seen(c)!Dropped
  BY <1>1 DEF Seen!Dropped, Seen!SameLists
<1> QED
  BY <1>2 DEF Seen!BinStep

LEMMA DriveSeen ==
  ASSUME IInv, Calm, Views, Drive
  PROVE  (\A c \in Children : Seen(c)!BinStep) \/ (\E a \in Children : StepAt(a))
<1>1. ASSUME \E k \in BagToSet(conts) : Continue(k)
      PROVE  \A c \in Children : Seen(c)!BinStep
  BY <1>1, ContinueSeen
<1>2. CASE BinStart \/ BinFinish \/ BinReturned
  BY <1>2, BinStartSeen, BinFinishSeen, BinReturnedSeen
<1>3. CASE \E c \in Children : PickChild(c)
  BY <1>3, PickSeen
<1>4. ASSUME d.child \in Children,
             \/ CheckChild \/ SetChild \/ ChildReturned \/ ChildSame \/ ChildStarts
             \/ ChildStops \/ LiveChange \/ SinkPauses \/ SinkPlays \/ SinkUnplays
             \/ SinkDeactivates \/ SinkUnpauses
      PROVE  \E a \in Children : StepAt(a)
  <2>1. PICK a \in Children : d.child = a
    BY <1>4
  <2> QED
    BY <1>4, <2>1, CheckSeen, SetChildSeen, ChildReturnedSeen, ChildSameSeen, ChildStartsSeen,
       ChildStopsSeen, LiveChangeSeen, SinkPausesSeen, SinkPlaysSeen, SinkUnplaysSeen,
       SinkDeactivatesSeen, SinkUnpausesSeen
<1>5. CASE \/ CheckChild \/ SetChild \/ ChildReturned \/ ChildSame \/ ChildStarts
           \/ ChildStops \/ LiveChange \/ SinkPauses \/ SinkPlays \/ SinkUnplays
           \/ SinkDeactivates \/ SinkUnpauses
  <2>1. d.pc \in {"check", "set", "change", "drain", "returned"}
    BY <1>5
    DEF CheckChild, SetChild, ChildReturned, ChildSame, ChildStarts, ChildStops, LiveChange,
        SinkPauses, SinkPlays, SinkUnplays, SinkDeactivates, SinkUnpauses, Transition
  <2> QED
    BY <1>4, <1>5, <2>1, Facts DEF DriverTyped
<1> QED
  BY <1>1, <1>2, <1>3, <1>5 DEF Drive

LEMMA CalmBefore ==
  ASSUME flushes \in Nat, errors \in Nat, [Next]_vars
  PROVE  /\ flushes' \in Nat /\ errors' \in Nat
         /\ Calm' => Calm
<1>1. flushes' \in {flushes, flushes + 1} /\ errors' \in {errors, errors + 1}
  <2>1. CASE Next
    BY <2>1
    DEF Next, Drive, Stream, Flush, SetState, Continue, BinStart, PickChild, CheckChild, SetChild,
        ChildReturned, ChildSame, ChildStarts, ChildStops, LiveChange, SinkPauses, SinkPlays,
        SinkUnplays, SinkDeactivates, SinkUnpauses, BinFinish, BinReturned, Arrive, Resume,
        PostDone, PostError, FlushStart, FlushLoses, FlushPosts, FlushStop, GetState, GetReturns,
        appVars
  <2>2. CASE UNCHANGED vars
    BY <2>2 DEF vars, appVars
  <2> QED
    BY <2>1, <2>2
<1>2. errors' = 0 => errors = 0
  BY <1>1
<1>3. flushes' = 0 => flushes = 0
  BY <1>1
<1> QED
  BY <1>1, <1>2, <1>3 DEF Calm

LEMMA NextSeen ==
  ASSUME IInv, flushes \in Nat, errors \in Nat, Calm, Calm', Views, [Next]_vars
  PROVE  (\A c \in Children : Seen(c)!BinStep) \/ (\E a \in Children : StepAt(a))
<1>1. CASE \E state \in Goals : SetState(state)
  BY <1>1, SetStateSeen, BinAssumption DEF SetState
<1>2. CASE Drive
  BY <1>2, DriveSeen
<1>3. ASSUME NEW c \in Children, Stream(c) \/ FlushStart(c) \/ Flush(c)
      PROVE  StepAt(c)
  BY <1>3, ArriveSeen, PostDoneSeen, ResumeSeen, FlushStartSeen, FlushLosesSeen, FlushPostsSeen,
     FlushStopSeen
  DEF Stream, Flush
<1>4. ASSUME NEW c \in Children, PostError(c)
      PROVE  FALSE
  <2>1. errors' = errors + 1
    BY <1>4 DEF PostError
  <2> QED
    BY <2>1 DEF Calm
<1>5. CASE GetState \/ GetReturns \/ UNCHANGED vars
  BY <1>5, DroppedSeen DEF GetState, GetReturns, vars, appVars
<1> QED
  BY <1>1, <1>2, <1>3, <1>4, <1>5 DEF Next

-----------------------------------------------------------------------------
(* The inductive invariant of a run without errors, and without seeks that *)
(* do not take the STATE_LOCK: whatever child is looked at, ViewInv.       *)
Level ==
  /\ flushes \in Nat /\ errors \in Nat
  /\ Calm => Views

LEMMA InitLevel == Init => Level
<1> SUFFICES ASSUME Init PROVE Level
  OBVIOUS
<1>1. /\ el[Bin] = NewElement /\ \A c \in Children : el[c] = NewElement
      /\ sink = [c \in Children |-> NewSink]
      /\ thread = [c \in Children |-> "idle"] /\ flush = [c \in Children |-> "none"]
      /\ starts = {} /\ d = Driver("idle") /\ ~polling /\ ~pendingDone
      /\ flushes = 0 /\ errors = 0
  BY DEF Init
<1>2. BagToSet(conts) = {}
  BY DEF Init, EmptyBag, BagToSet, SetToBag
<1>3. ASSUME NEW c \in Children PROVE Seen(c)!ViewInv
  <2>1. /\ bcurrent = NULL /\ bpending = VOID_PENDING /\ btarget = NULL /\ breturn = "SUCCESS"
        /\ CurrentOf(c) = NULL /\ PendingOf(c) = VOID_PENDING /\ ReturnOf(c) = "SUCCESS"
    BY <1>1, <1>3
    DEF NewElement, bcurrent, bpending, btarget, breturn, CurrentOf, PendingOf, ReturnOf
  <2>2. /\ ~NeedOf(c) /\ ~HaveOf(c) /\ ~AsyncOf(c) /\ ~ActiveOf(c) /\ ~FlushingOf(c)
        /\ StreamingOf(c) = "idle" /\ SeekingOf(c) = "none"
    BY <1>1, <1>3
    DEF NewSink, NeedOf, HaveOf, AsyncOf, ActiveOf, FlushingOf, StreamingOf, SeekingOf
  <2>3. ~polling /\ ~pendingDone /\ ~kept /\ ~sought /\ noStart /\ ~StartingOf(c)
    BY <1>1, <1>2 DEF kept, sought, noStart, StartingOf
  <2>4. dpc = "idle" /\ ~dasync /\ ~dnoPreroll /\ ~dfailed
    BY <1>1 DEF Driver, dpc, dasync, dnoPreroll, dfailed
  <2> QED
    BY <1>3, <2>1, <2>2, <2>3, <2>4, InitView
<1> QED
  BY <1>1, <1>3 DEF Level, Views

(* Whoever starts to play in a bin without live sources has all others at  *)
(* least in PAUSED.                                                        *)
PlaysInTime ==
  live = {} => \A c \in Sinks :
    el[c].current # PLAYING /\ el'[c].current = PLAYING
      => \A s \in Sinks : el[s].current >= PAUSED

LEMMA NextLevel ==
  ASSUME IInv, IInv', Level, [Next]_vars
  PROVE  Level' /\ (Calm' => PlaysInTime)
<1>1. flushes' \in Nat /\ errors' \in Nat /\ (Calm' => Calm)
  BY CalmBefore DEF Level
<1> SUFFICES ASSUME Calm' PROVE Views' /\ PlaysInTime
  BY <1>1 DEF Level
<1>2. Calm /\ Views
  BY <1>1 DEF Level
<1>3. \A c \in Children : Seen(c)!ViewTyped /\ Seen(c)!ViewTyped' /\ Seen(c)!ViewInv
  <2>1. \A c \in Children : Seen(c)!ViewTyped
    BY ViewsTyped
  <2>2. (\A c \in Children : Seen(c)!ViewTyped)'
    BY ViewsTyped, PTL
  <2> QED
    BY <1>2, <2>1, <2>2 DEF Views
<1>4. ASSUME NEW c \in Children
      PROVE  Seen(c)!Plays <=> noLive /\ el[c].current # PLAYING /\ el'[c].current = PLAYING
  BY SameStates DEF Seen!Plays, CurrentOf
<1>5. CASE \A c \in Children : Seen(c)!BinStep
  <2>1. \A c \in Children : Seen(c)!ViewInv' /\ ~Seen(c)!Plays
    BY <1>3, <1>5, BinStepsView
  <2> QED
    BY <1>4, <2>1 DEF Views, PlaysInTime, Sinks, noLive
<1>6. CASE \E a \in Children : StepAt(a)
  <2>1. PICK a \in Children : StepAt(a)
    BY <1>6
  <2>2. Seen(a)!ViewInv' /\ (Seen(a)!Plays => CurrentOf(a) >= PAUSED)
    BY <1>3, <2>1, ChildStepsView DEF StepAt
  <2>3. ASSUME NEW x \in Children \ {a}
        PROVE  Seen(x)!ViewInv' /\ (Seen(a)!Plays => CurrentOf(x) >= PAUSED) /\ ~Seen(x)!Plays
    <3>1. Seen(x)!Aside
      BY <2>1 DEF StepAt
    <3>2. Seen(x)!ViewInv' /\ (Seen(a)!Plays => CurrentOf(x) >= PAUSED)
      BY <1>3, <2>1, <3>1, OthersView DEF StepAt
    <3>3. CurrentOf(x)' = CurrentOf(x)
      BY <3>1 DEF Seen!Aside, Seen!SameChild, Seen!SameState, Seen!Child
    <3> QED
      BY <3>2, <3>3 DEF Seen!Plays
  <2>4. Views'
    BY <2>2, <2>3 DEF Views
  <2>5. Seen(a)!Plays => \A c \in Children : el[c].current >= PAUSED
    BY <2>2, <2>3 DEF CurrentOf
  <2> QED
    BY <1>4, <2>3, <2>4, <2>5 DEF PlaysInTime, Sinks, noLive
<1> QED
  BY <1>2, <1>5, <1>6, NextSeen DEF Level

(* At every moment of a calm run every child is where the bin, or the      *)
(* driver that goes through the children, takes it to be.                  *)
THEOREM ChildrenKeepLevel == Spec => []Level
<1>1. IInv /\ IInv' /\ Level /\ [Next]_vars => Level'
  BY NextLevel
<1> QED
  BY <1>1, InitLevel, Invariance, PTL DEF Spec

LEMMA CompleteLevels ==
  ASSUME IInv, Level, Complete, flushes = 0 \/ LockedSeeks, NEW c \in Children
  PROVE  /\ el[c].current >= el[Bin].current
         /\ flushes = 0 => el[c].current <= el[Bin].current
<1>1. Seen(c)!ViewTyped /\ Seen(c)!ViewInv
  BY ViewsTyped DEF Level, Complete, Calm, Views
<1>2. dpc = "idle" /\ bpending = VOID_PENDING /\ breturn = "SUCCESS" /\ SeekingOf(c) = "none"
  BY DEF Complete, AtRest, Settled, dpc, bpending, breturn, SeekingOf
<1>3. CurrentOf(c) >= bcurrent /\ (~sought => CurrentOf(c) <= bcurrent)
  BY <1>1, <1>2, SettledView
<1>4. flushes = 0 => ~sought
  BY DEF sought
<1> QED
  BY <1>3, <1>4 DEF CurrentOf, bcurrent

(* A bin that says its change succeeded has no child that lags behind,     *)
(* however the streaming threads' commits, their messages, the driver, the *)
(* continuations and seeks of the application interleave, in every run     *)
(* without seeks or with seeks that take the bin's STATE_LOCK, as those    *)
(* through gst_element_send_event do.                                      *)
THEOREM NobodyBehind == Spec => [](flushes = 0 \/ LockedSeeks => NoneBehind)
<1>1. IInv /\ Level => (flushes = 0 \/ LockedSeeks => NoneBehind)
  BY CompleteLevels DEF NoneBehind
<1> QED
  BY <1>1, ChildrenKeepLevel, Invariance, PTL

(* Without seeks no child is ahead of it either, whatever was asked for    *)
(* while a change was under way.                                           *)
THEOREM NobodyAhead == Spec => []NoneAhead
<1>1. IInv /\ Level => NoneAhead
  BY CompleteLevels DEF NoneAhead
<1> QED
  BY <1>1, ChildrenKeepLevel, Invariance, PTL

(* Playback starts together: in a bin without live sources no sink plays   *)
(* before all have prerolled, in every run without errors and without      *)
(* seeks that do not take the bin's STATE_LOCK.                            *)
THEOREM PlaybackTogether == Spec /\ []Calm => PlayTogether
<1>1. IInv /\ IInv' /\ Level /\ Calm' /\ [Next]_vars
        => [live = {} => \A c \in Sinks :
              el[c].current # PLAYING /\ el'[c].current = PLAYING
                => \A s \in Sinks : el[s].current >= PAUSED]_vars
  BY NextLevel DEF PlaysInTime
<1> QED
  BY <1>1, ChildrenKeepLevel, Invariance, PTL DEF Spec, PlayTogether
=============================================================================
