----------------------------- MODULE GstBinView -----------------------------
(***************************************************************************)
(* A bin and one of its children, as GstBin_proofs looks at them: each     *)
(* field of the bin, of the driver and of that child is a variable of its  *)
(* own, the other children are left out, and of lists and counters only    *)
(* what decides something is kept.  First what holds of such a view at     *)
(* every moment (ViewInv), by the stages of the driver; then what the      *)
(* steps of GstBin do to one, in the names of GstBin's actions; last what  *)
(* another child's step may do (Aside).  GstBin_proofs shows that each     *)
(* step of GstBin is one of these in every view, and that these keep       *)
(* ViewInv.                                                                *)
(***************************************************************************)
EXTENDS GstElement

VARIABLES
  bcurrent, bnext, bpending, btarget, breturn,
  polling, pendingDone, kept, sought, noLive, noStart,
  dpc, dfrom, dto, dres, dasync, dnoPreroll, dfailed, dcfrom, dcto,
  scurrent, snext, spending, starget, sreturn,
  at, todo, current, next, pending, target, return,
  need, have, async, active, flushing, streaming, seeking, start, isLive

(* What IInv says of a view. *)
ViewTyped ==
  /\ bcurrent \in States /\ bnext \in States \cup {VOID_PENDING}
  /\ bpending \in States \cup {VOID_PENDING} /\ btarget \in States
  /\ breturn \in Returns
  /\ bpending # VOID_PENDING => bnext # VOID_PENDING
  /\ dpc \in {"idle", "start", "child", "check", "set", "change", "drain", "returned",
               "bin_returned"}
  /\ dfrom \in States /\ dto \in States /\ dcfrom \in States /\ dcto \in States
  /\ dres \in Returns
  /\ dasync \in BOOLEAN /\ dnoPreroll \in BOOLEAN /\ dfailed \in BOOLEAN
  /\ scurrent \in States /\ snext \in States \cup {VOID_PENDING}
  /\ spending \in States \cup {VOID_PENDING} /\ starget \in States
  /\ sreturn \in Returns
  /\ current \in States /\ next \in States \cup {VOID_PENDING}
  /\ pending \in States \cup {VOID_PENDING} /\ target \in States
  /\ return \in Returns
  /\ pending # VOID_PENDING => next # VOID_PENDING
  /\ need \in BOOLEAN /\ have \in BOOLEAN /\ async \in BOOLEAN
  /\ active \in BOOLEAN /\ flushing \in BOOLEAN
  /\ streaming \in {"idle", "wait", "woken", "post"}
  /\ seeking \in {"none", "start", "post", "stop"}
  /\ noLive => ~isLive
  /\ noStart => ~start
  /\ isLive => /\ streaming = "idle" /\ seeking = "none" /\ ~start
               /\ ~need /\ ~have /\ ~async /\ ~active /\ ~flushing
  /\ dpc = "drain" /\ at => ~isLive
  /\ bpending # VOID_PENDING =>
       /\ bnext <= bcurrent \/ bnext <= bpending
       /\ bpending <= btarget
       /\ bnext <= bcurrent + 1
       /\ btarget >= PAUSED =>
            /\ bpending >= PAUSED
            /\ bnext >= PAUSED \/ (bnext = READY /\ bcurrent <= READY)
  /\ bpending = VOID_PENDING /\ btarget >= PAUSED => bcurrent >= PAUSED
  /\ dpc = "idle" /\ bpending # VOID_PENDING /\ breturn # "FAILURE"
       => bnext >= PAUSED \/ (bnext = READY /\ bcurrent <= READY)

(* The stages of the driver, for the bin and for the child of the view. *)
Idle == dpc = "idle"
Driving == dpc \in {"child", "check", "set", "change", "drain", "returned"}
Underway == dpc = "start" \/ Driving
Ending == dpc = "bin_returned"
AtChild == at /\ dpc \in {"check", "set", "change", "drain", "returned"}
Changing == at /\ dpc \in {"change", "drain", "returned"}
Awaits == dpc = "start" \/ (Driving /\ todo /\ ~Changing)
Done == Driving /\ ~todo /\ ~dfailed

(* The state an element is on its way to; the states between which the     *)
(* children are while the bin changes or waits.                            *)
BinSettled == bpending = VOID_PENDING
ChildSettled == pending = VOID_PENDING
Goal == IF ChildSettled \/ return = "FAILURE" THEN current ELSE pending
Ceiling == IF BinSettled THEN bcurrent ELSE bnext
Floor == IF BinSettled \/ bnext = PLAYING THEN bcurrent ELSE bnext
Lower == IF dfrom <= dto THEN dfrom ELSE dto
Upper == IF dfrom <= READY THEN READY ELSE IF dfrom <= dto THEN dto ELSE dfrom

(* After a seek a child that the bin does not count on any more may be     *)
(* ahead, down to PAUSED.                                                  *)
Strays == sought /\ bcurrent >= PAUSED /\ Ceiling >= PAUSED
Clean == noLive /\ ~sought

(* The bin's own fields at each stage of the driver. *)
BinAtStages ==
  /\ polling <=> Driving
  /\ pendingDone => polling
  /\ dfailed => dpc = "child"
  /\ BinSettled => bcurrent = btarget
  /\ Idle /\ ~BinSettled /\ breturn # "FAILURE"
       => bnext >= PAUSED /\ btarget > READY
  /\ breturn = "FAILURE" => bcurrent = NULL
  /\ Underway => /\ dto = GetNext(dfrom, btarget)
                 /\ ~BinSettled => bnext = dto
                 /\ dfrom < dto => dfrom = bcurrent
  /\ ~BinSettled /\ (Underway \/ Ending) => bpending = btarget
  /\ Ending /\ ~BinSettled /\ bnext < bpending
       => \/ bcurrent < bnext
          \/ bcurrent = bnext /\ bnext = PAUSED /\ btarget = PLAYING /\ noStart
  /\ kept => /\ btarget = PLAYING /\ bcurrent >= PAUSED
             /\ Idle /\ ~BinSettled => bcurrent <= bnext
  /\ dasync \/ pendingDone => dto >= PAUSED
  /\ BinSettled /\ Underway => dto = PAUSED
  /\ dfailed \/ (Ending /\ dres = "FAILURE") => bcurrent = NULL /\ ~BinSettled

(* Its return, and what the driver makes of it. *)
BinReturnsFit ==
  /\ BinSettled => breturn \in {"SUCCESS", "NO_PREROLL"}
  /\ breturn = "NO_PREROLL" => bcurrent = PAUSED
  /\ ~BinSettled => breturn \in {"ASYNC", "FAILURE"} \/ bnext = bcurrent
  /\ ~BinSettled /\ bcurrent = PLAYING /\ bnext = PLAYING
       => ~Idle /\ (Ending => dres # "ASYNC")
  /\ Ending /\ dres = "ASYNC" => BinSettled \/ bnext >= PAUSED
  /\ Underway /\ dfrom = dto => dfrom = PLAYING \/ breturn # "ASYNC"
  /\ Underway /\ dfrom >= PAUSED /\ dto >= PAUSED => bcurrent >= PAUSED
  /\ dnoPreroll => dto = PAUSED
  /\ Ending /\ dres = "NO_PREROLL" => Ceiling = PAUSED
  /\ dnoPreroll \/ (Ending /\ dres = "NO_PREROLL") \/ breturn = "NO_PREROLL"
       => ~noLive
  /\ BinSettled /\ Underway /\ ~sought => ~noLive

(* Where the child is between two drivers, before the driver comes, while  *)
(* it is there, and after; live sources that wait return NO_PREROLL.       *)
ChildAtStages ==
  /\ breturn = "FAILURE" \/ dfailed \/ (Ending /\ dres = "FAILURE") => Goal <= READY
  /\ Idle /\ breturn # "FAILURE"
       => /\ Goal >= Floor \/ (seeking = "post" /\ Goal >= PAUSED)
          /\ Goal <= Ceiling \/ Strays
  /\ Idle /\ BinSettled /\ breturn = "SUCCESS"
       => /\ ChildSettled \/ seeking = "post" \/ current >= bcurrent
          /\ ChildSettled \/ sought
  /\ Awaits => /\ Goal >= Lower
               /\ Goal <= Upper \/ (sought /\ dfrom >= PAUSED)
  /\ Changing => Goal = dto
  /\ Done => /\ Goal >= dto \/ (dasync /\ dto = PLAYING /\ Goal >= dfrom)
             /\ Goal <= dto \/ (sought /\ dto >= PAUSED /\ dfrom >= PAUSED)
             /\ ~dasync => ChildSettled
             /\ isLive /\ dto = PAUSED /\ ~sought => dnoPreroll
  /\ Ending /\ dres # "FAILURE"
       => /\ Goal >= Floor
          /\ dres # "ASYNC" /\ ~BinSettled => Goal >= bnext
          /\ Goal <= Ceiling \/ Strays
  /\ Ending /\ dres = "SUCCESS" => ChildSettled
  /\ Ending /\ dres # "NO_PREROLL" /\ BinSettled /\ ~sought
       => ChildSettled /\ ~start
  /\ BinSettled /\ (Underway \/ Ending) => current >= bcurrent

(* When the bin does not wait for the child's ASYNC_DONE. *)
NotAwaited ==
  /\ (Idle \/ Ending) /\ BinSettled /\ bcurrent = PLAYING => ~start
  /\ Ending /\ dres = "SUCCESS" /\ ~BinSettled /\ bnext = PLAYING => ~start
  /\ Underway /\ dfrom = PLAYING /\ dto = PLAYING => ~start
  /\ Clean /\ \/ (Idle \/ Ending) /\ ~BinSettled /\ bnext = PLAYING
              \/ kept
              \/ Underway /\ (dto = PLAYING \/ dfrom = dto)
              \/ dpc = "start" /\ dfrom = PLAYING
              \/ Ending /\ dres = "SUCCESS"
              \/ Idle /\ BinSettled
              \/ Driving /\ Awaits /\ dto >= PAUSED
       => ~start
  /\ Done /\ ~dasync /\ (Clean \/ dto = PLAYING) => ~start
  /\ at /\ (dpc \in {"set", "change"} \/ (dpc = "returned" /\ dres # "ASYNC"))
       /\ (dto = PLAYING \/ (Clean /\ dto = PAUSED))
       => ~start
  /\ start => Goal >= PAUSED /\ (Driving => dto # READY)

(* The driver at the child: what it has read, and how far the change of    *)
(* the child has come.                                                     *)
DriverAtChild ==
  /\ AtChild => todo
  /\ at /\ dpc = "check"
       => \/ /\ current = scurrent /\ next = snext /\ pending = spending
             /\ target = starget /\ return = sreturn
          \/ /\ spending \in {PAUSED, PLAYING} /\ current = spending
             /\ next = VOID_PENDING /\ pending = VOID_PENDING
             /\ target = starget /\ return = "SUCCESS"
  /\ Changing
       => /\ target = dto /\ dcto = GetNext(dcfrom, dto)
          /\ dcfrom >= Lower
          /\ dcfrom <= Upper \/ (sought /\ dfrom >= PAUSED)
  /\ Changing /\ ChildSettled
       => /\ dcto = dto
          /\ dpc = "change" => \/ streaming = "post" /\ need
                               \/ streaming = "wait" /\ have
  /\ Changing /\ ~ChildSettled
       => /\ dcfrom = current \/ dcfrom >= PAUSED
          /\ next = dcto
          /\ dcfrom # dcto => return = "ASYNC"
          /\ dcfrom = dcto => return = IF isLive /\ dcfrom = PAUSED
                                           THEN "NO_PREROLL" ELSE "SUCCESS"
  /\ at /\ dpc = "drain" => dcfrom = PAUSED /\ dcto = READY /\ flushing
  /\ at /\ dpc = "returned"
       => /\ dres = "FAILURE" => dcfrom = NULL /\ dcto = READY
          /\ dres = "ASYNC" => dto >= PAUSED /\ (ChildSettled \/ async)
          /\ dres = "NO_PREROLL" <=> isLive /\ dcto = PAUSED

(* A child that changes without a driver is a sink on its way up, whose    *)
(* ASYNC_START the bin has or is to have; one that failed is stopped.      *)
ChildReturnsFit ==
  /\ ~Changing /\ ~ChildSettled /\ return # "FAILURE"
       => /\ ~isLive /\ next >= PAUSED /\ next <= pending /\ return = "ASYNC"
          /\ btarget <= READY \/ seeking = "post" \/ start
  /\ return = "FAILURE" => current = NULL
  /\ ChildSettled => return \in {"SUCCESS", "NO_PREROLL"}
  /\ return = "NO_PREROLL" => isLive /\ current = PAUSED
  /\ isLive /\ ChildSettled /\ current = PAUSED => return = "NO_PREROLL"

(* The fields of GstBaseSink and the sink's threads. *)
Prerolling == need /\ (have \/ streaming = "post")

SinkAtStages ==
  /\ ~isLive
       => (active <=> IF Changing
                        THEN \/ dpc = "change" /\ dcfrom >= PAUSED
                             \/ dpc = "returned" /\ dcto >= PAUSED
                        ELSE Goal >= PAUSED)
  /\ active /\ async
       => /\ ~ChildSettled
          /\ btarget <= READY \/ seeking = "post" \/ start
               \/ (Changing /\ pending < PAUSED)
          /\ Changing => dcfrom # dcto
          /\ at /\ dpc = "returned" => dres = "ASYNC" \/ dto < PAUSED
  /\ ~isLive /\ ChildSettled /\ active /\ ~Changing /\ current = PAUSED
       => need /\ (Prerolling \/ seeking = "start")
  /\ ~isLive /\ at /\ dpc = "returned" /\ dto = PAUSED /\ dcto = PAUSED
       /\ (ChildSettled \/ dres = "SUCCESS")
       => Prerolling
  /\ ~isLive /\ at /\ dpc = "change" /\ dcfrom = PAUSED /\ dcto >= PAUSED
       => Prerolling
  /\ ~isLive /\ active /\ flushing => seeking # "none" \/ (Changing /\ dto <= READY)

ThreadsAtStages ==
  /\ streaming # "idle" => active \/ (at /\ dpc = "drain" /\ streaming = "woken")
  /\ streaming = "post"
       => /\ ~async
          /\ ~Changing => ChildSettled
          /\ btarget > READY => start
  /\ seeking # "none"
       => /\ Idle /\ active /\ sought /\ flushing
          /\ streaming = "idle" \/ (streaming = "woken" /\ seeking = "start")

(* Without live sources: who plays plays with all others in PAUSED.        *)
Together ==
  noLive =>
    /\ \/ kept
       \/ Underway /\ PLAYING \in {dfrom, dto}
       \/ (Idle \/ Ending) /\ ~BinSettled /\ bnext = PLAYING
       => current >= PAUSED
    /\ ~Changing /\ ~ChildSettled /\ pending = PLAYING
         => /\ Idle \/ Ending => ~BinSettled /\ bnext = PLAYING
            /\ Awaits => PLAYING \in {dfrom, dto}
            /\ Driving /\ ~todo => dto = PLAYING
    /\ seeking = "post" /\ ~ChildSettled
         => current >= PAUSED \/ start \/ btarget <= READY

ViewInv ==
  /\ BinAtStages /\ BinReturnsFit /\ ChildAtStages /\ NotAwaited
  /\ DriverAtChild /\ ChildReturnsFit /\ SinkAtStages /\ ThreadsAtStages
  /\ Together

-----------------------------------------------------------------------------
(* What the steps of GstBin do to a view: those of the bin to that of any  *)
(* child, all others to that of the child they are about.                  *)
Child(c, n, p, t, r) ==
  current' = c /\ next' = n /\ pending' = p /\ target' = t /\ return' = r

Sink(n, h, as, ac, f) ==
  /\ need' <=> n
  /\ have' <=> h
  /\ async' <=> as
  /\ active' <=> ac
  /\ flushing' <=> f

Threads(stream, seek) == streaming' = stream /\ seeking' = seek

TheBin(c, n, p, t, r) ==
  bcurrent' = c /\ bnext' = n /\ bpending' = p /\ btarget' = t /\ breturn' = r

SameState == Child(current, next, pending, target, return)
SameSink == Sink(need, have, async, active, flushing)
SameThreads == Threads(streaming, seeking)
SameChild == SameState /\ SameSink /\ SameThreads
SameBin == TheBin(bcurrent, bnext, bpending, btarget, breturn)

SameStarts == (start' <=> start) /\ (noStart' <=> noStart)
SameDone == (polling' <=> polling) /\ (pendingDone' <=> pendingDone)
SameLists == SameStarts /\ SameDone /\ (kept' <=> kept)

SameCourse ==
  /\ dfrom' = dfrom /\ dto' = dto
  /\ dasync' <=> dasync
  /\ dnoPreroll' <=> dnoPreroll
  /\ dfailed' <=> dfailed

SameTurn == (at' <=> at) /\ (todo' <=> todo)

SameDriver ==
  /\ SameCourse /\ SameTurn
  /\ dpc' = dpc /\ dres' = dres /\ dcfrom' = dcfrom /\ dcto' = dcto
  /\ scurrent' = scurrent /\ snext' = snext /\ spending' = spending
  /\ starget' = starget /\ sreturn' = sreturn

SameSettings == (sought' <=> sought) /\ (noLive' <=> noLive) /\ (isLive' <=> isLive)

-----------------------------------------------------------------------------
(* gst_element_set_state, by its conditions on the fields it reads.        *)
Known(anReturn, state) == IF anReturn = "FAILURE" THEN VOID_PENDING ELSE state

BusyFor(aNext, aPending, anReturn, state) ==
  /\ Known(anReturn, aPending) # VOID_PENDING
  /\ aPending <= state \/ aNext = state

FromFor(aCurrent, aNext, aPending, anReturn, state) ==
  IF anReturn = "ASYNC" /\ aPending # VOID_PENDING /\ aNext > state
  THEN aNext ELSE aCurrent

ReturnFor(from, state, anReturn) ==
  IF from # state THEN "ASYNC" ELSE IF anReturn = "FAILURE" THEN "SUCCESS" ELSE anReturn

-----------------------------------------------------------------------------
(* The application and the pool.  A driver that holds the STATE_LOCK has   *)
(* it alone, and seeks come under it or never.                             *)
Locked == Idle /\ (sought => seeking = "none")

Begins(from, to) ==
  /\ dpc' = "start" /\ dfrom' = from /\ dto' = to
  /\ ~dasync' /\ ~dnoPreroll' /\ ~dfailed'

Asked(state) ==
  /\ Locked /\ state \in States
  /\ kept' => kept /\ state = btarget
  /\ SameChild /\ SameStarts /\ SameDone /\ SameSettings

AskedBusy(state) ==
  /\ Asked(state) /\ BusyFor(bnext, bpending, breturn, state)
  /\ TheBin(bcurrent, bnext, state, state, "ASYNC")
  /\ SameDriver

AskedFrom(state, from) ==
  /\ Asked(state) /\ ~BusyFor(bnext, bpending, breturn, state)
  /\ from = FromFor(bcurrent, bnext, bpending, breturn, state)
  /\ TheBin(bcurrent, GetNext(from, state), state, state, ReturnFor(from, state, breturn))
  /\ Begins(from, GetNext(from, state))

Continued ==
  /\ Locked /\ kept
  /\ TheBin(bcurrent, GetNext(bcurrent, btarget), btarget, btarget, "ASYNC")
  /\ Begins(bcurrent, GetNext(bcurrent, btarget))
  /\ SameChild /\ SameStarts /\ SameDone /\ SameSettings

Dropped ==
  /\ kept' => kept
  /\ SameChild /\ SameBin /\ SameStarts /\ SameDone /\ SameDriver /\ SameSettings

-----------------------------------------------------------------------------
(* The driver of the bin.                                                  *)
BinStarts ==
  /\ dpc = "start" /\ dpc' = "child" /\ polling' /\ todo' /\ SameCourse
  /\ start' <=> start /\ dto # READY
  /\ noStart' <=> noStart \/ dto = READY
  /\ pendingDone' <=> pendingDone
  /\ kept' <=> kept
  /\ SameChild /\ SameBin /\ SameSettings

BReached == IF bnext # PLAYING THEN bnext ELSE bcurrent
Ignored(busy) == breturn = "FAILURE" \/ busy \/ BinSettled

(* bin_handle_async_done; a continuation is kept if it goes on.            *)
DoneHandled(busy) ==
  \/ Ignored(busy) /\ SameBin /\ (kept' <=> kept)
  \/ /\ ~Ignored(busy) /\ BReached = btarget
     /\ TheBin(btarget, VOID_PENDING, VOID_PENDING, btarget, "SUCCESS")
     /\ kept' <=> kept
  \/ /\ ~Ignored(busy) /\ BReached # btarget
     /\ TheBin(BReached, GetNext(bcurrent, btarget), btarget, btarget, "ASYNC")

Parent == IF dfrom = dto THEN breturn ELSE "SUCCESS"
Result ==
  IF dfailed \/ Parent = "FAILURE" THEN "FAILURE"
  ELSE IF dnoPreroll THEN "NO_PREROLL"
  ELSE IF dasync THEN "ASYNC" ELSE Parent

(* The end of gst_bin_change_state_func, by what all children together     *)
(* have come to.                                                           *)
BinFinishes ==
  /\ dpc = "child" /\ (dfailed \/ ~todo)
  /\ dfrom = PLAYING /\ dto = PLAYING => noStart
  /\ BinSettled /\ ~sought /\ ~dfailed /\ dto = PAUSED /\ ~noLive => dnoPreroll
  /\ dpc' = "bin_returned" /\ dres' = Result
  /\ ~polling' /\ ~pendingDone' /\ ~dasync' /\ ~dnoPreroll' /\ ~dfailed'
  /\ SameChild /\ SameStarts /\ SameSettings

BinFinishesDone ==
  /\ BinFinishes
  /\ Result = "ASYNC" \/ pendingDone
  /\ btarget > READY /\ noStart
  /\ DoneHandled(FALSE)

BinFinishesOpen ==
  /\ BinFinishes
  /\ (Result = "ASYNC" \/ pendingDone) /\ btarget > READY => ~noStart
  /\ SameBin /\ (kept' <=> kept)

Ends == dpc' = "idle" /\ ~dasync' /\ ~dnoPreroll' /\ ~dfailed'
SameAround == SameChild /\ SameLists /\ SameSettings
Delayed(aTarget) == dres = "ASYNC" /\ aTarget > READY
Outcome == IF dres = "ASYNC" THEN "SUCCESS" ELSE dres

BinFails ==
  /\ Ending /\ dres = "FAILURE"
  /\ TheBin(bcurrent, bnext, bpending, btarget, IF BinSettled THEN breturn ELSE "FAILURE")
  /\ Ends /\ SameAround

BinWaits == Ending /\ Delayed(btarget) /\ Ends /\ SameBin /\ SameAround

BinCommits ==
  /\ Ending /\ dres # "FAILURE" /\ ~Delayed(btarget)
  /\ \/ BinSettled /\ TheBin(bcurrent, bnext, bpending, btarget, Outcome)
     \/ /\ ~BinSettled /\ bpending = bnext
        /\ TheBin(bnext, VOID_PENDING, VOID_PENDING, btarget, Outcome)
  /\ Ends /\ SameAround

BinGoesOn ==
  /\ Ending /\ dres # "FAILURE" /\ ~Delayed(btarget)
  /\ ~BinSettled /\ bpending # bnext
  /\ TheBin(bnext, GetNext(bnext, bpending), bpending, btarget, "ASYNC")
  /\ Begins(bnext, GetNext(bnext, bpending)) /\ SameAround

-----------------------------------------------------------------------------
(* The driver at a child.                                                  *)
SameElse == SameBin /\ SameLists /\ SameSettings

Collects(result) ==
  /\ dpc' = "child" /\ ~at' /\ ~todo' /\ dfrom' = dfrom /\ dto' = dto
  /\ dasync' <=> dasync \/ result = "ASYNC"
  /\ dnoPreroll' <=> dnoPreroll \/ result = "NO_PREROLL"
  /\ dfailed' <=> result = "FAILURE"

Picked ==
  /\ dpc = "child" /\ ~dfailed /\ todo
  /\ dpc' = IF return = "NO_PREROLL" THEN "set" ELSE "check"
  /\ at' /\ (todo' <=> todo) /\ SameCourse
  /\ scurrent' = current /\ snext' = next /\ spending' = pending
  /\ starget' = target /\ sreturn' = return
  /\ SameChild /\ SameElse

Checked == dpc = "check" /\ at /\ SameChild /\ SameElse
Required ==
  \/ dto = PLAYING \/ spending # VOID_PENDING
  \/ bpending > scurrent /\ dto > scurrent
  \/ bpending < scurrent /\ dto < scurrent

CheckedSkips == Checked /\ ~Required /\ Collects(sreturn)
CheckedWaits == Checked /\ start /\ dto > dfrom /\ Collects("ASYNC")
CheckedSets ==
  /\ Checked /\ Required /\ ~(start /\ dto > dfrom)
  /\ dpc' = "set" /\ SameCourse /\ SameTurn

ChildAsked ==
  /\ dpc = "set" /\ at
  /\ SameSink /\ SameThreads /\ SameElse

ChildAskedBusy ==
  /\ ChildAsked /\ BusyFor(next, pending, return, dto)
  /\ Child(current, next, dto, dto, "ASYNC")
  /\ Collects("ASYNC")

ChildAskedFrom(from) ==
  /\ ChildAsked /\ ~BusyFor(next, pending, return, dto)
  /\ from = FromFor(current, next, pending, return, dto)
  /\ Child(current, GetNext(from, dto), dto, dto, ReturnFor(from, dto, return))
  /\ dpc' = "change" /\ dcfrom' = from /\ dcto' = GetNext(from, dto)
  /\ SameCourse /\ SameTurn

-----------------------------------------------------------------------------
(* change_state of a child.                                                *)
Transits(from, to) == dpc = "change" /\ at /\ dcfrom = from /\ dcto = to

Returned(ret) ==
  /\ dpc' = "returned" /\ dres' = ret /\ dcfrom' = dcfrom /\ dcto' = dcto
  /\ SameCourse /\ SameTurn

ChildStays ==
  /\ dpc = "change" /\ at /\ dcfrom = dcto
  /\ Returned(return) /\ SameChild /\ SameElse

ChildStarted == Transits(NULL, READY) /\ Returned("SUCCESS") /\ SameChild /\ SameElse
ChildBroken == Transits(NULL, READY) /\ Returned("FAILURE") /\ SameChild /\ SameElse

ChildStopped == Transits(READY, NULL) /\ Returned("SUCCESS") /\ SameChild /\ SameElse

LiveChanges ==
  /\ dpc = "change" /\ at /\ isLive
  /\ dcfrom = PAUSED \/ dcto = PAUSED
  /\ dcfrom # dcto
  /\ Returned(IF dcto = PAUSED THEN "NO_PREROLL" ELSE "SUCCESS")
  /\ SameChild /\ SameElse

(* bin_handle_async_start *)
StartIgnored ==
  breturn = "FAILURE" \/ polling \/ ~BinSettled \/ breturn = "NO_PREROLL"
LostState(state) == IF state > PAUSED THEN PAUSED ELSE state

StartPosted ==
  /\ SameDone
  /\ kept' <=> kept
  /\ \/ btarget <= READY /\ SameStarts /\ SameBin
     \/ btarget > READY /\ start' /\ ~noStart' /\ StartIgnored /\ SameBin
     \/ /\ btarget > READY /\ start' /\ ~noStart' /\ ~StartIgnored
        /\ LET lost == LostState(bcurrent) IN TheBin(lost, lost, lost, btarget, "ASYNC")

DonePosted ==
  /\ polling' <=> polling
  /\ \/ btarget <= READY /\ SameLists /\ SameBin
     \/ btarget > READY /\ ~start' /\ ~noStart' /\ SameDone /\ (kept' <=> kept) /\ SameBin
     \/ /\ btarget > READY /\ ~start' /\ noStart' /\ DoneHandled(polling)
        /\ pendingDone' <=> pendingDone \/ (polling /\ breturn # "FAILURE")

WokenStreaming == IF streaming = "wait" THEN "woken" ELSE streaming
Unlocked == streaming # "post"

GoesAsync ==
  /\ SameState /\ SameThreads /\ StartPosted /\ Returned("ASYNC") /\ SameSettings

SinkReadies ==
  /\ Transits(READY, PAUSED) /\ ~isLive /\ Unlocked
  /\ Sink(TRUE, FALSE, TRUE, TRUE, FALSE) /\ GoesAsync

SinkUnprerolled ==
  /\ \/ Transits(PAUSED, PLAYING)
     \/ Transits(PLAYING, PAUSED) /\ target > READY
  /\ ~isLive /\ Unlocked /\ ~have
  /\ Sink(TRUE, have, TRUE, active, flushing) /\ GoesAsync

SinkStays == SameState /\ Returned("SUCCESS") /\ SameElse

SinkPlaysOn ==
  /\ Transits(PAUSED, PLAYING) /\ ~isLive /\ Unlocked /\ have
  /\ Sink(FALSE, have, FALSE, active, flushing) /\ Threads(WokenStreaming, seeking)
  /\ SinkStays

SinkHolds ==
  /\ Transits(PLAYING, PAUSED) /\ ~isLive /\ Unlocked /\ (~have => target <= READY)
  /\ Sink(TRUE, have, async /\ ~have, active, flushing) /\ SameThreads /\ SinkStays

SinkEmpties ==
  /\ Transits(PAUSED, READY) /\ ~isLive /\ Unlocked
  /\ Sink(TRUE, FALSE, async, FALSE, TRUE) /\ Threads(WokenStreaming, seeking)
  /\ dpc' = "drain" /\ dcfrom' = dcfrom /\ dcto' = dcto /\ SameCourse /\ SameTurn
  /\ SameState /\ SameElse

SinkDrained ==
  /\ dpc = "drain" /\ at /\ streaming = "idle" /\ seeking # "post"
  /\ Returned("SUCCESS")
  /\ DonePosted \/ (SameBin /\ SameLists)
  /\ SameChild /\ SameSettings

-----------------------------------------------------------------------------
(* gst_element_change_state of a child.                                    *)
ChildFails ==
  /\ dpc = "returned" /\ at /\ dres = "FAILURE"
  /\ Child(current, next, pending, target, IF ChildSettled THEN return ELSE "FAILURE")
  /\ Collects("FAILURE") /\ SameSink /\ SameThreads /\ SameElse

ChildWaits ==
  /\ dpc = "returned" /\ at /\ Delayed(target)
  /\ Collects("ASYNC") /\ SameChild /\ SameElse

ChildCommits ==
  /\ dpc = "returned" /\ at /\ dres # "FAILURE" /\ ~Delayed(target)
  /\ \/ ChildSettled /\ Child(current, next, pending, target, Outcome)
     \/ /\ ~ChildSettled /\ pending = next
        /\ Child(next, VOID_PENDING, VOID_PENDING, target, Outcome)
  /\ Collects(Outcome) /\ SameSink /\ SameThreads /\ SameElse

ChildGoesOn ==
  /\ dpc = "returned" /\ at /\ dres # "FAILURE" /\ ~Delayed(target)
  /\ ~ChildSettled /\ pending # next
  /\ Child(next, GetNext(next, pending), pending, target, "ASYNC")
  /\ dpc' = "change" /\ dcfrom' = next /\ dcto' = GetNext(next, pending)
  /\ SameCourse /\ SameTurn /\ SameSink /\ SameThreads /\ SameElse

-----------------------------------------------------------------------------
(* The streaming thread.                                                   *)
Goes(stream) == Threads(stream, seeking) /\ SameDriver /\ SameSettings

Taken ==
  \/ /\ streaming = "idle" /\ seeking # "post"
     /\ active /\ ~flushing /\ need
  \/ streaming = "woken" /\ ~flushing

StreamWaits ==
  /\ Taken /\ need
  /\ async => ChildSettled /\ current = PAUSED
  /\ Sink(TRUE, TRUE, FALSE, active, flushing)
  /\ Goes("wait") /\ SameState /\ SameBin /\ SameLists

StreamCommits ==
  /\ Taken /\ need /\ async /\ pending >= PAUSED
  /\ Child(pending, VOID_PENDING, VOID_PENDING, target, "SUCCESS")
  /\ Sink(pending # PLAYING, FALSE, FALSE, active, flushing)
  /\ Goes("post") /\ SameBin /\ SameLists

StreamGoes ==
  /\ streaming = "woken" /\ (flushing \/ ~need)
  /\ Sink(need, FALSE, async, active, flushing)
  /\ Goes("idle") /\ SameState /\ SameBin /\ SameLists

StreamRefused ==
  /\ Taken /\ need /\ async /\ pending < PAUSED /\ ~(ChildSettled /\ current = PAUSED)
  /\ Sink(FALSE, FALSE, FALSE, active, flushing \/ ~ChildSettled \/ current # PLAYING)
  /\ Goes("idle") /\ SameState /\ SameBin /\ SameLists

StreamPosts ==
  /\ streaming = "post" /\ DonePosted
  /\ Sink(need, need, async, active, flushing)
  /\ Goes(IF need THEN "wait" ELSE "idle") /\ SameState

(* A seek. *)
SeekStarts ==
  /\ seeking = "none" /\ Idle /\ active /\ ~flushing /\ Unlocked
  /\ Sink(TRUE, FALSE, async, active, TRUE) /\ Threads(WokenStreaming, "start") /\ sought'
  /\ noLive' <=> noLive
  /\ isLive' <=> isLive
  /\ SameState /\ SameDriver /\ SameBin /\ SameLists

SeekLoses ==
  /\ seeking = "start" /\ streaming = "idle"
  /\ Sink(need, have, TRUE, active, flushing)
  /\ Threads(streaming, IF return = "FAILURE" THEN "stop" ELSE "post")
  /\ \/ (return = "FAILURE" \/ ~ChildSettled) /\ SameState
     \/ /\ return # "FAILURE" /\ ChildSettled
        /\ LET lost == LostState(current) IN Child(lost, lost, lost, target, "ASYNC")
  /\ SameDriver /\ SameElse

SeekPosts ==
  /\ seeking = "post" /\ Threads(streaming, "stop")
  /\ StartPosted /\ SameState /\ SameSink /\ SameDriver /\ SameSettings

SeekStops ==
  /\ seeking = "stop" /\ streaming = "idle"
  /\ Sink(need, have, async, active, flushing /\ ~active) /\ Threads(streaming, "none")
  /\ SameState /\ SameDriver /\ SameElse

-----------------------------------------------------------------------------
(* Another child meanwhile. *)
Aside ==
  /\ SameChild /\ (start' <=> start) /\ (isLive' <=> isLive) /\ (todo' <=> todo)
  /\ (at' <=> at) \/ dpc = "child"

(* Whoever starts to play, in a bin without live sources. *)
Plays == noLive /\ current # PLAYING /\ current' = PLAYING

(* The steps of the bin, and those of a child. *)
BinStep ==
  \/ \E state \in States : AskedBusy(state)
  \/ \E state, from \in States : AskedFrom(state, from)
  \/ Continued \/ Dropped \/ BinStarts \/ BinFinishesDone \/ BinFinishesOpen
  \/ BinFails \/ BinWaits \/ BinCommits \/ BinGoesOn

ChildStep ==
  \/ Picked \/ CheckedSkips \/ CheckedWaits \/ CheckedSets
  \/ ChildAskedBusy \/ (\E from \in States : ChildAskedFrom(from))
  \/ ChildStays \/ ChildStarted \/ ChildBroken \/ ChildStopped \/ LiveChanges
  \/ SinkReadies \/ SinkUnprerolled \/ SinkPlaysOn \/ SinkHolds \/ SinkEmpties
  \/ SinkDrained
  \/ ChildFails \/ ChildWaits \/ ChildCommits \/ ChildGoesOn
  \/ StreamWaits \/ StreamCommits \/ StreamGoes \/ StreamRefused \/ StreamPosts
  \/ SeekStarts \/ SeekLoses \/ SeekPosts \/ SeekStops
=============================================================================
