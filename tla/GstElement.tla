----------------------------- MODULE GstElement -----------------------------
(***************************************************************************)
(* The state fields every GstElement has (gstelement.c) and what the steps *)
(* of a state change do to them under the element's object lock: current,  *)
(* next and pending state, the target last asked for, and the return of    *)
(* the last change.  GstBin composes a bin and its children from these.    *)
(***************************************************************************)
EXTENDS Integers

VOID_PENDING == 0
NULL    == 1
READY   == 2
PAUSED  == 3
PLAYING == 4

States == {NULL, READY, PAUSED, PLAYING}
Returns == {"FAILURE", "SUCCESS", "ASYNC", "NO_PREROLL"}

Elements ==
  [current : States, next : States \cup {VOID_PENDING},
   pending : States \cup {VOID_PENDING}, target : States, return : Returns]

NewElement == [current |-> NULL, next |-> VOID_PENDING, pending |-> VOID_PENDING,
               target |-> NULL, return |-> "SUCCESS"]

(* GST_STATE_GET_NEXT: one state nearer to the one asked for. *)
GetNext(state, pending) ==
  IF state < pending THEN state + 1
  ELSE IF state > pending THEN state - 1 ELSE state

Settled(e) == e.pending = VOID_PENDING

-----------------------------------------------------------------------------
(* gst_element_set_state_func.  A failed change is forgotten first.        *)
Forgiven(e) ==
  IF e.return = "FAILURE"
  THEN [e EXCEPT !.next = VOID_PENDING, !.pending = VOID_PENDING, !.return = "SUCCESS"]
  ELSE e

(* A change upwards that goes on, or one to that very state, only gets a   *)
(* new aim.                                                                *)
IsBusy(e, state) ==
  LET f == Forgiven(e)
  IN  ~Settled(f) /\ (f.pending <= state \/ f.next = state)

(* From where the next transition starts: an asynchronous change upwards   *)
(* is turned round from the state it was about to reach.                   *)
StartOf(e, state) ==
  LET f == Forgiven(e)
  IN  IF ~Settled(f) /\ f.next > state /\ f.return = "ASYNC" THEN f.next ELSE f.current

(* The element as the busy exit and as the start of the transition leave   *)
(* it; the return is only overwritten when there is something to do.       *)
Aimed(e, state) ==
  [Forgiven(e) EXCEPT !.target = state, !.pending = state, !.return = "ASYNC"]

Started(e, state) ==
  LET from == StartOf(e, state)
      to   == GetNext(from, state)
  IN  [Forgiven(e) EXCEPT !.target = state, !.pending = state, !.next = to,
                          !.return = IF from # to THEN "ASYNC" ELSE @]

-----------------------------------------------------------------------------
(* gst_element_continue_state: commit next; Continues tells whether there  *)
(* is another transition to do.                                            *)
Commits(e) == ~Settled(e)
Continues(e) == Commits(e) /\ e.pending # e.next

Committed(e, ret) ==
  IF ~Commits(e)
  THEN [e EXCEPT !.return = ret]
  ELSE IF Continues(e)
  THEN [e EXCEPT !.current = e.next, !.next = GetNext(e.next, e.pending), !.return = "ASYNC"]
  ELSE [e EXCEPT !.current = e.next, !.next = VOID_PENDING, !.pending = VOID_PENDING,
                 !.return = ret]

(* gst_element_abort_state *)
Aborted(e) == IF Settled(e) THEN e ELSE [e EXCEPT !.return = "FAILURE"]

(* gst_element_lost_state, and the same in bin_handle_async_start: back to *)
(* PAUSED at most, with that state pending again.                          *)
Lost(e) ==
  LET state == IF e.current > PAUSED THEN PAUSED ELSE e.current
  IN  [e EXCEPT !.current = state, !.next = state, !.pending = state, !.return = "ASYNC"]
=============================================================================
