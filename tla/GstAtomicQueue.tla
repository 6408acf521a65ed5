--------------------------- MODULE GstAtomicQueue ---------------------------
(***************************************************************************)
(* The lock-free queue of gstatomicqueue.c, which GstBus and GstBufferPool *)
(* are built on.  Items are in a chain of arrays ("mems"); a writer that   *)
(* finds the last array full appends one twice as large, a reader that     *)
(* finds the first one empty moves on to the next.  Every read, write and  *)
(* compare-and-swap of shared memory is a step of its own.                 *)
(*                                                                         *)
(* Arrays are numbered in the order in which they enter the chain; the     *)
(* allocation of one that loses the race for tail_mem is invisible.  The   *)
(* positions count up from 0 and never wrap here (2^32 in the code).       *)
(***************************************************************************)
EXTENDS Integers, FiniteSets, SequencesExt

CONSTANTS
  Producers, Consumers, \* threads that push; threads that pop, peek, measure
  MinSize,              \* slots of the first array (16 in new_queue_mem)
  MaxPush,              \* bound: pushes of all producers together
  MaxLength,            \* bound: items clients have in the queue at once
  NULL

ASSUME ThreadsAssumption == IsFiniteSet(Producers) /\ IsFiniteSet(Consumers)
ASSUME SizeAssumption == MinSize \in Nat \ {0} /\ {MaxPush, MaxLength} \subseteq Nat

Threads == Producers \cup Consumers
Items == Producers \X (1..MaxPush)      \* the k-th item pushed by a producer

VARIABLES
  mems,                 \* the arrays: size (a mask), head, tails, next, slots
  head_mem, tail_mem, free_list,
  pushed,               \* pushes begun by each producer
  op, pc, loc,          \* the call a thread is in, its next step, its locals
  popped,               \* history: items popped, in order
  sawEmpty              \* history: whether the queue was empty during a call

shared == <<mems, head_mem, tail_mem, free_list>>
vars == <<shared, pushed, op, pc, loc, popped, sawEmpty>>

NoLocals == [mem |-> 0, head |-> 0, tail |-> 0, item |-> NULL]

(* new_queue_mem: all positions at pos, all slots empty. *)
NewMem(slots, pos) ==
  [size |-> slots - 1, head |-> pos, tail_write |-> pos, tail_read |-> pos,
   next |-> NULL, array |-> [i \in 0..slots - 1 |-> NULL]]

(* gst_atomic_queue_new *)
Init ==
  /\ mems = <<NewMem(MinSize, 0)>>
  /\ head_mem = 1 /\ tail_mem = 1
  /\ free_list = {}
  /\ pushed = [p \in Producers |-> 0]
  /\ op = [t \in Threads |-> "none"]
  /\ pc = [t \in Threads |-> "idle"]
  /\ loc = [t \in Threads |-> NoLocals]
  /\ popped = <<>>
  /\ sawEmpty = [t \in Threads |-> FALSE]

-----------------------------------------------------------------------------
(* The queue as its users see it: the revealed slots of the chain. *)
Slot(mem, pos) == pos % (mem.size + 1)

Revealed(i) ==
  LET mem == mems[i]
  IN  [k \in 1..mem.tail_read - mem.head |-> mem.array[Slot(mem, mem.head + k - 1)]]

Contents == FlattenSeq([k \in 1..Len(mems) - head_mem + 1 |-> Revealed(head_mem + k - 1)])

-----------------------------------------------------------------------------
GoTo(t, to) ==
  /\ pc' = [pc EXCEPT ![t] = to]
  /\ UNCHANGED op

Remember(t, var, value) == loc' = [loc EXCEPT ![t][var] = value]

Mem(t) == mems[loc[t].mem]

(* A step that reads shared memory into a local variable of t, and one that*)
(* writes to the arrays (m is what they become).                           *)
Read(t, from, to, var, value) ==
  /\ pc[t] = from
  /\ GoTo(t, to)
  /\ Remember(t, var, value)
  /\ UNCHANGED <<shared, pushed, popped>>

Write(t, from, to, m) ==
  /\ pc[t] = from
  /\ GoTo(t, to)
  /\ mems' = m
  /\ UNCHANGED <<head_mem, tail_mem, free_list, pushed, loc, popped>>

Begin(t, call, first) ==
  /\ pc[t] = "idle"
  /\ pc' = [pc EXCEPT ![t] = first]
  /\ op' = [op EXCEPT ![t] = call]

(* Mutants: an item revealed before the writers ahead of it are done, a    *)
(* pop and a push that do not check that no one was faster, an array taken *)
(* for empty one item early.                                               *)
RevealUnordered(t) ==
  Write(t, "reveal", "return", [mems EXCEPT ![loc[t].mem].tail_read = loc[t].tail + 1])

TakeUnchecked(t) ==
  /\ pc[t] = "take"
  /\ GoTo(t, "return")
  /\ mems' = [mems EXCEPT ![loc[t].mem].head = loc[t].head + 1]
  /\ popped' = Append(popped, loc[t].item)
  /\ UNCHANGED <<head_mem, tail_mem, free_list, pushed, loc>>

ReserveUnchecked(t) ==
  Write(t, "reserve", "store", [mems EXCEPT ![loc[t].mem].tail_write = loc[t].tail + 1])

PopTailOffByOne(t) ==
  Read(t, "pop_tail", IF loc[t].head + 1 < Mem(t).tail_read THEN "load" ELSE "pop_next",
       "tail", Mem(t).tail_read)

-----------------------------------------------------------------------------
(* gst_atomic_queue_push *)
Push(t) ==
  /\ t \in Producers
  /\ MapThenSumSet(LAMBDA p : pushed[p], Producers) < MaxPush
  /\ Len(Contents) + Cardinality({p \in Producers : op[p] = "push"}) < MaxLength
  /\ Begin(t, "push", "push_mem")
  /\ pushed' = [pushed EXCEPT ![t] = @ + 1]
  /\ Remember(t, "item", <<t, pushed[t] + 1>>)
  /\ UNCHANGED <<shared, popped>>

PushTailMem(t) == Read(t, "push_mem", "push_head", "mem", tail_mem)

PushHead(t) == Read(t, "push_head", "push_tail", "head", Mem(t).head)

PushTail(t) ==
  LET tail == Mem(t).tail_write
      full == tail - loc[t].head > Mem(t).size
  IN  Read(t, "push_tail", IF full THEN "grow" ELSE "reserve", "tail", tail)

(* The array is full: swap tail_mem for a new one of twice the size. *)
Grow(t) ==
  /\ pc[t] = "grow"
  /\ GoTo(t, IF tail_mem = loc[t].mem THEN "link" ELSE "push_mem")
  /\ IF tail_mem = loc[t].mem
     THEN /\ mems' = Append(mems, NewMem(2 * (Mem(t).size + 1), loc[t].tail))
          /\ tail_mem' = Len(mems) + 1
     ELSE UNCHANGED <<mems, tail_mem>>
  /\ UNCHANGED <<head_mem, free_list, pushed, loc, popped>>

(* Only now can readers find it. *)
Link(t) ==
  Write(t, "link", "push_mem", [mems EXCEPT ![loc[t].mem].next = loc[t].mem + 1])

Reserve(t) ==
  /\ pc[t] = "reserve"
  /\ IF Mem(t).tail_write = loc[t].tail
     THEN Write(t, "reserve", "store", [mems EXCEPT ![loc[t].mem].tail_write = @ + 1])
     ELSE Write(t, "reserve", "push_mem", mems)

Store(t) ==
  Write(t, "store", "reveal",
        [mems EXCEPT ![loc[t].mem].array[Slot(Mem(t), loc[t].tail)] = loc[t].item])

(* The busy wait for the writers of the slots before this one. *)
Reveal(t) ==
  /\ pc[t] = "reveal" /\ Mem(t).tail_read = loc[t].tail
  /\ Write(t, "reveal", "return", [mems EXCEPT ![loc[t].mem].tail_read = @ + 1])

-----------------------------------------------------------------------------
(* gst_atomic_queue_pop and gst_atomic_queue_peek find the first array     *)
(* that is not empty in the same way.                                      *)
Pop(t) ==
  /\ t \in Consumers
  /\ \E call \in {"pop", "peek"} : Begin(t, call, "pop_mem")
  /\ UNCHANGED <<shared, pushed, loc, popped>>

PopHeadMem(t) == Read(t, "pop_mem", "pop_head", "mem", head_mem)

PopHead(t) == Read(t, "pop_head", "pop_tail", "head", Mem(t).head)

PopTail(t) ==
  Read(t, "pop_tail", IF loc[t].head # Mem(t).tail_read THEN "load" ELSE "pop_next",
       "tail", Mem(t).tail_read)

(* Empty: without a next array the result is NULL. *)
PopNext(t) ==
  Read(t, "pop_next", IF Mem(t).next = NULL THEN "return" ELSE "swing", "item", NULL)

(* Swap head_mem for the next array; whoever succeeds puts the old array   *)
(* on the free list (add_to_free_list, whose swap is the only shared step).*)
SwingHead(t) ==
  /\ pc[t] = "swing"
  /\ GoTo(t, IF head_mem = loc[t].mem THEN "free" ELSE "pop_mem")
  /\ head_mem' = IF head_mem = loc[t].mem THEN Mem(t).next ELSE head_mem
  /\ UNCHANGED <<mems, tail_mem, free_list, pushed, loc, popped>>

AddToFreeList(t) ==
  /\ pc[t] = "free"
  /\ GoTo(t, "pop_mem")
  /\ free_list' = free_list \cup {loc[t].mem}
  /\ UNCHANGED <<mems, head_mem, tail_mem, pushed, loc, popped>>

Load(t) ==
  Read(t, "load", IF op[t] = "peek" THEN "return" ELSE "take",
       "item", Mem(t).array[Slot(Mem(t), loc[t].head)])

Take(t) ==
  LET first == Mem(t).head = loc[t].head
  IN  /\ pc[t] = "take"
      /\ GoTo(t, IF first THEN "return" ELSE "pop_mem")
      /\ mems' = IF first THEN [mems EXCEPT ![loc[t].mem].head = @ + 1] ELSE mems
      /\ popped' = IF first THEN Append(popped, loc[t].item) ELSE popped
      /\ UNCHANGED <<head_mem, tail_mem, free_list, pushed, loc>>

-----------------------------------------------------------------------------
(* gst_atomic_queue_length: the head of the first array, then the tail of  *)
(* the last; their difference is the result.                               *)
Length(t) ==
  /\ t \in Consumers
  /\ Begin(t, "length", "len_head_mem")
  /\ UNCHANGED <<shared, pushed, loc, popped>>

LengthHeadMem(t) == Read(t, "len_head_mem", "len_head", "mem", head_mem)

LengthHead(t) == Read(t, "len_head", "len_tail_mem", "head", Mem(t).head)

LengthTailMem(t) == Read(t, "len_tail_mem", "len_tail", "mem", tail_mem)

LengthTail(t) == Read(t, "len_tail", "return", "tail", Mem(t).tail_read)

-----------------------------------------------------------------------------
Return(t) ==
  /\ pc[t] = "return"
  /\ pc' = [pc EXCEPT ![t] = "idle"]
  /\ op' = [op EXCEPT ![t] = "none"]
  /\ loc' = [loc EXCEPT ![t] = NoLocals]
  /\ UNCHANGED <<shared, pushed, popped>>

(* The steps of a call a thread is in. *)
Continue(t) ==
  \/ PushTailMem(t) \/ PushHead(t) \/ PushTail(t) \/ Grow(t) \/ Link(t)
  \/ Reserve(t) \/ Store(t) \/ Reveal(t)
  \/ PopHeadMem(t) \/ PopHead(t) \/ PopTail(t) \/ PopNext(t) \/ SwingHead(t)
  \/ AddToFreeList(t) \/ Load(t) \/ Take(t)
  \/ LengthHeadMem(t) \/ LengthHead(t) \/ LengthTailMem(t) \/ LengthTail(t)
  \/ Return(t)

(* History: whether the queue was empty since a pop or a peek began. *)
Observe ==
  sawEmpty' = [t \in Threads |->
                 op'[t] \in {"pop", "peek"} /\ (sawEmpty[t] \/ Contents' = <<>>)]

Next ==
  /\ \E t \in Threads : Push(t) \/ Pop(t) \/ Length(t) \/ Continue(t)
  /\ Observe

Spec == Init /\ [][Next]_vars

-----------------------------------------------------------------------------
TypeOK ==
  /\ \A i \in DOMAIN mems :
       LET mem == mems[i]
       IN  /\ {mem.head, mem.tail_read, mem.tail_write} \subseteq Nat
           /\ mem.head <= mem.tail_read
           /\ mem.tail_read <= mem.tail_write
           /\ mem.tail_write <= mem.head + mem.size + 1
           /\ mem.next \in {NULL, i + 1}
           /\ mem.array \in [0..mem.size -> Items \cup {NULL}]
  /\ {head_mem, tail_mem} \subseteq DOMAIN mems
  /\ free_list \subseteq DOMAIN mems
  /\ pushed \in [Producers -> 0..MaxPush]
  /\ op \in [Threads -> {"none", "push", "pop", "peek", "length"}]
  /\ popped \in Seq(Items)
  /\ sawEmpty \in [Threads -> BOOLEAN]

(* All that went through the queue, in the order in which it came or will  *)
(* come out.                                                               *)
Passed == popped \o Contents

(* gst_atomic_queue_push, lines 390-394: a slot is not revealed before its *)
(* item is written, whatever other writers do; and pop never gives an item *)
(* twice, not even to two threads or after an array was left.              *)
NoneTwice == NULL \notin ToSet(Passed) /\ IsInjective(Passed)

(* gst_atomic_queue_pop: the items of one producer leave the queue in the  *)
(* order in which it pushed them.                                          *)
ProducerOrder ==
  \A i, j \in DOMAIN Passed :
    /\ i < j /\ NULL \notin {Passed[i], Passed[j]}
    /\ Passed[i][1] = Passed[j][1]
    => Passed[i][2] < Passed[j][2]

(* Both, of every interleaving of readers and writers.                     *)
OnceInOrder == NoneTwice /\ ProducerOrder

(* gst_atomic_queue_push, "Append @data to the tail of the queue": an item *)
(* whose push is over has been popped or can be found by the readers.      *)
Pushing(p, k) == k = pushed[p] /\ op[p] = "push"

NothingLost ==
  \A p \in Producers : \A k \in 1..pushed[p] :
    ~Pushing(p, k) => <<p, k>> \in ToSet(Passed)

(* It is not so (lines 367-383): a reader that saw an array empty leaves it*)
(* once a next one is linked, whatever was written into the array between  *)
(* the two steps.  What follows holds while the queue has not grown, or    *)
(* with one producer and no more items than the first array has room for.  *)
Alone == \E p \in Producers : \A q \in Producers \ {p} : pushed[q] = 0

Intact == Len(mems) = 1 \/ (Alone /\ MaxLength <= MinSize)

(* gst_atomic_queue_push and gst_atomic_queue_pop: nothing is lost then.   *)
NothingLostIntact == Intact => NothingLost

(* gst_atomic_queue_pop, "NULL when the queue is empty": the queue was     *)
(* empty at some moment of the call.                                       *)
EmptyPopJustified ==
  Intact => \A t \in Threads :
    pc[t] = "return" /\ op[t] \in {"pop", "peek"} /\ loc[t].item = NULL => sawEmpty[t]

(* gst_atomic_queue_push and gst_atomic_queue_pop: while the queue is      *)
(* intact, each step of a call is one of the abstract queue or invisible.  *)
Abstract == INSTANCE AbstractQueue WITH queue <- Contents, taken <- popped

ImplementsQueue ==
  Abstract!Init /\ [][Intact' => [Abstract!Next]_<<Contents, popped>>]_vars

-----------------------------------------------------------------------------
(* What the documentation says and the code does not keep, like NothingLost.*)

(* gst_atomic_queue_length, "the number of elements in the queue", a guint:*)
(* the difference is not negative.                                         *)
LengthNotNegative ==
  \A t \in Threads : pc[t] = "return" /\ op[t] = "length" => loc[t].tail >= loc[t].head

(* gst_atomic_queue_unref, "Unref @queue and free the memory": when no     *)
(* call is under way, gst_atomic_queue_free finds every array.             *)
EveryMemFreed ==
  (\A t \in Threads : pc[t] = "idle") => DOMAIN mems = {head_mem, tail_mem} \cup free_list
=============================================================================
