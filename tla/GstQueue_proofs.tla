-------------------------- MODULE GstQueue_proofs --------------------------
(***************************************************************************)
(* What goes through the queue element, for any limits, any number of      *)
(* calls, seeks and restarts: items leave in order and completely, nothing *)
(* from before a flush goes downstream after it, buffers go downstream     *)
(* under their own segment, and a query gets its own answer.               *)
(*                                                                         *)
(* The argument: the threads that flush and deactivate the queue go        *)
(* through phases in which the pads refuse data, the task is at rest and   *)
(* the upstream thread is out of the queue (Phases).  So the item that the *)
(* task holds and the items in the queue can be seen as one sequence, to   *)
(* which upstream appends and from which the task takes the first, that    *)
(* becomes empty between two flushes (Ordered, Fresh, Segmented).          *)
(***************************************************************************)
EXTENDS GstQueue, FiniteSetTheorems, SequenceTheorems, TLAPS

Items == [kind : {"none", "buffer", "segment", "eos", "query"},
          n : Nat, seg : Nat, id : Nat, gen : Nat]

Typed ==
  /\ items \in Seq(Items) /\ data \in Items /\ arg \in Items
  /\ {last_query, upSeg, downSeg, in, out, gen, calls, upsets, answers} \subseteq Nat
  /\ result \in {"OK", "FLUSHING", "EOS"}
  /\ fl \in {"idle", "start", "pause", "paused", "stop", "locked"}
  /\ st \in {"down", "srcActive", "up", "leaving", "stopTask", "join", "sinkInactive", "drain"}

Asking == up \in {"queryWait", "queryWoken"}

(* What a thread brings, and what the task does about it. *)
Steps ==
  /\ up = "call" => arg.kind \in {"buffer", "segment", "eos"}
  /\ up \in {"overrun", "wait", "woken", "running"} => arg.kind = "buffer"
  /\ up \in {"query", "queryWait", "queryWoken"} => arg.kind = "query"
  /\ lp = "query" => data.kind = "query" /\ srcresult = "OK"

Busy == {"push", "pushed", "query"}

(* The phases of a seek ... *)
SeekPhases ==
  /\ fl # "idle" => st = "up"
  /\ fl \in {"start", "pause", "paused", "stop"} => srcFlushing
  /\ fl \in {"pause", "paused", "stop", "locked"} => srcresult = "FLUSHING"
  /\ fl \in {"paused", "stop", "locked"} => task # "started"
  /\ fl \in {"stop", "locked"} => lp = "off"
  /\ fl = "locked" => up = "idle"

(* ... and of a restart of the element.                                    *)
Leaving == {"leaving", "stopTask", "join", "sinkInactive", "drain", "down"}

RestartPhases ==
  /\ st \in Leaving => srcFlushing
  /\ st \in Leaving \ {"leaving"} => srcresult = "FLUSHING"
  /\ st \in Leaving \ {"leaving", "stopTask"} => task = "stopped"
  /\ st \in {"sinkInactive", "drain", "down"} => lp = "off"
  /\ st \in {"sinkInactive", "drain", "down", "srcActive"} => sinkFlushing
  /\ st \in {"down", "srcActive"} => up = "idle"
  /\ st \in {"drain", "down", "srcActive"} => items = <<>>
  /\ st \in {"drain", "down"} => upSeg = 0 /\ downSeg = 0

Phases == Steps /\ SeekPhases /\ RestartPhases

(* The items of a sequence, of which the last was accepted as number n     *)
(* after number o was delivered.                                           *)
Ordered(w, o, n, lost) ==
  /\ o <= n
  /\ \A i \in 1..Len(w) : o < w[i].n /\ w[i].n <= n
  /\ \A i, j \in 1..Len(w) : i < j => w[i].n < w[j].n
  /\ ~lost => n = o + Len(w) /\ \A i \in 1..Len(w) : w[i].n = o + i

Fresh(w, g) == \A i \in 1..Len(w) : w[i].gen = g

(* Every item of a sequence, and what comes after it, is in the segment    *)
(* that the last segment before it began.                                  *)
SegmentAt(w, i, last) == IF i = Len(w) + 1 THEN last ELSE w[i].seg

Segmented(w, first, last) ==
  \A i \in 1..Len(w) + 1 :
    /\ (\A j \in 1..i - 1 : w[j].kind # "segment") => SegmentAt(w, i, last) = first
    /\ \A j \in 1..i - 1 :
         w[j].kind = "segment" /\ (\A k \in j + 1..i - 1 : w[k].kind # "segment")
           => SegmentAt(w, i, last) = w[j].n

InPlace == Ordered(OnItsWay, out, in, gap)

Flowing == ~srcFlushing /\ fl # "locked"

UpToDate == Flowing => Fresh(OnItsWay, gen)

UnderSegment == Flowing /\ leaky # "downstream" => Segmented(OnItsWay, downSeg, upSeg)

(* One query at a time is in the queue or at the peer, the last item that  *)
(* upstream brought, until its answer is there.                            *)
AnswerPending ==
  srcresult = "OK" =>
    /\ \A i \in 1..Len(items) :
         items[i].kind = "query" => Asking /\ i = Len(items) /\ items[i].id = arg.id
    /\ lp = "query" => Asking /\ data.id = arg.id
    /\ Asking => \/ items # <<>> /\ items[Len(items)].kind = "query"
                 \/ lp = "query"
                 \/ last_query = arg.id

Stream == InPlace /\ UpToDate /\ UnderSegment

IInv == TypeOK /\ Typed /\ Phases /\ Stream /\ AnswerPending

-----------------------------------------------------------------------------
(* Sequences: where an item is, after others were added or removed.        *)
LEMMA LeastNumber ==
  ASSUME NEW T \in SUBSET Nat, NEW n \in T
  PROVE  \E m \in T : \A k \in T : m <= k
<1> DEFINE less == OpToRel(<, Nat)
<1>1. \A k, m \in Nat : <<k, m>> \in less <=> k < m
  BY DEF OpToRel
<1>2. IsWellFoundedOn(less, Nat)
  BY NatLessThanWellFounded
<1> HIDE DEF less
<1>3. PICK m \in T : \A k \in T : ~ (<<k, m>> \in less)
  BY <1>2, WFMin
<1>4. ASSUME NEW k \in T PROVE m <= k
  <2>1. k \in Nat /\ m \in Nat
    OBVIOUS
  <2>2. ~ (k < m)
    BY <1>1, <1>3, <2>1
  <2> QED
    BY <2>1, <2>2
<1> QED
  BY <1>4

LEMMA Suffix ==
  ASSUME NEW D, NEW s \in Seq(D), NEW k \in 0..Len(s)
  PROVE  /\ SubSeq(s, k + 1, Len(s)) \in Seq(D)
         /\ Len(SubSeq(s, k + 1, Len(s))) = Len(s) - k
         /\ \A i \in 1..Len(s) - k : SubSeq(s, k + 1, Len(s))[i] = s[i + k]
<1>1. Len(s) \in Nat /\ k \in Nat /\ k <= Len(s)
  BY LenProperties
<1>2. \A i \in k + 1..Len(s) : s[i] \in D
  BY <1>1, ElementOfSeq
<1>3. /\ SubSeq(s, k + 1, Len(s)) \in Seq(D)
      /\ Len(SubSeq(s, k + 1, Len(s))) = IF k + 1 <= Len(s) THEN Len(s) - (k + 1) + 1 ELSE 0
      /\ \A i \in 1..Len(s) - (k + 1) + 1 : SubSeq(s, k + 1, Len(s))[i] = s[k + 1 + i - 1]
  BY <1>1, <1>2, SubSeqProperties, k + 1 \in Int, Len(s) \in Int
<1>4. \A i \in 1..Len(s) - k : i \in 1..Len(s) - (k + 1) + 1 /\ k + 1 + i - 1 = i + k
  BY <1>1
<1> QED
  BY <1>1, <1>3, <1>4

(* What is left of the queue, after so many of its first items.            *)
Cut(q, k) == SubSeq(q, k + 1, Len(q))

LEMMA NothingIsEmpty ==
  ASSUME NEW D, NEW s \in Seq(D)
  PROVE  /\ Len(s) = 0 <=> s = <<>>
         /\ DOMAIN s = 1..Len(s) /\ Len(s) \in Nat
  BY LenProperties, EmptySeq

(* A queue of no buffer is not filled. *)
LEMMA NotFilled ==
  ASSUME NEW q, NEW max \in Nat, \A i \in DOMAIN q : q[i].kind # "buffer"
  PROVE  ~IsFilled(q, max)
<1>1. {i \in DOMAIN q : q[i].kind = "buffer"} = {}
  OBVIOUS
<1>2. Cardinality({i \in DOMAIN q : q[i].kind = "buffer"}) = 0
  BY <1>1, FS_EmptySet
<1>3. Buffers(q) = 0
  BY <1>2 DEF Buffers
<1> QED
  BY <1>3 DEF IsFilled

(* gst_queue_leak_downstream removes no more than the last buffer. *)
LEMMA LeakIsCut ==
  ASSUME NEW q \in Seq(Items), NEW max \in Nat
  PROVE  \E k \in 0..Len(q) :
           /\ LeakDownstream(q, max) = Cut(q, k)
           /\ q # <<>> /\ q[Len(q)].kind # "buffer" => k < Len(q)
<1> DEFINE enough == {k \in 0..Len(q) : ~IsFilled(Cut(q, k), max)}
           Right(k) == /\ ~IsFilled(Cut(q, k), max)
                       /\ \A j \in 0..k - 1 : IsFilled(Cut(q, j), max)
           cut == CHOOSE k \in 0..Len(q) : Right(k)
<1>1. Len(q) \in Nat
  BY LenProperties
<1>2. Len(q) \in enough
  <2>1. Cut(q, Len(q)) = <<>>
    BY <1>1, SubSeqEmpty, Len(q) + 1 \in Int, Len(q) \in Int, Len(q) < Len(q) + 1 DEF Cut
  <2>2. DOMAIN <<>> = {}
    OBVIOUS
  <2>3. ~IsFilled(<<>>, max)
    BY <2>2, NotFilled
  <2> QED
    BY <1>1, <2>1, <2>3
<1>3. enough \in SUBSET Nat
  BY <1>1
<1> HIDE DEF enough
<1>4. PICK m \in enough : \A k \in enough : m <= k
  BY <1>2, <1>3, LeastNumber
<1>5. m \in 0..Len(q) /\ Right(m)
  BY <1>1, <1>3, <1>4 DEF enough
<1>6. cut \in 0..Len(q) /\ Right(cut)
  BY <1>5
<1>7. LeakDownstream(q, max) = Cut(q, cut)
  BY DEF LeakDownstream, Cut
<1>8. ASSUME q # <<>>, q[Len(q)].kind # "buffer" PROVE cut < Len(q)
  <2> DEFINE one == Cut(q, Len(q) - 1)
  <2>1. Len(q) - 1 \in 0..Len(q) /\ Len(q) - 1 \in Nat
    BY <1>1, <1>8, NothingIsEmpty
  <2>2. one \in Seq(Items) /\ Len(one) = 1 /\ one[1] = q[Len(q)]
    <3>1. /\ one \in Seq(Items) /\ Len(one) = Len(q) - (Len(q) - 1)
          /\ \A i \in 1..Len(q) - (Len(q) - 1) : one[i] = q[i + (Len(q) - 1)]
      BY <2>1, Suffix DEF Cut
    <3> QED
      BY <1>1, <3>1
  <2> HIDE DEF one
  <2>3. \A i \in DOMAIN one : one[i].kind # "buffer"
    BY <1>8, <2>2, NothingIsEmpty
  <2>4. ~IsFilled(one, max)
    BY <2>3, NotFilled
  <2>5. ~(Len(q) - 1 \in 0..cut - 1)
    BY <1>6, <2>4 DEF one
  <2> QED
    BY <1>1, <1>6, <2>1, <2>5
<1> HIDE DEF cut
<1> QED
  BY <1>6, <1>7, <1>8

(* The item that is pushed next after downstream's EOS. *)
LEMMA FirstPushable ==
  ASSUME NEW q \in Seq(Items), Pushable(q) # {}
  PROVE  LET first == CHOOSE i \in Pushable(q) : \A j \in Pushable(q) : i <= j
         IN  /\ first \in 1..Len(q) /\ q[first].kind \in {"segment", "eos"}
             /\ \A j \in 1..first - 1 : q[j].kind \notin {"segment", "eos"}
<1> DEFINE first == CHOOSE i \in Pushable(q) : \A j \in Pushable(q) : i <= j
<1>1. Pushable(q) = {i \in 1..Len(q) : q[i].kind \in {"segment", "eos"}} /\ Len(q) \in Nat
  BY NothingIsEmpty DEF Pushable
<1>2. \E i \in Pushable(q) : \A j \in Pushable(q) : i <= j
  <2>1. Pushable(q) \in SUBSET Nat
    BY <1>1
  <2> QED
    BY <2>1, LeastNumber
<1>3. first \in Pushable(q) /\ \A j \in Pushable(q) : first <= j
  BY <1>2
<1> HIDE DEF first
<1>4. first \in 1..Len(q) /\ q[first].kind \in {"segment", "eos"}
  BY <1>1, <1>3
<1>5. \A j \in 1..first - 1 : q[j].kind \notin {"segment", "eos"}
  BY <1>1, <1>3, <1>4
<1> USE DEF first
<1> QED
  BY <1>4, <1>5

-----------------------------------------------------------------------------
(* What the sequences keep when an item is added at the end, when items    *)
(* are removed, and when the first is delivered.                           *)
Extended(w, v, item) ==
  /\ Len(v) = Len(w) + 1
  /\ \A i \in 1..Len(w) + 1 : v[i] = IF i = Len(w) + 1 THEN item ELSE w[i]

Removed(w, v, b, c) ==
  /\ b + c <= Len(w) /\ Len(v) = Len(w) - c
  /\ \A i \in 1..Len(v) : v[i] = IF i <= b THEN w[i] ELSE w[i + c]

LEMMA Numbers ==
  ASSUME NEW w \in Seq(Items)
  PROVE  Len(w) \in Nat /\ \A i \in 1..Len(w) : w[i] \in Items /\ w[i].n \in Nat
<1>1. \A i \in 1..Len(w) : w[i] \in Items
  BY ElementOfSeq
<1>2. \A item \in Items : item.n \in Nat
  BY DEF Items
<1> QED
  BY <1>1, <1>2, NothingIsEmpty

LEMMA OrderedExtended ==
  ASSUME NEW w \in Seq(Items), NEW v \in Seq(Items), NEW o \in Nat, NEW n \in Nat,
         NEW lost \in BOOLEAN, NEW item \in Items,
         Ordered(w, o, n, lost), item.n = n + 1, Extended(w, v, item)
  PROVE  Ordered(v, o, n + 1, lost)
<1> USE DEF Extended, Ordered
<1>1. Len(w) \in Nat /\ \A i \in 1..Len(w) : w[i] \in Items /\ w[i].n \in Nat
  BY Numbers
<1>2. \A i \in 1..Len(v) : v[i].n = IF i = Len(w) + 1 THEN n + 1 ELSE w[i].n
  BY <1>1
<1>3. \A i \in 1..Len(v) : o < v[i].n /\ v[i].n <= n + 1
  BY <1>1, <1>2
<1>4. ASSUME NEW i \in 1..Len(v), NEW j \in 1..Len(v), i < j PROVE v[i].n < v[j].n
  <2>1. i \in 1..Len(w) /\ v[i].n = w[i].n
    BY <1>1, <1>2, <1>4
  <2>2. CASE j = Len(w) + 1
    BY <1>1, <1>2, <2>1, <2>2
  <2>3. CASE j # Len(w) + 1
    <3>1. j \in 1..Len(w) /\ v[j].n = w[j].n
      BY <1>1, <1>2, <2>3
    <3> QED
      BY <1>4, <2>1, <3>1
  <2> QED
    BY <2>2, <2>3
<1>5. ~lost => n + 1 = o + Len(v) /\ \A i \in 1..Len(v) : v[i].n = o + i
  BY <1>1, <1>2
<1> QED
  BY <1>3, <1>4, <1>5

LEMMA OrderedRemoved ==
  ASSUME NEW w \in Seq(Items), NEW v \in Seq(Items), NEW o \in Nat, NEW n \in Nat,
         NEW lost \in BOOLEAN, NEW lost2 \in BOOLEAN, NEW b \in Nat, NEW c \in Nat,
         Ordered(w, o, n, lost), Removed(w, v, b, c), ~lost2 => ~lost /\ c = 0
  PROVE  Ordered(v, o, n, lost2)
<1> USE DEF Removed, Ordered
<1>1. Len(w) \in Nat /\ Len(v) \in Nat /\ \A i \in 1..Len(w) : w[i] \in Items /\ w[i].n \in Nat
  BY Numbers
<1> DEFINE at(i) == IF i <= b THEN i ELSE i + c
<1>2. \A i \in 1..Len(v) : at(i) \in 1..Len(w) /\ v[i] = w[at(i)]
  <2>1. b + c <= Len(w) /\ Len(v) = Len(w) - c
    OBVIOUS
  <2>2. \A i \in 1..Len(v) : at(i) \in 1..Len(w)
    BY <1>1, <2>1
  <2>3. \A i \in 1..Len(v) : v[i] = w[at(i)]
    OBVIOUS
  <2> QED
    BY <2>2, <2>3
<1>3. \A i, j \in 1..Len(v) : i < j => at(i) < at(j)
  BY <1>1
<1>4. c = 0 => \A i \in 1..Len(v) : at(i) = i
  BY <1>1
<1> HIDE DEF at
<1>5. \A i \in 1..Len(v) : o < v[i].n /\ v[i].n <= n
  BY <1>2
<1>6. \A i, j \in 1..Len(v) : i < j => v[i].n < v[j].n
  BY <1>2, <1>3
<1>7. ~lost2 => n = o + Len(v) /\ \A i \in 1..Len(v) : v[i].n = o + i
  BY <1>1, <1>2, <1>4
<1> QED
  BY <1>5, <1>6, <1>7

LEMMA OrderedTail ==
  ASSUME NEW w \in Seq(Items), NEW v \in Seq(Items), NEW o \in Nat, NEW n \in Nat,
         NEW lost \in BOOLEAN,
         Ordered(w, o, n, lost), Len(w) > 0, Removed(w, v, 0, 1)
  PROVE  Ordered(v, w[1].n, n, lost)
<1> USE DEF Removed, Ordered
<1>1. Len(w) \in Nat /\ Len(v) \in Nat /\ \A i \in 1..Len(w) : w[i] \in Items /\ w[i].n \in Nat
  BY Numbers
<1> DEFINE at(i) == i + 1
<1>2. \A i \in 1..Len(v) : at(i) \in 1..Len(w) /\ v[i] = w[at(i)] /\ 1 < at(i)
  <2>1. Len(v) = Len(w) - 1 /\ \A i \in 1..Len(v) : ~(i <= 0)
    BY <1>1
  <2> QED
    BY <1>1, <2>1
<1>3. 1 \in 1..Len(w)
  BY <1>1
<1>4. \A i, j \in 1..Len(v) : i < j => at(i) < at(j)
  BY <1>1
<1>5. ~lost => \A i \in 1..Len(v) : v[i].n = o + (i + 1)
  BY <1>1, <1>2
<1> HIDE DEF at
<1>6. w[1].n <= n /\ \A i \in 1..Len(v) : w[1].n < v[i].n /\ v[i].n <= n
  BY <1>1, <1>2, <1>3
<1>7. \A i, j \in 1..Len(v) : i < j => v[i].n < v[j].n
  BY <1>2, <1>4
<1>8. ~lost => n = w[1].n + Len(v) /\ \A i \in 1..Len(v) : v[i].n = w[1].n + i
  <2>1. SUFFICES ASSUME ~lost
                 PROVE  n = w[1].n + Len(v) /\ \A i \in 1..Len(v) : v[i].n = w[1].n + i
    OBVIOUS
  <2>2. w[1].n = o + 1 /\ n = o + Len(w) /\ Len(v) = Len(w) - 1
    BY <1>1, <1>3, <2>1
  <2>3. \A i \in 1..Len(v) : o + (i + 1) = o + 1 + i
    BY <1>1
  <2> QED
    BY <1>1, <1>5, <2>1, <2>2, <2>3
<1> QED
  BY <1>6, <1>7, <1>8

LEMMA SegmentedHere ==
  ASSUME NEW w, NEW first, NEW last, NEW i \in 1..Len(w) + 1, Segmented(w, first, last)
  PROVE  /\ (\A j \in 1..i - 1 : w[j].kind # "segment") => SegmentAt(w, i, last) = first
         /\ \A j \in 1..i - 1 :
              w[j].kind = "segment" /\ (\A k \in j + 1..i - 1 : w[k].kind # "segment")
                => SegmentAt(w, i, last) = w[j].n
  BY DEF Segmented

LEMMA SegmentedExtended ==
  ASSUME NEW w \in Seq(Items), NEW v \in Seq(Items), NEW first \in Nat, NEW last \in Nat,
         NEW item \in Items,
         Segmented(w, first, last), item.seg = last, Extended(w, v, item)
  PROVE  Segmented(v, first, IF item.kind = "segment" THEN item.n ELSE last)
<1> DEFINE last2 == IF item.kind = "segment" THEN item.n ELSE last
<1> USE DEF Extended
<1>1. Len(w) \in Nat /\ Len(v) = Len(w) + 1
  BY NothingIsEmpty
<1>2. \A i \in 1..Len(w) + 1 : SegmentAt(v, i, last2) = SegmentAt(w, i, last)
  BY <1>1 DEF SegmentAt
<1>3. SegmentAt(v, Len(w) + 2, last2) = last2 /\ SegmentAt(w, Len(w) + 1, last) = last
  BY <1>1 DEF SegmentAt
<1>4. \A j \in 1..Len(w) : v[j] = w[j]
  BY <1>1
<1>5. v[Len(w) + 1] = item
  BY <1>1
<1>6. ASSUME NEW i \in 1..Len(w) + 1
      PROVE  /\ (\A j \in 1..i - 1 : v[j].kind # "segment") => SegmentAt(v, i, last2) = first
             /\ \A j \in 1..i - 1 :
                  v[j].kind = "segment" /\ (\A k \in j + 1..i - 1 : v[k].kind # "segment")
                    => SegmentAt(v, i, last2) = v[j].n
  <2>1. \A j \in 1..i - 1 : j \in 1..Len(w) /\ v[j] = w[j]
    BY <1>1, <1>4
  <2>2. \A j \in 1..i - 1 : \A k \in j + 1..i - 1 : k \in 1..i - 1
    BY <1>1
  <2>3. /\ (\A j \in 1..i - 1 : w[j].kind # "segment") => SegmentAt(w, i, last) = first
        /\ \A j \in 1..i - 1 :
             w[j].kind = "segment" /\ (\A k \in j + 1..i - 1 : w[k].kind # "segment")
               => SegmentAt(w, i, last) = w[j].n
    BY SegmentedHere
  <2>4. SegmentAt(v, i, last2) = SegmentAt(w, i, last)
    BY <1>2
  <2> HIDE DEF last2
  <2> QED
    BY <2>1, <2>2, <2>3, <2>4
<1>7. /\ (\A j \in 1..Len(w) + 1 : v[j].kind # "segment") => last2 = first
      /\ \A j \in 1..Len(w) + 1 :
           v[j].kind = "segment" /\ (\A k \in j + 1..Len(w) + 1 : v[k].kind # "segment")
             => last2 = v[j].n
  <2>1. CASE item.kind = "segment"
    <3>1. \A j \in 1..Len(w) + 1 : j # Len(w) + 1 => Len(w) + 1 \in j + 1..Len(w) + 1
      BY <1>1
    <3> QED
      BY <1>1, <1>5, <2>1, <3>1
  <2>2. CASE item.kind # "segment"
    <3>1. \A j \in 1..Len(w) + 1 : v[j].kind = "segment" => j \in 1..Len(w)
      BY <1>1, <1>5, <2>2
    <3>2. /\ (\A j \in 1..Len(w) + 1 - 1 : w[j].kind # "segment") => last = first
          /\ \A j \in 1..Len(w) + 1 - 1 :
               w[j].kind = "segment" /\ (\A k \in j + 1..Len(w) + 1 - 1 : w[k].kind # "segment")
                 => last = w[j].n
      <4> DEFINE n == Len(w) + 1
      <4>1. n \in 1..Len(w) + 1 /\ SegmentAt(w, n, last) = last
        BY <1>1, <1>3
      <4> HIDE DEF n
      <4>2. /\ (\A j \in 1..n - 1 : w[j].kind # "segment") => SegmentAt(w, n, last) = first
            /\ \A j \in 1..n - 1 :
                 w[j].kind = "segment" /\ (\A k \in j + 1..n - 1 : w[k].kind # "segment")
                   => SegmentAt(w, n, last) = w[j].n
        BY <4>1, SegmentedHere
      <4>3. /\ (\A j \in 1..n - 1 : w[j].kind # "segment") => last = first
            /\ \A j \in 1..n - 1 :
                 w[j].kind = "segment" /\ (\A k \in j + 1..n - 1 : w[k].kind # "segment")
                   => last = w[j].n
        BY <4>1, <4>2
      <4> QED
        BY <4>3 DEF n
    <3>3. Len(w) + 1 - 1 = Len(w)
      BY <1>1
    <3>4. \A j \in 1..Len(w) : j \in 1..Len(w) + 1 /\
             \A k \in j + 1..Len(w) : k \in j + 1..Len(w) + 1 /\ k \in 1..Len(w)
      BY <1>1
    <3> HIDE DEF last2
    <3>5. last2 = last
      BY <2>2 DEF last2
    <3>6. (\A j \in 1..Len(w) + 1 : v[j].kind # "segment") => last2 = first
      BY <1>4, <3>2, <3>3, <3>4, <3>5
    <3>7. ASSUME NEW j \in 1..Len(w) + 1, v[j].kind = "segment",
                 \A k \in j + 1..Len(w) + 1 : v[k].kind # "segment"
          PROVE  last2 = v[j].n
      <4>1. j \in 1..Len(w) /\ w[j].kind = "segment" /\ v[j] = w[j]
        BY <1>4, <3>1, <3>7
      <4>2. \A k \in j + 1..Len(w) : w[k].kind # "segment"
        BY <1>4, <3>4, <3>7, <4>1
      <4> QED
        BY <3>2, <3>3, <3>5, <4>1, <4>2
    <3> QED
      BY <3>6, <3>7
  <2> QED
    BY <2>1, <2>2
<1> HIDE DEF last2
<1>8. ASSUME NEW i \in 1..Len(v) + 1
      PROVE  /\ (\A j \in 1..i - 1 : v[j].kind # "segment") => SegmentAt(v, i, last2) = first
             /\ \A j \in 1..i - 1 :
                  v[j].kind = "segment" /\ (\A k \in j + 1..i - 1 : v[k].kind # "segment")
                    => SegmentAt(v, i, last2) = v[j].n
  <2>1. CASE i \in 1..Len(w) + 1
    BY <1>6, <2>1
  <2>2. CASE i = Len(w) + 2
    <3>1. i - 1 = Len(w) + 1
      BY <1>1, <2>2
    <3> QED
      BY <1>3, <1>7, <2>2, <3>1
  <2> QED
    BY <1>1, <2>1, <2>2
<1>9. Segmented(v, first, last2)
  BY <1>8 DEF Segmented
<1> USE DEF last2
<1> QED
  BY <1>9

(* The first items leave; at most the last of them is a segment. *)
LEMMA SegmentedCut ==
  ASSUME NEW w \in Seq(Items), NEW v \in Seq(Items), NEW first \in Nat, NEW last \in Nat,
         NEW c \in Nat, NEW first2 \in Nat
  PROVE  /\ Segmented(w, first, last) /\ Removed(w, v, 0, c)
         /\ \/ first2 = first /\ \A i \in 1..c : w[i].kind # "segment"
            \/ c = 1 /\ w[1].kind = "segment" /\ first2 = w[1].n
         => Segmented(v, first2, last)
<1>1. SUFFICES ASSUME Segmented(w, first, last), Removed(w, v, 0, c),
                      \/ first2 = first /\ \A i \in 1..c : w[i].kind # "segment"
                      \/ c = 1 /\ w[1].kind = "segment" /\ first2 = w[1].n
               PROVE  Segmented(v, first2, last)
  OBVIOUS
<1>2. Len(w) \in Nat /\ Len(v) = Len(w) - c /\ c <= Len(w) /\ Len(v) \in Nat
  BY <1>1, NothingIsEmpty DEF Removed
<1>3. \A j \in 1..Len(v) : v[j] = w[j + c] /\ j + c \in 1..Len(w)
  <2>1. \A j \in 1..Len(v) : ~(j <= 0) /\ j + c \in 1..Len(w)
    BY <1>2
  <2> QED
    BY <1>1, <2>1 DEF Removed
<1>4. SUFFICES ASSUME NEW i \in 1..Len(v) + 1
               PROVE  /\ (\A j \in 1..i - 1 : v[j].kind # "segment")
                           => SegmentAt(v, i, last) = first2
                      /\ \A j \in 1..i - 1 :
                           v[j].kind = "segment" /\ (\A k \in j + 1..i - 1 : v[k].kind # "segment")
                             => SegmentAt(v, i, last) = v[j].n
  BY DEF Segmented
<1> DEFINE m == i + c
<1>5. m \in 1..Len(w) + 1 /\ SegmentAt(v, i, last) = SegmentAt(w, m, last)
  <2>1. m \in 1..Len(w) + 1 /\ (i = Len(v) + 1 <=> m = Len(w) + 1)
    BY <1>2
  <2>2. ASSUME i # Len(v) + 1 PROVE v[i] = w[m]
    <3>1. i \in 1..Len(v)
      BY <1>2, <2>2
    <3> QED
      BY <1>3, <3>1
  <2> QED
    BY <2>1, <2>2 DEF SegmentAt
<1>6. /\ (\A j \in 1..m - 1 : w[j].kind # "segment") => SegmentAt(v, i, last) = first
      /\ \A j \in 1..m - 1 :
           w[j].kind = "segment" /\ (\A k \in j + 1..m - 1 : w[k].kind # "segment")
             => SegmentAt(v, i, last) = w[j].n
  <2> HIDE DEF m
  <2>1. /\ (\A j \in 1..m - 1 : w[j].kind # "segment") => SegmentAt(w, m, last) = first
        /\ \A j \in 1..m - 1 :
             w[j].kind = "segment" /\ (\A k \in j + 1..m - 1 : w[k].kind # "segment")
               => SegmentAt(w, m, last) = w[j].n
    <3>1. m \in 1..Len(w) + 1
      BY <1>5
    <3>2. Segmented(w, first, last)
      BY <1>1
    <3> QED
      BY <3>1, <3>2, Zenon DEF Segmented
  <2>2. SegmentAt(v, i, last) = SegmentAt(w, m, last)
    BY <1>5
  <2> QED
    BY <2>1, <2>2
<1>7. ASSUME NEW j \in 0..i - 1, \A k \in j + 1..i - 1 : v[k].kind # "segment",
             NEW k \in j + c + 1..m - 1
      PROVE  w[k].kind # "segment"
  <2>1. k - c \in j + 1..i - 1 /\ k - c \in 1..Len(v) /\ k - c + c = k
    BY <1>2
  <2> QED
    BY <1>3, <1>7, <2>1
<1>8. ASSUME \A j \in 1..i - 1 : v[j].kind # "segment" PROVE SegmentAt(v, i, last) = first2
  <2>1. \A k \in c + 1..m - 1 : w[k].kind # "segment"
    <3>1. 0 \in 0..i - 1 /\ 0 + 1 = 1 /\ 0 + c + 1 = c + 1
      BY <1>2
    <3>2. \A k \in 0 + 1..i - 1 : v[k].kind # "segment"
      BY <1>8, <3>1
    <3>3. \A k \in 0 + c + 1..m - 1 : w[k].kind # "segment"
      BY <1>7, <3>1, <3>2
    <3> QED
      BY <3>1, <3>3
  <2>2. CASE first2 = first /\ \A k \in 1..c : w[k].kind # "segment"
    <3>1. \A k \in 1..m - 1 : k \in 1..c \/ k \in c + 1..m - 1
      BY <1>2
    <3> HIDE DEF m
    <3> QED
      BY <1>6, <2>1, <2>2, <3>1
  <2>3. CASE c = 1 /\ w[1].kind = "segment" /\ first2 = w[1].n
    <3>1. 1 \in 1..m - 1 /\ 1 + 1 = c + 1
      BY <1>2, <2>3
    <3> HIDE DEF m
    <3> QED
      BY <1>6, <2>1, <2>3, <3>1
  <2> QED
    BY <1>1, <2>2, <2>3
<1>9. ASSUME NEW j \in 1..i - 1, v[j].kind = "segment",
             \A k \in j + 1..i - 1 : v[k].kind # "segment"
      PROVE  SegmentAt(v, i, last) = v[j].n
  <2>1. j + c \in 1..m - 1 /\ j \in 1..Len(v) /\ j \in 0..i - 1
    BY <1>2
  <2>2. \A k \in j + c + 1..m - 1 : w[k].kind # "segment"
    BY <1>7, <1>9, <2>1
  <2> HIDE DEF m
  <2> QED
    BY <1>3, <1>6, <1>9, <2>1, <2>2
<1> QED
  BY <1>8, <1>9

(* The item held and those in the queue, as one sequence. *)
Joined(held, item, q) == (IF held THEN <<item>> ELSE <<>>) \o q

LEMMA JoinedShape ==
  ASSUME NEW item \in Items, NEW q \in Seq(Items)
  PROVE  /\ Len(<<item>> \o q) = Len(q) + 1
         /\ \A i \in 1..Len(q) + 1 : (<<item>> \o q)[i] = IF i = 1 THEN item ELSE q[i - 1]
<1>1. <<item>> \in Seq(Items) /\ Len(<<item>>) = 1 /\ <<item>>[1] = item
  OBVIOUS
<1> DEFINE w == <<item>> \o q
           s == <<item>>
<1>2. /\ Len(w) = 1 + Len(q)
      /\ \A i \in 1..1 + Len(q) : w[i] = IF i <= 1 THEN s[i] ELSE q[i - 1]
  BY <1>1, ConcatProperties
<1>3. s[1] = item
  OBVIOUS
<1> HIDE DEF w, s
<1>4. 1 + Len(q) = Len(q) + 1 /\ \A i \in 1..1 + Len(q) : i <= 1 <=> i = 1
  BY NothingIsEmpty
<1>5. /\ Len(w) = Len(q) + 1
      /\ \A i \in 1..Len(q) + 1 : w[i] = IF i = 1 THEN item ELSE q[i - 1]
  BY <1>2, <1>3, <1>4
<1> USE DEF w
<1> QED
  BY <1>5

LEMMA JoinedIsSeq ==
  ASSUME NEW held \in BOOLEAN, NEW item \in Items, NEW q \in Seq(Items)
  PROVE  Joined(held, item, q) \in Seq(Items) 
         /\ Joined(held, item, q) = IF held THEN <<item>> \o q ELSE q
<1>1. <<item>> \in Seq(Items) /\ <<>> \in Seq(Items)
  OBVIOUS
<1>2. <<item>> \o q \in Seq(Items) /\ <<>> \o q = q
  BY <1>1, ConcatProperties, ConcatEmptySeq
<1> QED
  BY <1>2 DEF Joined

LEMMA JoinedRemoved ==
  ASSUME NEW held \in BOOLEAN, NEW item \in Items, NEW q \in Seq(Items), NEW r \in Seq(Items),
         NEW k \in Nat, Removed(q, r, 0, k)
  PROVE  Removed(Joined(held, item, q), Joined(held, item, r), IF held THEN 1 ELSE 0, k)
<1>1. /\ Len(q) \in Nat /\ Len(r) \in Nat /\ Len(r) = Len(q) - k /\ k <= Len(q)
      /\ \A i \in 1..Len(r) : r[i] = q[i + k]
  <2>1. Len(q) \in Nat /\ Len(r) \in Nat
    BY NothingIsEmpty
  <2>2. \A i \in 1..Len(r) : ~(i <= 0)
    BY <2>1
  <2> QED
    BY <2>1, <2>2 DEF Removed
<1>2. CASE held
  <2> DEFINE w == <<item>> \o q
             v == <<item>> \o r
  <2>1. /\ Len(w) = Len(q) + 1 /\ Len(v) = Len(r) + 1
        /\ \A i \in 1..Len(q) + 1 : w[i] = IF i = 1 THEN item ELSE q[i - 1]
        /\ \A i \in 1..Len(r) + 1 : v[i] = IF i = 1 THEN item ELSE r[i - 1]
    BY JoinedShape
  <2> HIDE DEF w, v
  <2>2. ASSUME NEW i \in 1..Len(v) PROVE v[i] = IF i <= 1 THEN w[i] ELSE w[i + k]
    <3>1. CASE i = 1
      <4>1. 1 \in 1..Len(q) + 1 /\ 1 \in 1..Len(r) + 1
        BY <1>1
      <4> QED
        BY <2>1, <3>1, <4>1
    <3>2. CASE i # 1
      <4>1. /\ i \in 1..Len(r) + 1 /\ i - 1 \in 1..Len(r) /\ i + k \in 1..Len(q) + 1
            /\ ~(i <= 1) /\ i + k # 1 /\ i + k - 1 = i - 1 + k
        BY <1>1, <2>1, <3>2
      <4>2. v[i] = r[i - 1] /\ w[i + k] = q[i + k - 1]
        BY <2>1, <3>2, <4>1
      <4> QED
        BY <1>1, <4>1, <4>2
    <3> QED
      BY <3>1, <3>2
  <2>3. 1 + k <= Len(w) /\ Len(v) = Len(w) - k
    BY <1>1, <2>1
  <2>4. Removed(w, v, 1, k)
    BY <2>2, <2>3 DEF Removed
  <2> QED
    BY <1>2, <2>4, JoinedIsSeq DEF w, v
<1>3. CASE ~held
  <2>1. Joined(held, item, q) = q /\ Joined(held, item, r) = r
    BY <1>3, JoinedIsSeq
  <2> QED
    BY <1>3, <2>1
<1> QED
  BY <1>2, <1>3

LEMMA JoinedExtended ==
  ASSUME NEW held \in BOOLEAN, NEW item \in Items, NEW q \in Seq(Items), NEW r \in Seq(Items),
         NEW added \in Items, Extended(q, r, added)
  PROVE  Extended(Joined(held, item, q), Joined(held, item, r), added)
<1>1. CASE held
  <2> DEFINE w == <<item>> \o q
             v == <<item>> \o r
  <2>1. /\ Len(w) = Len(q) + 1 /\ Len(v) = Len(r) + 1
        /\ \A i \in 1..Len(q) + 1 : w[i] = IF i = 1 THEN item ELSE q[i - 1]
        /\ \A i \in 1..Len(r) + 1 : v[i] = IF i = 1 THEN item ELSE r[i - 1]
    BY JoinedShape
  <2> HIDE DEF w, v
  <2>2. /\ Len(q) \in Nat /\ Len(r) = Len(q) + 1
        /\ \A i \in 1..Len(q) + 1 : r[i] = IF i = Len(q) + 1 THEN added ELSE q[i]
    BY NothingIsEmpty DEF Extended
  <2>3. ASSUME NEW i \in 1..Len(w) + 1 PROVE v[i] = IF i = Len(w) + 1 THEN added ELSE w[i]
    <3>1. CASE i = 1
      <4>1. 1 \in 1..Len(q) + 1 /\ 1 \in 1..Len(r) + 1 /\ 1 # Len(w) + 1
        BY <2>1, <2>2
      <4> QED
        BY <2>1, <3>1, <4>1
    <3>2. CASE i # 1
      <4>1. /\ i \in 1..Len(r) + 1 /\ i - 1 \in 1..Len(q) + 1
            /\ i = Len(w) + 1 <=> i - 1 = Len(q) + 1
        BY <2>1, <2>2, <3>2
      <4>2. i # Len(w) + 1 => i \in 1..Len(q) + 1
        BY <2>1, <2>2
      <4>3. v[i] = r[i - 1]
        BY <2>1, <3>2, <4>1
      <4> QED
        BY <2>1, <2>2, <3>2, <4>1, <4>2, <4>3
    <3> QED
      BY <3>1, <3>2
  <2>4. Extended(w, v, added)
    BY <2>1, <2>2, <2>3 DEF Extended
  <2> QED
    BY <1>1, <2>4, JoinedIsSeq DEF w, v
<1>2. CASE ~held
  <2>1. Joined(held, item, q) = q /\ Joined(held, item, r) = r
    BY <1>2, JoinedIsSeq
  <2> QED
    BY <2>1
<1> QED
  BY <1>1, <1>2

LEMMA Appended ==
  ASSUME NEW q \in Seq(Items), NEW item \in Items
  PROVE  Append(q, item) \in Seq(Items) /\ Extended(q, Append(q, item), item)
  BY AppendProperties DEF Extended

LEMMA CutRemoved ==
  ASSUME NEW q \in Seq(Items), NEW k \in 0..Len(q)
  PROVE  Cut(q, k) \in Seq(Items) /\ Removed(q, Cut(q, k), 0, k)
<1>1. Len(q) \in Nat /\ k \in Nat /\ k <= Len(q)
  BY NothingIsEmpty
<1>2. /\ Cut(q, k) \in Seq(Items) /\ Len(Cut(q, k)) = Len(q) - k
      /\ \A i \in 1..Len(q) - k : Cut(q, k)[i] = q[i + k]
  BY Suffix DEF Cut
<1>3. \A i \in 1..Len(Cut(q, k)) : ~(i <= 0)
  BY <1>1, <1>2
<1> QED
  BY <1>1, <1>2, <1>3 DEF Removed

LEMMA CutNothing ==
  ASSUME NEW q \in Seq(Items)
  PROVE  Cut(q, 0) = q
<1>1. 0 + 1 = 1
  OBVIOUS
<1> QED
  BY <1>1, SubSeqFull DEF Cut

LEMMA FreshRemoved ==
  ASSUME NEW w \in Seq(Items), NEW v \in Seq(Items), NEW b \in Nat, NEW k \in Nat, NEW g,
         Fresh(w, g), Removed(w, v, b, k)
  PROVE  Fresh(v, g)
<1>1. Len(w) \in Nat /\ Len(v) = Len(w) - k
  BY NothingIsEmpty DEF Removed
<1>2. \A i \in 1..Len(v) : i \in 1..Len(w) /\ i + k \in 1..Len(w)
  BY <1>1
<1> QED
  BY <1>2 DEF Fresh, Removed

LEMMA FreshExtended ==
  ASSUME NEW w \in Seq(Items), NEW v \in Seq(Items), NEW item \in Items, NEW g,
         Fresh(w, g), Extended(w, v, item), item.gen = g
  PROVE  Fresh(v, g)
<1>1. Len(w) \in Nat /\ Len(v) = Len(w) + 1
  BY NothingIsEmpty DEF Extended
<1>2. \A i \in 1..Len(v) : i = Len(w) + 1 \/ (i # Len(w) + 1 /\ i \in 1..Len(w))
  BY <1>1
<1> QED
  BY <1>1, <1>2 DEF Fresh, Extended

-----------------------------------------------------------------------------
LEMMA WayIsJoined ==
  OnItsWay = Joined(lp \in {"push", "query"}, data, items)
  BY DEF OnItsWay, Joined

LEMMA InitIInv == Init => IInv
<1> SUFFICES ASSUME Init PROVE IInv
  OBVIOUS
<1> USE QueueAssumption
<1>1. NoItem \in Items /\ <<>> \in Seq(Items)
  BY DEF NoItem, Items
<1>2. TypeOK
  <2>1. /\ leaky \in Leaks /\ max_size \in Capacities
        /\ orig_min_threshold \in Thresholds /\ min_threshold \in Thresholds \cup {0}
        /\ srcresult = "FLUSHING" /\ up = "idle" /\ lp = "off" /\ task = "stopped"
        /\ {eos, unexpected, sinkFlushing, srcFlushing, gap} \subseteq BOOLEAN
    BY DEF Init
  <2>2. data = NoItem /\ arg = NoItem
    BY DEF Init
  <2> QED
    BY <2>1, <2>2 DEF TypeOK
<1>3. Typed
  BY <1>1 DEF Init, Typed
<1>4. Phases
  BY DEF Init, Phases, Steps, SeekPhases, RestartPhases, Leaving
<1>5. OnItsWay = <<>> /\ Len(<<>>) = 0
  BY <1>1, ConcatEmptySeq DEF Init, OnItsWay
<1>6. Stream
  <2>1. InPlace
    BY <1>5 DEF Init, InPlace, Ordered
  <2>2. UpToDate /\ UnderSegment
    BY DEF Init, UpToDate, UnderSegment, Flowing
  <2> QED
    BY <2>1, <2>2 DEF Stream
<1>7. AnswerPending
  BY DEF Init, AnswerPending
<1> QED
  BY <1>2, <1>3, <1>4, <1>6, <1>7 DEF IInv

(* What is on its way stays as it is; it may be known to be incomplete.    *)
LEMMA StreamKept ==
  ASSUME Stream, OnItsWay' = OnItsWay, UNCHANGED <<leaky, in, out, upSeg, downSeg, gen>>,
         gap => gap', Flowing' => Flowing
  PROVE  Stream'
<1>1. InPlace'
  BY DEF Stream, InPlace, Ordered
<1>2. UpToDate' /\ UnderSegment'
  BY DEF Stream, UpToDate, UnderSegment
<1> QED
  BY <1>1, <1>2 DEF Stream

(* The upstream thread returns without having added anything.              *)
LEMMA RefusedStep ==
  ASSUME IInv, Refused, srcresult = "OK" => ~Asking \/ (items = <<>> /\ lp # "query")
  PROVE  IInv'
<1> USE DEF Refused, Return
<1>1. TypeOK'
  BY DEF IInv, TypeOK, config, flags, loopVars, outside, pads, history
<1>2. Typed'
  <2>1. NoItem \in Items
    BY DEF NoItem, Items
  <2> QED
    BY <2>1 DEF IInv, Typed, flags, config, loopVars, outside, pads, history
<1>3. Phases'
  BY DEF IInv, Phases, Steps, SeekPhases, RestartPhases, Leaving, flags, config, loopVars, outside,
         pads, history
<1>4. Stream'
  BY StreamKept DEF IInv, OnItsWay, Flowing, flags, config, loopVars, outside, pads, history
<1>5. AnswerPending'
  <2>1. ~Asking' /\ UNCHANGED <<srcresult, items, lp, data, last_query>>
    BY DEF Asking, flags, loopVars
  <2>2. Len(<<>>) = 0
    OBVIOUS
  <2>3. srcresult = "OK" => /\ \A i \in 1..Len(items) : items[i].kind # "query"
                            /\ lp # "query"
    <3>1. CASE srcresult = "OK" /\ ~Asking
      BY <3>1 DEF IInv, AnswerPending
    <3>2. CASE srcresult = "OK" /\ items = <<>> /\ lp # "query"
      BY <2>2, <3>2
    <3> QED
      BY <3>1, <3>2
  <2> QED
    BY <2>1, <2>3 DEF AnswerPending
<1> QED
  BY <1>1, <1>2, <1>3, <1>4, <1>5 DEF IInv

(* It emits a signal, or waits.                                            *)
LEMMA UpAtStep ==
  ASSUME IInv, NEW to, UpAt(to), up # "idle",
         \/ to \in {"overrun", "wait", "running"} /\ arg.kind = "buffer" /\ ~Asking
         \/ to = "queryWait" /\ up = "queryWoken"
  PROVE  IInv'
<1> USE DEF UpAt
<1>0. /\ up' = to /\ to # "idle"
      /\ UNCHANGED <<config, items, flags, last_query, arg, loopVars, calls, outside, history>>
      /\ Asking' = Asking
  BY DEF Asking
<1>1. TypeOK'
  BY DEF IInv, TypeOK, config, flags, loopVars, outside, pads, history
<1>2. Typed'
  BY DEF IInv, Typed, flags, config, loopVars, outside, pads, history
<1>3. Phases'
  BY DEF IInv, Phases, Steps, SeekPhases, RestartPhases, Leaving, flags, config, loopVars, outside,
         pads, history
<1>4. Stream'
  BY StreamKept DEF IInv, OnItsWay, Flowing, flags, config, loopVars, outside, pads, history
<1>5. AnswerPending'
  BY <1>0 DEF IInv, AnswerPending, flags, loopVars
<1> QED
  BY <1>1, <1>2, <1>3, <1>4, <1>5 DEF IInv

(* The task's function goes to another place, and gives up.                *)
LEMMA LoopAtStep ==
  ASSUME IInv, NEW to \in {"entry", "underrun", "wait", "running"}, LoopAt(to),
         lp \notin Busy, lp = "off" => task = "started"
  PROVE  IInv'
<1> USE DEF LoopAt, LoopUnchanged, Busy
<1>1. TypeOK'
  BY DEF IInv, TypeOK, config, flags, loopVars, outside, pads, history
<1>2. Typed'
  BY DEF IInv, Typed, flags, config, loopVars, outside, pads, history
<1>3. Phases'
  BY DEF IInv, Phases, Steps, SeekPhases, RestartPhases, Leaving, flags, config, loopVars, outside,
         pads, history
<1>4. Stream'
  BY StreamKept DEF IInv, OnItsWay, Flowing, flags, config, loopVars, outside, pads, history
<1>5. AnswerPending'
  BY DEF IInv, AnswerPending, Asking, flags, loopVars
<1> QED
  BY <1>1, <1>2, <1>3, <1>4, <1>5 DEF IInv

LEMMA GiveUpStep ==
  ASSUME IInv, NEW res \in {"FLUSHING", "EOS"}, GiveUp(res), lp \notin {"off", "push", "query"},
         srcresult = "OK" \/ res = srcresult \/ res = "FLUSHING"
  PROVE  IInv'
<1> USE DEF GiveUp, LoopUnchanged, AfterDel
<1>1. TypeOK'
  BY DEF IInv, TypeOK, config, flags, loopVars, outside, pads, history
<1>2. Typed'
  <2>1. NoItem \in Items
    BY DEF NoItem, Items
  <2> QED
    BY <2>1 DEF IInv, Typed, flags, config, loopVars, outside, pads, history
<1>3. Phases'
  BY DEF IInv, Phases, Steps, SeekPhases, RestartPhases, Leaving, flags, config, loopVars, outside,
         pads, history
<1>4. Stream'
  BY StreamKept DEF IInv, OnItsWay, Flowing, flags, config, loopVars, outside, pads, history
<1>5. AnswerPending'
  BY DEF AnswerPending
<1> QED
  BY <1>1, <1>2, <1>3, <1>4, <1>5 DEF IInv

(* An item is appended, possibly after others leaked downstream. *)
LEMMA EnqueueStep ==
  ASSUME IInv, QLockFree, srcresult = "OK", up # "idle", ~Asking,
         NEW k \in 0..Len(items), Enqueue(Cut(items, k)), UNCHANGED last_query,
         gap' \in BOOLEAN, ~gap' => ~gap /\ k = 0, k # 0 => leaky = "downstream",
         \/ arg.kind \in {"buffer", "segment", "eos"} /\ Return
         \/ arg.kind = "query" /\ up' = "queryWait" /\ UNCHANGED arg
  PROVE  IInv'
<1> DEFINE item == [arg EXCEPT !.n = in + 1, !.seg = upSeg, !.gen = gen]
           rest == Cut(items, k)
           held == lp \in {"push", "query"}
           way == Joined(held, data, items)
           way1 == Joined(held, data, rest)
           way2 == Joined(held, data, items')
           b == IF held THEN 1 ELSE 0
<1>1. /\ items \in Seq(Items) /\ data \in Items /\ arg \in Items
      /\ in \in Nat /\ out \in Nat /\ upSeg \in Nat /\ downSeg \in Nat /\ gen \in Nat
      /\ gap \in BOOLEAN
  BY DEF IInv, Typed, TypeOK
<1>2. item \in Items /\ item.kind = arg.kind /\ item.n = in + 1 /\ item.seg = upSeg
      /\ item.gen = gen /\ item.id = arg.id
  <2>1. arg \in [kind : {"none", "buffer", "segment", "eos", "query"},
                 n : Nat, seg : Nat, id : Nat, gen : Nat]
    BY <1>1 DEF Items
  <2>2. in + 1 \in Nat
    BY <1>1
  <2>3. item \in [kind : {"none", "buffer", "segment", "eos", "query"},
                  n : Nat, seg : Nat, id : Nat, gen : Nat]
    BY <1>1, <2>1, <2>2
  <2> QED
    BY <2>1, <2>3 DEF Items
<1>3. /\ items' = Append(rest, item) /\ in' = in + 1
      /\ upSeg' = IF item.kind = "segment" THEN in + 1 ELSE upSeg
      /\ UNCHANGED <<leaky, srcresult, data, result, task, outside, downSeg, out, gen, calls,
                     max_size, orig_min_threshold>>
      /\ lp' = AfterAdd
      /\ eos' \in BOOLEAN /\ unexpected' \in BOOLEAN /\ min_threshold' \in {0, min_threshold}
  BY <1>2 DEF Enqueue, IInv, TypeOK
<1>4. rest \in Seq(Items) /\ Removed(items, rest, 0, k) /\ k \in Nat
  BY <1>1, CutRemoved, NothingIsEmpty
<1> HIDE DEF item, rest
<1>5. items' \in Seq(Items) /\ Extended(rest, items', item)
  BY <1>2, <1>3, <1>4, Appended
<1>6. /\ held' = held /\ lp' # "query" /\ (lp' = "off" <=> lp = "off")
      /\ (lp' \in Busy <=> lp \in Busy) /\ lp' \in {lp, "woken"}
  BY <1>3 DEF AfterAdd, QLockFree, Busy
<1>7. held \in BOOLEAN /\ b \in Nat
  OBVIOUS
<1>8. way \in Seq(Items) /\ OnItsWay = way
  BY <1>1, <1>7, JoinedIsSeq, WayIsJoined
<1>9. OnItsWay' = way2
  <2>1. OnItsWay' = Joined(held', data', items')
    BY DEF OnItsWay, Joined
  <2> QED
    BY <1>3, <1>6, <2>1
<1> HIDE DEF held
<1>10. way1 \in Seq(Items) /\ Removed(way, way1, b, k)
  BY <1>1, <1>4, <1>7, JoinedIsSeq, JoinedRemoved
<1>11. way2 \in Seq(Items) /\ Extended(way1, way2, item)
  BY <1>1, <1>2, <1>4, <1>5, <1>7, JoinedIsSeq, JoinedExtended
<1> HIDE DEF way, way1, way2, b
<1>12. InPlace'
  <2>1. gap \in BOOLEAN /\ gap' \in BOOLEAN /\ (~gap' => ~gap /\ k = 0)
    BY <1>1, <1>4
  <2>2. Ordered(way, out, in, gap)
    BY <1>8 DEF IInv, Stream, InPlace
  <2>3. Ordered(way1, out, in, gap')
    <3>1. out \in Nat /\ in \in Nat /\ k \in Nat /\ b \in Nat
      BY <1>1, <1>4, <1>7
    <3>2. way \in Seq(Items) /\ way1 \in Seq(Items) /\ Removed(way, way1, b, k)
      BY <1>8, <1>10
    <3> QED
      BY <2>1, <2>2, <3>1, <3>2, OrderedRemoved
  <2>4. Ordered(way2, out, in + 1, gap')
    BY <1>1, <1>2, <1>10, <1>11, <2>1, <2>3, OrderedExtended
  <2> QED
    BY <1>3, <1>9, <2>4 DEF InPlace
<1>13. UpToDate'
  <2>1. SUFFICES ASSUME Flowing' PROVE Fresh(way2, gen)
    BY <1>3, <1>9 DEF UpToDate
  <2>2. Fresh(way, gen)
    BY <1>3, <1>8, <2>1 DEF IInv, Stream, UpToDate, Flowing, outside, pads
  <2>3. Fresh(way1, gen)
    BY <1>4, <1>7, <1>8, <1>10, <2>2, FreshRemoved
  <2> QED
    BY <1>2, <1>10, <1>11, <2>3, FreshExtended
<1>14. UnderSegment'
  <2>1. SUFFICES ASSUME Flowing', leaky # "downstream" PROVE Segmented(way2, downSeg, upSeg')
    BY <1>3, <1>9 DEF UnderSegment
  <2>2. Segmented(way, downSeg, upSeg)
    BY <1>3, <1>8, <2>1 DEF IInv, Stream, UnderSegment, Flowing, outside, pads
  <2>3. way1 = way
    BY <1>1, <2>1, CutNothing DEF rest, way, way1
  <2>4. upSeg' = IF item.kind = "segment" THEN item.n ELSE upSeg
    BY <1>2, <1>3
  <2> QED
    BY <1>1, <1>2, <1>8, <1>11, <2>2, <2>3, <2>4, SegmentedExtended
<1>15. TypeOK'
  <2>1. (up' = "idle") = (arg' = NoItem) /\ up' \in {"idle", "queryWait"}
    BY DEF Return, NoItem
  <2>2. (lp' \in {"push", "pushed", "query"}) = (data' # NoItem)
    BY <1>3, <1>6 DEF IInv, TypeOK, Busy
  <2>3. gap' \in BOOLEAN /\ task' = task /\ pads' = pads
    BY <1>1, <1>3 DEF outside
  <2>4. min_threshold' \in Thresholds \cup {0}
    BY <1>3 DEF IInv, TypeOK
  <2> QED
    BY <1>3, <1>6, <2>1, <2>2, <2>3, <2>4 DEF IInv, TypeOK, pads
<1>16. Typed'
  <2>1. NoItem \in Items
    BY DEF NoItem, Items
  <2>2. arg' \in Items
    BY <1>1, <2>1 DEF Return
  <2>3. upSeg' \in Nat /\ in' \in Nat
    BY <1>1, <1>3
  <2> QED
    BY <1>3, <1>5, <2>2, <2>3 DEF IInv, Typed, outside
<1>17. Phases'
  <2>1. up' \in {"idle", "queryWait"} /\ (up' = "queryWait" => arg'.kind = "query")
    BY DEF Return
  <2>2. Steps'
    BY <1>6, <2>1 DEF Steps
  <2>3. fl \in {"idle", "start"} /\ st \notin Leaving \ {"leaving"} /\ st # "srcActive"
    BY DEF IInv, Phases, SeekPhases, RestartPhases, Leaving, Typed
  <2>4. UNCHANGED <<fl, st, srcFlushing, sinkFlushing, srcresult, task>>
    BY <1>3 DEF outside, pads
  <2> QED
    BY <2>2, <2>3, <2>4 DEF IInv, Phases, SeekPhases, RestartPhases, Leaving
<1>18. AnswerPending'
  <2>1. Len(items) \in Nat /\ Len(rest) = Len(items) - k /\ Len(rest) \in Nat
    BY <1>1, <1>4, NothingIsEmpty DEF Removed
  <2>2. ASSUME NEW i \in 1..Len(rest) PROVE items'[i].kind # "query"
    <3>1. i + k \in 1..Len(items) /\ ~(i <= 0) /\ i # Len(rest) + 1 /\ i \in 1..Len(rest) + 1
      BY <1>4, <2>1
    <3>2. items'[i] = items[i + k]
      BY <1>4, <1>5, <3>1 DEF Removed, Extended
    <3> QED
      BY <3>1, <3>2 DEF IInv, AnswerPending
  <2>3. Len(items') = Len(rest) + 1 /\ items'[Len(items')] = item /\ items' # <<>>
    BY <1>5, <2>1, NothingIsEmpty DEF Extended
  <2>4. \A i \in 1..Len(items') : i \in 1..Len(rest) \/ i = Len(items')
    BY <2>1, <2>3
  <2>5. item.kind = "query" => Asking' /\ item.id = arg'.id
    BY <1>2 DEF Asking
  <2>6. Asking' => item.kind = "query"
    BY <1>2 DEF Asking, Return
  <2> QED
    BY <1>6, <2>2, <2>3, <2>4, <2>5, <2>6 DEF AnswerPending
<1> QED
  BY <1>12, <1>13, <1>14, <1>15, <1>16, <1>17, <1>18 DEF IInv, Stream

LEMMA CutHead ==
  ASSUME NEW q \in Seq(Items), NEW k \in 1..Len(q)
  PROVE  /\ q[k] \in Items /\ Cut(q, k) \in Seq(Items)
         /\ <<q[k]>> \o Cut(q, k) = Cut(q, k - 1)
<1>1. Len(q) \in Nat /\ k \in 1..Len(q) /\ q[k] \in Items
  BY NothingIsEmpty, ElementOfSeq
<1>2. /\ Cut(q, k) \in Seq(Items) /\ Len(Cut(q, k)) = Len(q) - k
      /\ \A i \in 1..Len(q) - k : Cut(q, k)[i] = q[i + k]
  BY <1>1, Suffix, k \in 0..Len(q) DEF Cut
<1>3. /\ Cut(q, k - 1) \in Seq(Items) /\ Len(Cut(q, k - 1)) = Len(q) - (k - 1)
      /\ \A i \in 1..Len(q) - (k - 1) : Cut(q, k - 1)[i] = q[i + (k - 1)]
  BY <1>1, Suffix, k - 1 \in 0..Len(q) DEF Cut
<1> DEFINE w == <<q[k]>> \o Cut(q, k)
<1>4. /\ Len(w) = Len(Cut(q, k)) + 1
      /\ \A i \in 1..Len(Cut(q, k)) + 1 : w[i] = IF i = 1 THEN q[k] ELSE Cut(q, k)[i - 1]
  BY <1>1, <1>2, JoinedShape
<1>5. w \in Seq(Items)
  BY <1>1, <1>2, ConcatProperties, <<q[k]>> \in Seq(Items)
<1> HIDE DEF w
<1>6. Len(w) = Len(Cut(q, k - 1))
  BY <1>1, <1>2, <1>3, <1>4
<1>7. ASSUME NEW i \in 1..Len(w) PROVE w[i] = Cut(q, k - 1)[i]
  <2>1. CASE i = 1
    <3>1. 1 \in 1..Len(Cut(q, k)) + 1 /\ 1 \in 1..Len(q) - (k - 1) /\ 1 + (k - 1) = k
      BY <1>1, <1>2
    <3> QED
      BY <1>3, <1>4, <2>1, <3>1
  <2>2. CASE i # 1
    <3>1. /\ i \in 1..Len(Cut(q, k)) + 1 /\ i \in 1..Len(q) - (k - 1)
          /\ i - 1 \in 1..Len(q) - k /\ i - 1 + k = i + (k - 1)
      BY <1>1, <1>2, <1>4, <2>2
    <3> QED
      BY <1>2, <1>3, <1>4, <2>2, <3>1
  <2> QED
    BY <2>1, <2>2
<1>8. w = Cut(q, k - 1)
  BY <1>3, <1>5, <1>6, <1>7, SeqEqual
<1> USE DEF w
<1> QED
  BY <1>1, <1>2, <1>8

(* The task takes the first item; it is on its way as before. *)
LEMMA DequeueStep ==
  ASSUME IInv, Dequeue, lp \in {"entry", "running"}, srcresult = "OK", items # <<>>
  PROVE  IInv'
<1> USE DEF Dequeue, LoopUnchanged
<1>1. /\ items \in Seq(Items) /\ Len(items) \in Nat /\ 1 \in 1..Len(items)
      /\ out \in Nat /\ in \in Nat
  BY NothingIsEmpty DEF IInv, Typed
<1>2. Head(items) = items[1] /\ Tail(items) = Cut(items, 1)
  BY <1>1, TailIsSubSeq DEF Cut
<1>3. /\ data' = items[1] /\ items[1] \in Items
      /\ items' = Cut(items, 1) /\ items' \in Seq(Items)
      /\ <<items[1]>> \o items' = items
  <2>1. <<items[1]>> \o Cut(items, 1) = Cut(items, 1 - 1) /\ items[1] \in Items
        /\ Cut(items, 1) \in Seq(Items)
    BY <1>1, CutHead
  <2>2. 1 - 1 = 0
    OBVIOUS
  <2> QED
    BY <1>1, <1>2, <2>1, <2>2, CutNothing
<1>4. OnItsWay = items /\ OnItsWay' = items
  <2>1. OnItsWay = items
    BY <1>1, ConcatEmptySeq DEF OnItsWay
  <2>2. lp' \in {"push", "query"}
    OBVIOUS
  <2> QED
    BY <1>3, <2>1, <2>2 DEF OnItsWay
<1>5. Stream'
  BY <1>4, StreamKept DEF IInv, Flowing, config, pads
<1>6. data' # NoItem
  <2>1. items[1].n > out
    BY <1>1, <1>4 DEF IInv, Stream, InPlace, Ordered
  <2> QED
    BY <1>1, <1>3, <2>1 DEF NoItem
<1>7. up' \in {up, "woken", "queryWoken"} /\ (up' = "idle" <=> up = "idle") /\ (Asking' <=> Asking)
      /\ (up' = "woken" => up \in {"wait", "woken"})
      /\ (up' = "queryWoken" => up \in {"queryWait", "queryWoken"})
  BY DEF AfterDel, Asking
<1>8. TypeOK'
  BY <1>6, <1>7 DEF IInv, TypeOK, config, flags, pads
<1>9. Typed'
  BY <1>3 DEF IInv, Typed, flags, pads
<1>10. Phases'
  BY <1>2, <1>3, <1>7 DEF IInv, Phases, Steps, SeekPhases, RestartPhases, Leaving, Typed, flags, config, pads
<1>11. AnswerPending'
  <2>1. /\ \A i \in 1..Len(items) :
             items[i].kind = "query" => Asking /\ i = Len(items) /\ items[i].id = arg.id
        /\ Asking => items[Len(items)].kind = "query" \/ last_query = arg.id
    BY DEF IInv, AnswerPending
  <2>2. /\ Len(items') = Len(items) - 1
        /\ \A i \in 1..Len(items') : items'[i] = items[i + 1] /\ i + 1 \in 1..Len(items)
    BY <1>1, <1>3, CutRemoved, Suffix DEF Cut
  <2>3. \A i \in 1..Len(items') :
          items'[i].kind = "query" => Asking' /\ i = Len(items') /\ items'[i].id = arg'.id
    <3>1. \A i \in 1..Len(items') : i = Len(items') <=> i + 1 = Len(items)
      BY <1>1, <2>2
    <3>2. arg' = arg
      OBVIOUS
    <3> QED
      BY <1>7, <2>1, <2>2, <3>1, <3>2
  <2>4. lp' = "query" => Asking' /\ data'.id = arg'.id
    BY <1>1, <1>2, <1>7, <2>1
  <2>5. Asking' => \/ items' # <<>> /\ items'[Len(items')].kind = "query"
                   \/ lp' = "query"
                   \/ last_query' = arg'.id
    <3>1. SUFFICES ASSUME Asking, items[Len(items)].kind = "query"
                   PROVE  \/ items' # <<>> /\ items'[Len(items')].kind = "query"
                          \/ lp' = "query"
      BY <1>7, <2>1
    <3>2. CASE Len(items) = 1
      BY <1>2, <3>1, <3>2
    <3>3. CASE Len(items) # 1
      <4>1. Len(items') \in 1..Len(items') /\ Len(items') + 1 = Len(items) /\ Len(items') # 0
        BY <1>1, <2>2, <3>3
      <4> QED
        BY <1>3, <2>2, <3>1, <4>1, NothingIsEmpty
    <3> QED
      BY <3>2, <3>3
  <2> QED
    BY <2>3, <2>4, <2>5 DEF AnswerPending
<1> QED
  BY <1>5, <1>8, <1>9, <1>10, <1>11 DEF IInv

(* An item leaves the sequence: it goes downstream or is refused there. *)
LEMMA DeliverStep ==
  ASSUME IInv, lp \in {"push", "query"}, lp' \notin {"push", "query"},
         UNCHANGED <<leaky, items, in, upSeg, gen, srcFlushing, fl>>, gap' \in BOOLEAN,
         \/ /\ out' = data.n /\ UNCHANGED gap
            /\ downSeg' = IF data.kind = "segment" THEN data.n ELSE downSeg
         \/ srcFlushing /\ gap' /\ UNCHANGED <<out, downSeg>>
  PROVE  Stream'
<1> DEFINE w == <<data>> \o items
<1>1. /\ items \in Seq(Items) /\ data \in Items /\ Len(items) \in Nat
      /\ in \in Nat /\ out \in Nat /\ downSeg \in Nat /\ upSeg \in Nat /\ gen \in Nat
      /\ gap \in BOOLEAN /\ data.n \in Nat
  <2>1. \A item \in Items : item.n \in Nat
    BY DEF Items
  <2> QED
    BY <2>1, NothingIsEmpty DEF IInv, Typed, TypeOK
<1>2. OnItsWay = w /\ OnItsWay' = items
  <2>1. OnItsWay' = items'
    BY <1>1, ConcatEmptySeq DEF OnItsWay
  <2> QED
    BY <2>1 DEF OnItsWay
<1>3. /\ w \in Seq(Items) /\ Len(w) = Len(items) + 1
      /\ \A i \in 1..Len(items) + 1 : w[i] = IF i = 1 THEN data ELSE items[i - 1]
  BY <1>1, JoinedShape, ConcatProperties, <<data>> \in Seq(Items)
<1> HIDE DEF w
<1>4. w[1] = data /\ Len(w) > 0
  BY <1>1, <1>3
<1>5. Removed(w, items, 0, 1)
  <2>1. \A i \in 1..Len(items) : /\ ~(i <= 0) /\ i + 1 \in 1..Len(items) + 1 /\ i + 1 # 1
                                 /\ i + 1 - 1 = i
    BY <1>1
  <2>2. 0 + 1 <= Len(w) /\ Len(items) = Len(w) - 1
    BY <1>1, <1>3
  <2> QED
    BY <1>3, <2>1, <2>2 DEF Removed
<1>6. Ordered(w, out, in, gap)
  BY <1>2 DEF IInv, Stream, InPlace
<1>7. CASE out' = data.n /\ UNCHANGED gap
           /\ downSeg' = IF data.kind = "segment" THEN data.n ELSE downSeg
  <2>1. InPlace'
    <3>1. Ordered(items, w[1].n, in, gap)
      BY <1>1, <1>3, <1>4, <1>5, <1>6, OrderedTail
    <3> QED
      BY <1>2, <1>4, <1>7, <3>1 DEF InPlace
  <2>2. UpToDate'
    <3>1. SUFFICES ASSUME Flowing PROVE Fresh(items, gen)
      BY <1>2 DEF UpToDate, Flowing
    <3>2. Fresh(w, gen)
      BY <1>2, <3>1 DEF IInv, Stream, UpToDate
    <3> QED
      BY <1>1, <1>3, <1>5, <3>2, FreshRemoved, 0 \in Nat, 1 \in Nat
  <2>3. UnderSegment'
    <3>1. SUFFICES ASSUME Flowing, leaky # "downstream" PROVE Segmented(items, downSeg', upSeg)
      BY <1>2 DEF UnderSegment, Flowing
    <3>2. Segmented(w, downSeg, upSeg)
      BY <1>2, <3>1 DEF IInv, Stream, UnderSegment
    <3>3. downSeg' \in Nat
      BY <1>1, <1>7
    <3>4. \/ downSeg' = downSeg /\ \A i \in 1..1 : w[i].kind # "segment"
          \/ 1 = 1 /\ w[1].kind = "segment" /\ downSeg' = w[1].n
      BY <1>4, <1>7
    <3> QED
      BY <1>1, <1>3, <1>5, <3>2, <3>3, <3>4, SegmentedCut, 1 \in Nat
  <2> QED
    BY <2>1, <2>2, <2>3 DEF Stream
<1>8. CASE srcFlushing /\ gap' /\ UNCHANGED <<out, downSeg>>
  <2>1. InPlace'
    <3>1. gap' = TRUE /\ TRUE \in BOOLEAN /\ 0 \in Nat /\ 1 \in Nat
      BY <1>8
    <3>2. Ordered(items, out, in, TRUE)
      <4> DEFINE lost == TRUE
      <4>1. lost \in BOOLEAN /\ (~lost => ~gap /\ 1 = 0)
        OBVIOUS
      <4> HIDE DEF lost
      <4>2. Ordered(items, out, in, lost)
        BY <1>1, <1>3, <1>5, <1>6, <3>1, <4>1, OrderedRemoved
      <4> USE DEF lost
      <4> QED
        BY <4>2
    <3>3. Ordered(items, out, in, gap')
      BY <3>1, <3>2
    <3> QED
      BY <1>2, <1>8, <3>3 DEF InPlace
  <2>2. UpToDate' /\ UnderSegment'
    BY <1>8 DEF UpToDate, UnderSegment, Flowing
  <2> QED
    BY <2>1, <2>2 DEF Stream
<1> QED
  BY <1>7, <1>8

LEMMA PushStep ==
  ASSUME IInv, NEW res \in {"OK", "FLUSHING", "EOS"}, Push(res)
  PROVE  IInv'
<1> USE DEF Push, LoopUnchanged
<1>1. gap' \in BOOLEAN /\ answers' \in Nat /\ out' \in Nat /\ downSeg' \in Nat
  <2>1. \A item \in Items : item.n \in Nat
    BY DEF Items
  <2>2. /\ data.n \in Nat /\ answers \in Nat /\ out \in Nat /\ downSeg \in Nat
        /\ gap \in BOOLEAN
    BY <2>1 DEF IInv, Typed, TypeOK
  <2>3. /\ answers' \in {answers, answers + 1} /\ out' \in {out, data.n}
        /\ downSeg' \in {downSeg, data.n} /\ gap' \in {gap, TRUE}
    OBVIOUS
  <2>4. answers' \in Nat /\ out' \in Nat /\ downSeg' \in Nat
    BY <2>2, <2>3
  <2>5. gap' \in BOOLEAN
    BY <2>2, <2>3
  <2> QED
    BY <2>4, <2>5
<1>2. Stream'
  BY <1>1, DeliverStep DEF config, pads
<1>3. TypeOK'
  BY <1>1 DEF IInv, TypeOK, config, flags, pads
<1>4. Typed'
  BY <1>1 DEF IInv, Typed
<1>5. Phases'
  BY DEF IInv, Phases, Steps, SeekPhases, RestartPhases, Leaving, flags, config, pads
<1>6. AnswerPending'
  BY DEF IInv, AnswerPending, Asking, flags
<1> QED
  BY <1>2, <1>3, <1>4, <1>5, <1>6 DEF IInv

LEMMA PeerQueryStep ==
  ASSUME IInv, PeerQuery
  PROVE  IInv'
<1> USE DEF PeerQuery, LoopUnchanged, Carry, AfterLoop
<1>1. /\ out' \in Nat /\ last_query' \in Nat /\ NoItem \in Items
      /\ data.kind = "query" /\ srcresult = "OK"
  <2>1. \A item \in Items : item.n \in Nat /\ item.id \in Nat
    BY DEF Items
  <2>2. NoItem \in Items
    BY DEF NoItem, Items
  <2> QED
    BY <2>1, <2>2 DEF IInv, Typed, Phases, Steps
<1>2. Stream'
  <2>1. gap' \in BOOLEAN
    BY DEF IInv, TypeOK
  <2> QED
    BY <1>1, <2>1, DeliverStep DEF config, pads
<1>3. TypeOK'
  BY DEF IInv, TypeOK, config, flags, pads
<1>4. Typed'
  BY <1>1 DEF IInv, Typed
<1>5. Phases'
  BY <1>1 DEF IInv, Phases, Steps, SeekPhases, RestartPhases, Leaving, flags, config, pads
<1>6. AnswerPending'
  BY <1>1 DEF IInv, AnswerPending, Asking, flags
<1> QED
  BY <1>2, <1>3, <1>4, <1>5, <1>6 DEF IInv

(* The push went well, and the task goes on. *)
LEMMA CarryStep ==
  ASSUME IInv, lp = "pushed", srcresult = "OK", Carry, LoopUnchanged,
         UNCHANGED <<items, eos, unexpected, last_query, up, answers, downSeg, out, gap>>
  PROVE  IInv'
<1> USE DEF LoopUnchanged, Carry, AfterLoop
<1>1. NoItem \in Items
  BY DEF NoItem, Items
<1>2. Stream'
  BY StreamKept DEF IInv, OnItsWay, Flowing, config, pads
<1>3. TypeOK'
  BY DEF IInv, TypeOK, config, flags, pads
<1>4. Typed'
  BY <1>1 DEF IInv, Typed
<1>5. Phases'
  BY DEF IInv, Phases, Steps, SeekPhases, RestartPhases, Leaving, flags, config, pads
<1>6. AnswerPending'
  BY DEF IInv, AnswerPending, Asking, flags
<1> QED
  BY <1>2, <1>3, <1>4, <1>5, <1>6 DEF IInv

(* Some of the first items, no segment among them, are thrown away.        *)
LEMMA SkippedStream ==
  ASSUME IInv, OnItsWay = items, NEW k \in 0..Len(items), OnItsWay' = Cut(items, k),
         UNCHANGED <<leaky, in, out, upSeg, downSeg, gen, srcFlushing, fl>>,
         \A i \in 1..k : items[i].kind # "segment", gap' \in BOOLEAN, ~gap' => ~gap /\ k = 0
  PROVE  Stream'
<1> DEFINE v == Cut(items, k)
<1>1. /\ items \in Seq(Items) /\ k \in Nat
      /\ in \in Nat /\ out \in Nat /\ downSeg \in Nat /\ upSeg \in Nat
      /\ gap \in BOOLEAN
  BY NothingIsEmpty DEF IInv, Typed, TypeOK
<1>2. v \in Seq(Items) /\ Removed(items, v, 0, k)
  BY <1>1, CutRemoved
<1> HIDE DEF v
<1>3. OnItsWay' = v
  BY DEF v
<1>4. InPlace'
  <2>1. Ordered(items, out, in, gap)
    BY DEF IInv, Stream, InPlace
  <2>2. Ordered(v, out, in, gap')
    BY <1>1, <1>2, <2>1, OrderedRemoved, 0 \in Nat
  <2> QED
    BY <1>3, <2>2 DEF InPlace
<1>5. UpToDate'
  <2>1. SUFFICES ASSUME Flowing PROVE Fresh(v, gen)
    BY <1>3 DEF UpToDate, Flowing
  <2>2. Fresh(items, gen)
    BY <2>1 DEF IInv, Stream, UpToDate
  <2> QED
    BY <1>1, <1>2, <2>2, FreshRemoved, 0 \in Nat
<1>6. UnderSegment'
  <2>1. SUFFICES ASSUME Flowing, leaky # "downstream" PROVE Segmented(v, downSeg, upSeg)
    BY <1>3 DEF UnderSegment, Flowing
  <2>2. Segmented(items, downSeg, upSeg)
    BY <2>1 DEF IInv, Stream, UnderSegment
  <2> QED
    BY <1>1, <1>2, <2>2, SegmentedCut
<1> QED
  BY <1>4, <1>5, <1>6 DEF Stream

(* Downstream answered EOS: up to the next segment or end of stream items  *)
(* are thrown away, among them perhaps a query, which is answered.         *)
LEMMA SkipStep ==
  ASSUME IInv, SkipToPushable, lp = "pushed", srcresult = "OK"
  PROVE  IInv'
<1> DEFINE found == Pushable(items)
           first == CHOOSE i \in found : \A j \in found : i <= j
           skipped == IF found = {} THEN items ELSE SubSeq(items, 1, first - 1)
<1>1. /\ items \in Seq(Items) /\ Len(items) \in Nat /\ DOMAIN items = 1..Len(items)
      /\ \A i \in 1..Len(items) : items[i] \in Items
  BY NothingIsEmpty, ElementOfSeq DEF IInv, Typed
<1>2. /\ \/ found = {} /\ Carry /\ items' = <<>> /\ unexpected' = TRUE
         \/ /\ found # {} /\ items' = SubSeq(items, first + 1, Len(items))
            /\ data' = items[first] /\ lp' = "push"
            /\ UNCHANGED <<srcresult, unexpected, result, task>>
      /\ last_query' = IF \E q \in ToSet(skipped) : q.kind = "query"
                       THEN (CHOOSE q \in ToSet(skipped) : q.kind = "query").id
                       ELSE last_query
      /\ gap' = (gap \/ skipped # <<>>)
      /\ up' = IF items = <<>> THEN up ELSE AfterDel
      /\ UNCHANGED <<eos, answers, downSeg, out>>
      /\ LoopUnchanged
  BY DEF SkipToPushable
<1>3. found # {} =>
        /\ first \in 1..Len(items) /\ items[first].kind \in {"segment", "eos"}
        /\ \A j \in 1..first - 1 : items[j].kind \notin {"segment", "eos"}
  BY <1>1, FirstPushable
<1>4. found = {} => \A i \in 1..Len(items) : items[i].kind \notin {"segment", "eos"}
  BY <1>1 DEF Pushable
<1> DEFINE k == IF found = {} THEN Len(items) ELSE first - 1
<1>5. /\ k \in 0..Len(items) /\ \A i \in 1..k : items[i].kind \notin {"segment", "eos"}
      /\ (found # {} => first = k + 1)
  <2> HIDE DEF found, first
  <2>1. CASE found = {}
    BY <1>1, <1>4, <2>1
  <2>2. CASE found # {}
    <3>1. k = first - 1 /\ first \in 1..Len(items)
      BY <1>3, <2>2
    <3>2. k \in 0..Len(items) /\ first = k + 1
      BY <1>1, <3>1
    <3> QED
      BY <1>3, <2>2, <3>1, <3>2
  <2> QED
    BY <2>1, <2>2
<1> HIDE DEF first
<1>6. /\ Len(skipped) = k /\ DOMAIN skipped = 1..k /\ \A i \in 1..k : skipped[i] = items[i]
      /\ (skipped = <<>> <=> k = 0)
  <2>1. CASE found = {}
    BY <1>1, <2>1, NothingIsEmpty
  <2>2. CASE found # {}
    <3> DEFINE s == SubSeq(items, 1, first - 1)
    <3>1. first - 1 = k /\ k \in Nat /\ k <= Len(items) /\ 1 \in Int /\ k \in Int
      BY <1>1, <1>3, <1>5, <2>2
    <3>2. \A i \in 1..k : items[i] \in Items
      BY <1>1, <3>1
    <3> HIDE DEF k
    <3>3. /\ s \in Seq(Items) /\ Len(s) = IF 1 <= k THEN k - 1 + 1 ELSE 0
          /\ \A i \in 1..k - 1 + 1 : s[i] = items[1 + i - 1]
      BY <3>1, <3>2, SubSeqProperties
    <3> HIDE DEF s
    <3>4. Len(s) = k /\ \A i \in 1..k : s[i] = items[i]
      BY <3>1, <3>3
    <3>5. DOMAIN s = 1..k /\ (s = <<>> <=> k = 0)
      BY <3>3, <3>4, NothingIsEmpty
    <3> USE DEF s
    <3> QED
      BY <2>2, <3>4, <3>5
  <2> QED
    BY <2>1, <2>2
<1> HIDE DEF skipped
<1>7. ToSet(skipped) = {items[i] : i \in 1..k}
  BY <1>6 DEF ToSet
<1> HIDE DEF found, k
<1>8. \/ last_query' = last_query /\ \A i \in 1..k : items[i].kind # "query"
      \/ \E i \in 1..k : items[i].kind = "query" /\ last_query' = items[i].id
  <2>1. CASE \E q \in ToSet(skipped) : q.kind = "query"
    <3> DEFINE x == CHOOSE q \in ToSet(skipped) : q.kind = "query"
    <3>1. x \in ToSet(skipped) /\ x.kind = "query" /\ last_query' = x.id
      BY <1>2, <2>1
    <3> HIDE DEF x
    <3> QED
      BY <1>7, <3>1
  <2>2. CASE ~ \E q \in ToSet(skipped) : q.kind = "query"
    BY <1>2, <1>7, <2>2
  <2> QED
    BY <2>1, <2>2
<1>9. k \in Nat /\ k <= Len(items) /\ (~gap' => ~gap /\ k = 0)
  <2>1. k \in Nat /\ k <= Len(items)
    BY <1>1, <1>5
  <2>2. ~gap' => ~gap /\ k = 0
    BY <1>2, <1>6
  <2> QED
    BY <2>1, <2>2
<1>10. \/ found = {} /\ k = Len(items) /\ items' = <<>> /\ Carry /\ unexpected' = TRUE
       \/ /\ found # {} /\ k + 1 \in 1..Len(items) /\ items' = Cut(items, k + 1)
          /\ data' = items[k + 1] /\ lp' = "push" /\ items[k + 1].kind \in {"segment", "eos"}
          /\ UNCHANGED <<srcresult, unexpected, result, task>>
  <2>1. CASE found = {}
    BY <1>2, <2>1 DEF k
  <2>2. CASE found # {}
    BY <1>2, <1>3, <1>5, <2>2 DEF Cut
  <2> QED
    BY <2>1, <2>2
<1>11. OnItsWay = items /\ OnItsWay' = Cut(items, k) /\ items' \in Seq(Items)
  <2>1. OnItsWay = items
    BY <1>1, ConcatEmptySeq DEF OnItsWay
  <2>2. CASE found = {} /\ k = Len(items) /\ items' = <<>> /\ Carry
    <3>1. lp' \notin {"push", "query"}
      BY <2>2 DEF Carry, AfterLoop
    <3>2. OnItsWay' = <<>> \o <<>> /\ <<>> \in Seq(Items)
      BY <2>2, <3>1 DEF OnItsWay
    <3>3. Cut(items, Len(items)) = <<>>
      BY <1>1, SubSeqEmpty, Len(items) + 1 \in Int, Len(items) \in Int, Len(items) < Len(items) + 1
      DEF Cut
    <3> QED
      BY <2>1, <2>2, <3>2, <3>3, ConcatEmptySeq
  <2>3. CASE /\ k + 1 \in 1..Len(items) /\ items' = Cut(items, k + 1)
             /\ data' = items[k + 1] /\ lp' = "push"
    <3> DEFINE m == k + 1
    <3>1. m \in 1..Len(items) /\ m - 1 = k
      BY <1>9, <2>3
    <3>2. /\ items' = Cut(items, m) /\ data' = items[m] /\ lp' = "push"
      BY <2>3
    <3> HIDE DEF m
    <3>3. <<items[m]>> \o Cut(items, m) = Cut(items, m - 1) /\ Cut(items, m) \in Seq(Items)
      BY <1>1, <3>1, CutHead
    <3> QED
      BY <2>1, <3>1, <3>2, <3>3 DEF OnItsWay
  <2> QED
    BY <1>10, <2>2, <2>3
<1>12. gap' \in BOOLEAN /\ gap \in BOOLEAN
  BY <1>2 DEF IInv, TypeOK
<1>13. Stream'
  <2>1. \A i \in 1..k : items[i].kind # "segment"
    BY <1>5
  <2>2. UNCHANGED <<leaky, in, out, upSeg, downSeg, gen, srcFlushing, fl>>
    BY <1>2 DEF LoopUnchanged, config, pads
  <2> QED
    BY <1>5, <1>9, <1>11, <1>12, <2>1, <2>2, SkippedStream
<1>14. up' \in {up, "woken", "queryWoken"} /\ (up' = "idle" <=> up = "idle") /\ (Asking' <=> Asking)
      /\ (up' = "woken" => up \in {"wait", "woken"})
      /\ (up' = "queryWoken" => up \in {"queryWait", "queryWoken"})
  BY <1>2 DEF AfterDel, Asking
<1>15. /\ lp' \in {"push", "entry", "off"} /\ (lp' = "push") = (data' # NoItem)
       /\ data' \in Items /\ (lp' = "entry" => task = "started")
       /\ srcresult' = "OK" /\ task' = task /\ unexpected' \in BOOLEAN
       /\ result' \in {"OK", "FLUSHING", "EOS"}
  <2>1. NoItem \in Items /\ NoItem.kind = "none"
    BY DEF NoItem, Items
  <2>2. unexpected \in BOOLEAN /\ result \in {"OK", "FLUSHING", "EOS"}
    BY DEF IInv, TypeOK, Typed
  <2>3. CASE Carry /\ unexpected' = TRUE
    BY <2>1, <2>3 DEF Carry, AfterLoop
  <2>4. CASE /\ k + 1 \in 1..Len(items)
             /\ data' = items[k + 1] /\ lp' = "push" /\ items[k + 1].kind \in {"segment", "eos"}
             /\ UNCHANGED <<srcresult, unexpected, result, task>>
    <3>1. data' # NoItem
      BY <2>1, <2>4
    <3> QED
      BY <1>1, <2>2, <2>4, <3>1
  <2> QED
    BY <1>10, <2>3, <2>4
<1>16. last_query' \in Nat
  <2>1. \A i \in 1..k : i \in 1..Len(items) /\ items[i].id \in Nat
    <3>1. \A item \in Items : item.id \in Nat
      BY DEF Items
    <3> QED
      BY <1>1, <1>5, <3>1
  <2>2. last_query \in Nat
    BY DEF IInv, Typed
  <2> QED
    BY <1>8, <2>1, <2>2
<1>17. TypeOK'
  BY <1>2, <1>12, <1>14, <1>15 DEF IInv, TypeOK, LoopUnchanged, config, pads
<1>18. Typed'
  BY <1>2, <1>11, <1>15, <1>16 DEF IInv, Typed, LoopUnchanged
<1>19. Phases'
  <2>1. items = <<>> => items' = <<>>
    BY <1>10
  <2> QED
    BY <1>2, <1>14, <1>15, <2>1
    DEF IInv, Phases, Steps, SeekPhases, RestartPhases, Leaving, Typed, LoopUnchanged, config, pads
<1>20. AnswerPending'
  <2>1. /\ \A i \in 1..Len(items) :
             items[i].kind = "query" => Asking /\ i = Len(items) /\ items[i].id = arg.id
        /\ Asking => \/ items # <<>> /\ items[Len(items)].kind = "query"
                     \/ last_query = arg.id
    BY DEF IInv, AnswerPending
  <2>2. arg' = arg
    BY <1>2 DEF LoopUnchanged
  <2>3. (\E i \in 1..k : items[i].kind = "query") => last_query' = arg.id
    <3>1. SUFFICES ASSUME \E i \in 1..k : items[i].kind = "query" PROVE last_query' = arg.id
      OBVIOUS
    <3>2. PICK i \in 1..k : items[i].kind = "query" /\ last_query' = items[i].id
      BY <1>8, <3>1
    <3>3. i \in 1..Len(items)
      BY <1>1, <1>9
    <3> QED
      BY <2>1, <3>2, <3>3
  <2>4. (\A i \in 1..k : items[i].kind # "query") => last_query' = last_query
    BY <1>8
  <2>5. CASE found = {} /\ k = Len(items) /\ items' = <<>>
    <3>1. \A i \in 1..Len(items') : FALSE
      BY <2>5, <1>11, NothingIsEmpty
    <3>2. Asking => last_query' = arg.id
      <4>1. CASE \E i \in 1..k : items[i].kind = "query"
        BY <2>3, <4>1
      <4>2. CASE \A i \in 1..k : items[i].kind # "query"
        <5>1. items # <<>> => Len(items) \in 1..k
          BY <1>1, <2>5, NothingIsEmpty
        <5> QED
          BY <2>1, <2>4, <4>2, <5>1
      <4> QED
        BY <4>1, <4>2
    <3> QED
      BY <1>14, <1>15, <2>2, <3>1, <3>2 DEF AnswerPending
  <2>6. CASE /\ k + 1 \in 1..Len(items) /\ items' = Cut(items, k + 1)
             /\ items[k + 1].kind \in {"segment", "eos"}
    <3>1. /\ Len(items') = Len(items) - (k + 1) /\ Len(items') \in Nat
          /\ \A i \in 1..Len(items') : items'[i] = items[i + (k + 1)]
      <4> DEFINE m == k + 1
      <4>1. m \in 0..Len(items) /\ m \in Nat /\ m <= Len(items)
        BY <1>1, <1>9, <2>6
      <4>2. items' = Cut(items, m)
        BY <2>6
      <4> HIDE DEF m
      <4>3. /\ Len(items') = Len(items) - m
            /\ \A i \in 1..Len(items) - m : items'[i] = items[i + m]
        BY <1>1, <4>1, <4>2, Suffix DEF Cut
      <4>4. Len(items') \in Nat
        BY <1>1, <4>1, <4>3
      <4>5. /\ Len(items') = Len(items) - m /\ Len(items') \in Nat
            /\ \A i \in 1..Len(items') : items'[i] = items[i + m]
        BY <4>3, <4>4
      <4> USE DEF m
      <4> QED
        BY <4>5
    <3>2. \A i \in 1..Len(items') : /\ i + (k + 1) \in 1..Len(items)
                                    /\ i + (k + 1) = Len(items) <=> i = Len(items')
      <4>1. k \in Nat /\ Len(items) \in Nat /\ Len(items') = Len(items) - (k + 1)
        BY <1>1, <1>9, <3>1
      <4> QED
        BY <4>1
    <3>3. \A i \in 1..Len(items') :
            items'[i].kind = "query" => Asking' /\ i = Len(items') /\ items'[i].id = arg'.id
      BY <1>14, <2>1, <2>2, <3>1, <3>2
    <3>4. \A i \in 1..k : i \in 1..Len(items) /\ i # Len(items)
      <4>1. k \in Nat /\ k + 1 <= Len(items) /\ Len(items) \in Nat
        BY <1>1, <1>9, <2>6
      <4> QED
        BY <4>1
    <3>5. last_query' = last_query
      BY <2>1, <2>4, <3>4
    <3>6. items # <<>> /\ items[Len(items)].kind = "query"
            => items' # <<>> /\ items'[Len(items')].kind = "query"
      <4>1. SUFFICES ASSUME items[Len(items)].kind = "query"
                     PROVE  items' # <<>> /\ items'[Len(items')].kind = "query"
        OBVIOUS
      <4>2. k + 1 # Len(items)
        BY <2>6, <4>1
      <4>3. Len(items') \in 1..Len(items') /\ Len(items') # 0
        <5>1. k \in Nat /\ k + 1 <= Len(items) /\ Len(items) \in Nat
          BY <1>1, <1>9, <2>6
        <5>2. Len(items') = Len(items) - (k + 1)
          BY <3>1
        <5> QED
          BY <4>2, <5>1, <5>2
      <4> QED
        BY <1>11, <3>1, <3>2, <4>1, <4>3, NothingIsEmpty
    <3> QED
      BY <1>14, <1>15, <2>1, <2>2, <3>3, <3>5, <3>6 DEF AnswerPending
  <2> QED
    BY <1>10, <2>5, <2>6
<1> QED
  BY <1>13, <1>17, <1>18, <1>19, <1>20 DEF IInv

-----------------------------------------------------------------------------
(* Upstream, the seeking thread, the one that changes the state, and the   *)
(* application.                                                            *)
LEMMA CallStep ==
  ASSUME IInv, NEW kind \in Kinds, Call(kind)
  PROVE  IInv'
<1> USE QueueAssumption DEF Call
<1>1. kind \in {"buffer", "segment", "eos", "query"} /\ calls + 1 \in Nat
  BY DEF IInv, Typed
<1>2. arg' \in Items /\ arg'.kind = kind /\ arg' # NoItem
  BY <1>1 DEF NoItem, Items
<1>3. TypeOK'
  BY <1>2 DEF IInv, TypeOK, config, flags, loopVars, outside, pads, history
<1>4. Typed'
  BY <1>1, <1>2 DEF IInv, Typed, flags, config, loopVars, outside, pads, history
<1>5. Phases'
  <2>1. Steps'
    BY <1>1, <1>2 DEF IInv, Phases, Steps, flags, loopVars
  <2>2. SeekPhases'
    BY DEF IInv, Phases, SeekPhases, flags, loopVars, outside, pads
  <2>3. RestartPhases'
    BY DEF IInv, Phases, RestartPhases, Leaving, flags, loopVars, outside, pads, history
  <2> QED
    BY <2>1, <2>2, <2>3 DEF Phases
<1>6. Stream'
  BY StreamKept DEF IInv, OnItsWay, Flowing, flags, config, loopVars, outside, pads, history
<1>7. AnswerPending'
  <2>1. ~Asking /\ ~Asking'
    BY DEF Asking
  <2> QED
    BY <2>1 DEF IInv, AnswerPending, flags, loopVars
<1> QED
  BY <1>3, <1>4, <1>5, <1>6, <1>7 DEF IInv

(* Between two flushes nothing is on its way. *)
LEMMA StreamEmpty ==
  ASSUME OnItsWay' = <<>>, in' = 0, out' = 0, upSeg' = 0, downSeg' = 0
  PROVE  Stream'
<1>1. Len(<<>>) = 0
  OBVIOUS
<1>2. Ordered(<<>>, 0, 0, gap')
  BY <1>1 DEF Ordered
<1>3. Fresh(<<>>, gen') /\ Segmented(<<>>, 0, 0)
  BY <1>1 DEF Fresh, Segmented, SegmentAt
<1> QED
  BY <1>2, <1>3 DEF Stream, InPlace, UpToDate, UnderSegment

LEMMA FlushSteps ==
  ASSUME IInv, FlushStart \/ FlushStartLocked \/ PauseTask \/ FlushStop
  PROVE  IInv'
<1> USE DEF FlushStart, FlushStartLocked, PauseTask, FlushStop, AfterAdd, AfterDel
<1>1. TypeOK'
  <2>1. CASE FlushStart
    BY <2>1 DEF IInv, TypeOK, config, flags, upVars, loopVars, history
  <2>2. CASE FlushStartLocked
    BY <2>2 DEF IInv, TypeOK, config, pads, history
  <2>3. CASE PauseTask
    BY <2>3 DEF IInv, TypeOK, config, flags, upVars, pads, history
  <2>4. CASE FlushStop
    BY <2>4 DEF IInv, TypeOK, config, flags, upVars, loopVars, history
  <2> QED
    BY <2>1, <2>2, <2>3, <2>4
<1>2. Typed'
  BY DEF IInv, Typed, flags, config, upVars, loopVars, outside, pads, history
<1>3. Phases'
  <2>1. CASE FlushStart
    BY <2>1 DEF IInv, Phases, Steps, SeekPhases, RestartPhases, Leaving, flags, config, upVars,
                loopVars, pads, history
  <2>2. CASE FlushStartLocked
    BY <2>2 DEF IInv, Phases, Steps, SeekPhases, RestartPhases, Leaving, QLockFree, config, pads, history
  <2>3. CASE PauseTask \/ FlushStop
    BY <2>3 DEF IInv, Phases, Steps, SeekPhases, RestartPhases, Leaving, flags, config, upVars,
                loopVars, pads, history
  <2> QED
    BY <2>1, <2>2, <2>3
<1>4. Stream'
  BY StreamKept
  DEF IInv, OnItsWay, Flowing, flags, config, upVars, loopVars, outside, pads, history
<1>5. AnswerPending'
  BY DEF IInv, AnswerPending, Asking, flags, upVars, loopVars
<1> QED
  BY <1>1, <1>2, <1>3, <1>4, <1>5 DEF IInv

LEMMA FlushStopSteps ==
  ASSUME IInv, FlushStopForwarded \/ FlushStopLocked
  PROVE  IInv'
<1> USE DEF FlushStopForwarded, FlushStopLocked, LockedFlush, AfterDel
<1>1. TypeOK'
  <2>1. CASE FlushStopForwarded
    BY <2>1 DEF IInv, TypeOK, config, flags, upVars, loopVars
  <2>2. CASE FlushStopLocked
    BY <2>2 DEF IInv, TypeOK, pads
  <2> QED
    BY <2>1, <2>2
<1>2. Typed'
  <2>1. CASE FlushStopForwarded
    BY <2>1 DEF IInv, Typed, upVars, loopVars
  <2>2. CASE FlushStopLocked
    <3>1. <<>> \in Seq(Items)
      OBVIOUS
    <3> QED
      BY <2>2, <3>1 DEF IInv, Typed
  <2> QED
    BY <2>1, <2>2
<1>3. Phases'
  BY DEF IInv, Phases, Steps, SeekPhases, RestartPhases, Leaving, flags, config, upVars, loopVars, pads
<1>4. Stream'
  <2>1. CASE FlushStopForwarded
    <3>1. OnItsWay' = OnItsWay /\ UNCHANGED <<out, in, gap>> /\ fl' = "locked"
      BY <2>1 DEF OnItsWay, loopVars
    <3> QED
      BY <3>1 DEF IInv, Stream, InPlace, UpToDate, UnderSegment, Flowing
  <2>2. CASE FlushStopLocked
    <3>1. lp' = "off" /\ items' = <<>>
      BY <2>2 DEF IInv, Phases, SeekPhases
    <3>2. OnItsWay' = <<>>
      BY <3>1, ConcatEmptySeq, <<>> \in Seq(Items) DEF OnItsWay
    <3> QED
      BY <2>2, <3>2, StreamEmpty
  <2> QED
    BY <2>1, <2>2
<1>5. AnswerPending'
  <2>1. CASE FlushStopForwarded
    BY <2>1 DEF IInv, Phases, SeekPhases, AnswerPending, flags
  <2>2. CASE FlushStopLocked
    <3>1. lp' = "off" /\ items' = <<>> /\ ~Asking' /\ Len(<<>>) = 0
      BY <2>2 DEF IInv, Phases, SeekPhases, Asking
    <3> QED
      BY <3>1 DEF AnswerPending
  <2> QED
    BY <2>1, <2>2
<1> QED
  BY <1>1, <1>2, <1>3, <1>4, <1>5 DEF IInv

LEMMA ActivateSteps ==
  ASSUME IInv, Activate \/ ActivateSink
  PROVE  IInv'
<1> USE DEF Activate, ActivateSink, StateUnchanged
<1>1. TypeOK'
  BY DEF IInv, TypeOK, flags, pads, history
<1>2. Typed'
  BY DEF IInv, Typed, history
<1>3. /\ items = <<>> /\ lp # "query" /\ up = "idle" /\ fl = "idle"
      /\ st = "down" => lp = "off" /\ upSeg = 0 /\ downSeg = 0
  BY DEF IInv, Phases, SeekPhases, RestartPhases, Leaving, QLockFree
<1>4. Phases'
  BY <1>3 DEF IInv, Phases, Steps, SeekPhases, RestartPhases, Leaving, history
<1>5. OnItsWay' = OnItsWay
  BY DEF OnItsWay
<1>6. Stream'
  <2>1. CASE Activate
    <3>1. OnItsWay = <<>>
      BY <1>3, <2>1, ConcatEmptySeq, <<>> \in Seq(Items) DEF OnItsWay
    <3>2. InPlace'
      BY <1>5, <2>1 DEF IInv, Stream, InPlace, history
    <3>3. Len(<<>>) = 0
      OBVIOUS
    <3>4. Fresh(<<>>, gen') /\ Segmented(<<>>, 0, 0)
      BY <3>3 DEF Fresh, Segmented, SegmentAt
    <3>5. upSeg' = 0 /\ downSeg' = 0
      BY <1>3, <2>1 DEF history
    <3> QED
      BY <1>5, <3>1, <3>2, <3>4, <3>5 DEF Stream, UpToDate, UnderSegment
  <2>2. CASE ActivateSink
    BY <1>5, <2>2, StreamKept DEF IInv, Flowing, history
  <2> QED
    BY <2>1, <2>2
<1>7. AnswerPending'
  <2>1. Len(<<>>) = 0
    OBVIOUS
  <2> QED
    BY <1>3, <2>1 DEF AnswerPending, Asking
<1> QED
  BY <1>1, <1>2, <1>4, <1>6, <1>7 DEF IInv

LEMMA LeaveSteps ==
  ASSUME IInv, DownstreamStops \/ Deactivate \/ StopTask \/ DeactivateSink
  PROVE  IInv'
<1> USE DEF DownstreamStops, Deactivate, StopTask, DeactivateSink, StateUnchanged, AfterAdd
<1>1. TypeOK'
  <2>1. CASE DownstreamStops
    BY <2>1 DEF IInv, TypeOK, flags, history
  <2>2. CASE Deactivate
    BY <2>2 DEF IInv, TypeOK, pads, history
  <2>3. CASE StopTask
    BY <2>3 DEF IInv, TypeOK, flags, pads, history
  <2>4. CASE DeactivateSink
    BY <2>4 DEF IInv, TypeOK, flags, history
  <2> QED
    BY <2>1, <2>2, <2>3, <2>4
<1>2. Typed'
  BY DEF IInv, Typed, history
<1>3. Phases'
  <2>1. CASE DownstreamStops \/ StopTask \/ DeactivateSink
    BY <2>1 DEF IInv, Phases, Steps, SeekPhases, RestartPhases, Leaving, flags, pads, history
  <2>2. CASE Deactivate
    BY <2>2 DEF IInv, Phases, Steps, SeekPhases, RestartPhases, Leaving, QLockFree, pads, history
  <2> QED
    BY <2>1, <2>2
<1>4. Stream'
  BY StreamKept DEF IInv, OnItsWay, Flowing, pads, history
<1>5. AnswerPending'
  BY DEF IInv, AnswerPending, Asking, flags
<1> QED
  BY <1>1, <1>2, <1>3, <1>4, <1>5 DEF IInv

LEMMA DrainSteps ==
  ASSUME IInv, DeactivateSinkLocked \/ Deactivated
  PROVE  IInv'
<1> USE DEF DeactivateSinkLocked, Deactivated, StateUnchanged, LockedFlush, AfterDel
<1>1. TypeOK'
  <2>1. CASE DeactivateSinkLocked
    BY <2>1 DEF IInv, TypeOK, pads
  <2>2. CASE Deactivated
    BY <2>2 DEF IInv, TypeOK, flags, pads
  <2> QED
    BY <2>1, <2>2
<1>2. Typed'
  <2>1. CASE DeactivateSinkLocked
    <3>1. <<>> \in Seq(Items)
      OBVIOUS
    <3> QED
      BY <2>1, <3>1 DEF IInv, Typed
  <2>2. CASE Deactivated
    BY <2>2 DEF IInv, Typed
  <2> QED
    BY <2>1, <2>2
<1>3. Phases'
  BY DEF IInv, Phases, Steps, SeekPhases, RestartPhases, Leaving, flags, pads
<1>4. Stream'
  <2>1. CASE DeactivateSinkLocked
    <3>1. lp' = "off" /\ items' = <<>>
      BY <2>1 DEF IInv, Phases, RestartPhases
    <3>2. OnItsWay' = <<>>
      BY <3>1, ConcatEmptySeq, <<>> \in Seq(Items) DEF OnItsWay
    <3> QED
      BY <2>1, <3>2, StreamEmpty
  <2>2. CASE Deactivated
    <3>1. OnItsWay' = OnItsWay /\ UNCHANGED <<out, in, gap>> /\ srcFlushing'
      BY <2>2 DEF OnItsWay, IInv, Phases, RestartPhases, Leaving, pads
    <3> QED
      BY <3>1 DEF IInv, Stream, InPlace, UpToDate, UnderSegment, Flowing
  <2> QED
    BY <2>1, <2>2
<1>5. AnswerPending'
  BY DEF IInv, Phases, RestartPhases, Leaving, AnswerPending, flags
<1> QED
  BY <1>1, <1>2, <1>3, <1>4, <1>5 DEF IInv

LEMMA ThresholdStep ==
  ASSUME IInv, NEW min \in Thresholds, SetThreshold(min)
  PROVE  IInv'
<1> USE DEF SetThreshold, AfterAdd
<1>1. TypeOK'
  BY DEF IInv, TypeOK, flags, upVars, pads, history
<1>2. Typed'
  BY DEF IInv, Typed, upVars, history
<1>3. Phases'
  BY DEF IInv, Phases, Steps, SeekPhases, RestartPhases, Leaving, QLockFree, flags, upVars, pads, history
<1>4. Stream'
  BY StreamKept DEF IInv, OnItsWay, Flowing, upVars, pads, history
<1>5. AnswerPending'
  BY DEF IInv, AnswerPending, Asking, flags, upVars
<1> QED
  BY <1>1, <1>2, <1>3, <1>4, <1>5 DEF IInv

(* A capacity that is lowered may make the queue leak, but never the query *)
(* at its end.                                                             *)
LEMMA CapacityStep ==
  ASSUME IInv, NEW max \in Capacities, SetCapacity(max)
  PROVE  IInv'
<1> USE DEF SetCapacity
<1>1. /\ items \in Seq(Items) /\ data \in Items /\ max \in Nat /\ Len(items) \in Nat
      /\ gap \in BOOLEAN /\ in \in Nat /\ out \in Nat
  BY QueueAssumption, NothingIsEmpty DEF IInv, Typed, TypeOK
<1>2. PICK k \in 0..Len(items) :
        /\ items' = Cut(items, k) /\ (k # 0 => leaky = "downstream" /\ gap' = TRUE)
        /\ (items # <<>> /\ items[Len(items)].kind # "buffer" => k < Len(items))
        /\ gap' \in BOOLEAN /\ (~gap' => ~gap /\ k = 0)
  <2>1. CASE leaky = "downstream"
    <3>1. PICK k \in 0..Len(items) :
            /\ items' = Cut(items, k)
            /\ items # <<>> /\ items[Len(items)].kind # "buffer" => k < Len(items)
      BY <1>1, <2>1, LeakIsCut
    <3>2. gap' = (gap \/ items' # items)
      BY <2>1
    <3>3. k # 0 => items' # items
      <4>1. Len(Cut(items, k)) = Len(items) - k
        BY <1>1, Suffix DEF Cut
      <4> QED
        BY <1>1, <3>1, <4>1
    <3> QED
      BY <1>1, <2>1, <3>1, <3>2, <3>3
  <2>2. CASE leaky # "downstream"
    <3>1. items' = items /\ gap' = gap
      BY <2>2
    <3>2. 0 \in 0..Len(items) /\ (items # <<>> => 0 < Len(items))
      BY <1>1, NothingIsEmpty
    <3> QED
      BY <1>1, <3>1, <3>2, CutNothing
  <2> QED
    BY <2>1, <2>2
<1>3. k \in Nat /\ items' \in Seq(Items) /\ Removed(items, items', 0, k) /\ (k = 0 => items' = items)
  BY <1>1, <1>2, CutRemoved, CutNothing
<1>4. up' \in {up, "woken", "queryWoken"} /\ (up' = "idle" <=> up = "idle") /\ (Asking' <=> Asking)
      /\ (up' = "woken" => up \in {"wait", "woken"})
      /\ (up' = "queryWoken" => up \in {"queryWait", "queryWoken"})
  BY DEF AfterDel, Asking
<1>5. TypeOK'
  BY <1>2, <1>4 DEF IInv, TypeOK, flags, loopVars, pads
<1>6. Typed'
  BY <1>3 DEF IInv, Typed, flags, loopVars
<1>7. Phases'
  <2>1. items = <<>> => items' = <<>>
    BY <1>1, <1>2, <1>3, NothingIsEmpty
  <2> QED
    BY <1>4, <2>1
    DEF IInv, Phases, Steps, SeekPhases, RestartPhases, Leaving, Typed, flags, loopVars, pads
<1>8. Stream'
  <2> DEFINE held == lp \in {"push", "query"}
             b == IF held THEN 1 ELSE 0
             way == Joined(held, data, items)
             way2 == Joined(held, data, items')
  <2>1. OnItsWay = way /\ OnItsWay' = way2
    BY DEF OnItsWay, Joined, loopVars
  <2>2. held \in BOOLEAN /\ b \in Nat
    OBVIOUS
  <2> HIDE DEF held
  <2>3. /\ way \in Seq(Items) /\ way2 \in Seq(Items) /\ Removed(way, way2, b, k)
        /\ (k = 0 => way2 = way)
    BY <1>1, <1>3, <2>2, JoinedIsSeq, JoinedRemoved
  <2> HIDE DEF way, way2, b
  <2>4. InPlace'
    <3>1. Ordered(way, out, in, gap)
      BY <2>1 DEF IInv, Stream, InPlace
    <3>2. gap \in BOOLEAN /\ gap' \in BOOLEAN /\ (~gap' => ~gap /\ k = 0)
      BY <1>1, <1>2
    <3>3. out \in Nat /\ in \in Nat /\ k \in Nat
      BY <1>1, <1>3
    <3>4. Ordered(way2, out, in, gap')
      BY <2>2, <2>3, <3>1, <3>2, <3>3, OrderedRemoved
    <3> QED
      BY <2>1, <3>4 DEF InPlace
  <2>5. UpToDate'
    <3>1. SUFFICES ASSUME Flowing PROVE Fresh(way2, gen)
      BY <2>1 DEF UpToDate, Flowing, pads
    <3>2. Fresh(way, gen)
      BY <2>1, <3>1 DEF IInv, Stream, UpToDate
    <3> QED
      BY <1>3, <2>2, <2>3, <3>2, FreshRemoved
  <2>6. UnderSegment'
    BY <1>2, <2>1, <2>3 DEF IInv, Stream, UnderSegment, Flowing, pads
  <2> QED
    BY <2>4, <2>5, <2>6 DEF Stream
<1>9. AnswerPending'
  <2>1. SUFFICES ASSUME srcresult = "OK"
                 PROVE  /\ \A i \in 1..Len(items') :
                             items'[i].kind = "query" =>
                               Asking /\ i = Len(items') /\ items'[i].id = arg.id
                        /\ Asking => \/ items' # <<>> /\ items'[Len(items')].kind = "query"
                                     \/ last_query = arg.id
    BY <1>4 DEF AnswerPending, QLockFree, flags, loopVars
  <2>2. /\ \A i \in 1..Len(items) :
             items[i].kind = "query" => Asking /\ i = Len(items) /\ items[i].id = arg.id
        /\ Asking => \/ items # <<>> /\ items[Len(items)].kind = "query"
                     \/ last_query = arg.id
    BY <2>1 DEF IInv, AnswerPending, QLockFree
  <2>3. /\ Len(items') = Len(items) - k /\ Len(items') \in Nat /\ k \in Nat
        /\ \A i \in 1..Len(items') : items'[i] = items[i + k]
    <3>1. Len(items') \in Nat /\ Len(items') = Len(items) - k
      BY <1>3, NothingIsEmpty DEF Removed
    <3>2. \A i \in 1..Len(items') : ~(i <= 0)
      BY <3>1
    <3> QED
      BY <1>3, <3>1, <3>2 DEF Removed
  <2>4. \A i \in 1..Len(items') : /\ i + k \in 1..Len(items)
                                  /\ i = Len(items') <=> i + k = Len(items)
    BY <1>1, <2>3
  <2>5. items # <<>> /\ items[Len(items)].kind = "query"
          => items' # <<>> /\ items'[Len(items')].kind = "query"
    <3>1. SUFFICES ASSUME items # <<>>, items[Len(items)].kind = "query"
                   PROVE  items' # <<>> /\ items'[Len(items')].kind = "query"
      OBVIOUS
    <3>2. k < Len(items)
      BY <1>2, <3>1
    <3>3. Len(items') \in 1..Len(items') /\ Len(items') # 0
      BY <1>1, <2>3, <3>2
    <3> QED
      BY <1>3, <2>3, <2>4, <3>1, <3>3, NothingIsEmpty
  <2> QED
    BY <2>2, <2>3, <2>4, <2>5
<1> QED
  BY <1>5, <1>6, <1>7, <1>8, <1>9 DEF IInv

-----------------------------------------------------------------------------
(* What upstream brought leaks. *)
LEMMA LeakStep ==
  ASSUME IInv, Leak, ~Asking
  PROVE  IInv'
<1> USE DEF Leak, Return
<1>1. TypeOK'
  BY DEF IInv, TypeOK, config, flags, loopVars, outside, pads
<1>2. Typed'
  <2>1. NoItem \in Items
    BY DEF NoItem, Items
  <2> QED
    BY <2>1 DEF IInv, Typed, flags, config, loopVars, outside, pads
<1>3. Phases'
  BY DEF IInv, Phases, Steps, SeekPhases, RestartPhases, Leaving, flags, config, loopVars, outside, pads
<1>4. Stream'
  BY StreamKept DEF IInv, OnItsWay, Flowing, flags, config, loopVars, outside, pads
<1>5. AnswerPending'
  BY DEF IInv, AnswerPending, Asking, flags, loopVars
<1> QED
  BY <1>1, <1>2, <1>3, <1>4, <1>5 DEF IInv

LEMMA AcceptStep ==
  ASSUME IInv, Accept, QLockFree, srcresult = "OK", up # "idle", ~Asking,
         arg.kind \in {"buffer", "segment", "eos"}
  PROVE  IInv'
<1>1. items \in Seq(Items) /\ Len(items) \in Nat /\ gap \in BOOLEAN
  BY NothingIsEmpty DEF IInv, Typed, TypeOK
<1>2. 0 \in 0..Len(items) /\ Cut(items, 0) = items
  BY <1>1, CutNothing
<1>3. gap' \in BOOLEAN /\ (~gap' => ~gap /\ 0 = 0) /\ ~(0 # 0)
  BY <1>1 DEF Accept
<1>4. Enqueue(Cut(items, 0)) /\ Return /\ UNCHANGED last_query
  BY <1>2 DEF Accept
<1> QED
  BY <1>2, <1>3, <1>4, EnqueueStep

LEMMA MakeRoomStep ==
  ASSUME IInv, MakeRoom, QLockFree, srcresult = "OK", up = "overrun", arg.kind = "buffer"
  PROVE  IInv'
<1>1. leaky \in {"no", "upstream", "downstream"} /\ max_size \in Nat /\ items \in Seq(Items)
  BY QueueAssumption DEF IInv, TypeOK, Typed
<1>2. up # "idle" /\ ~Asking
  BY DEF Asking
<1>3. CASE leaky = "upstream"
  BY <1>2, <1>3, LeakStep DEF MakeRoom
<1>4. CASE leaky = "no"
  BY <1>2, <1>4, UpAtStep DEF MakeRoom
<1>5. CASE leaky = "downstream"
  <2>1. /\ Enqueue(LeakDownstream(items, max_size)) /\ Return
        /\ gap' = TRUE /\ UNCHANGED last_query
    BY <1>5 DEF MakeRoom
  <2>2. PICK k \in 0..Len(items) :
          /\ LeakDownstream(items, max_size) = Cut(items, k)
          /\ items # <<>> /\ items[Len(items)].kind # "buffer" => k < Len(items)
    BY <1>1, LeakIsCut
  <2>3. Enqueue(Cut(items, k)) /\ gap' \in BOOLEAN
    BY <2>1, <2>2
  <2> QED
    BY <1>2, <1>5, <2>1, <2>3, EnqueueStep
<1> QED
  BY <1>1, <1>3, <1>4, <1>5

LEMMA UpstreamStep ==
  ASSUME IInv, Upstream
  PROVE  IInv'
<1>1. /\ up = "call" => arg.kind \in {"buffer", "segment", "eos"}
      /\ up \in {"overrun", "wait", "woken", "running"} => arg.kind = "buffer"
      /\ up \in {"query", "queryWait", "queryWoken"} => arg.kind = "query"
  BY DEF IInv, Phases, Steps
<1>2. CASE SinkEvent
  BY <1>1, <1>2, RefusedStep, AcceptStep DEF SinkEvent, Asking
<1>3. CASE Chain
  BY <1>1, <1>3, RefusedStep, AcceptStep, UpAtStep DEF Chain, Asking
<1>4. CASE ChainOverrun
  BY <1>1, <1>4, RefusedStep, AcceptStep, MakeRoomStep DEF ChainOverrun, Asking
<1>5. CASE ChainWoken
  <2>1. up = "woken" /\ ~Asking
    BY <1>5 DEF ChainWoken, Asking
  <2>2. CASE Refused
    BY <2>1, <2>2, RefusedStep
  <2>3. CASE UpAt("wait") \/ UpAt("running")
    BY <1>1, <2>1, <2>3, UpAtStep
  <2> QED
    BY <1>5, <2>2, <2>3 DEF ChainWoken
<1>6. CASE ChainRunning
  BY <1>1, <1>6, RefusedStep, AcceptStep, UpAtStep DEF ChainRunning, Asking
<1>7. CASE SinkQuery
  <2>1. up = "query" /\ ~Asking /\ arg.kind = "query" /\ QLockFree
    BY <1>1, <1>7 DEF SinkQuery, Asking
  <2>2. CASE Refused
    BY <2>1, <2>2, RefusedStep
  <2>3. CASE /\ srcresult = "OK" /\ Enqueue(items) /\ up' = "queryWait"
             /\ UNCHANGED <<arg, last_query, gap>>
    <3>1. items \in Seq(Items) /\ Len(items) \in Nat /\ gap \in BOOLEAN
      BY NothingIsEmpty DEF IInv, Typed, TypeOK
    <3>2. 0 \in 0..Len(items) /\ Cut(items, 0) = items
      BY <3>1, CutNothing
    <3>3. gap' \in BOOLEAN /\ (~gap' => ~gap /\ 0 = 0) /\ ~(0 # 0)
      BY <2>3, <3>1
    <3>4. Enqueue(Cut(items, 0))
      BY <2>3, <3>2
    <3> QED
      BY <2>1, <2>3, <3>2, <3>3, <3>4, EnqueueStep
  <2> QED
    BY <1>7, <2>2, <2>3 DEF SinkQuery
<1>8. CASE SinkQueryWoken
  <2>1. CASE UpAt("queryWait")
    BY <1>8, <2>1, UpAtStep DEF SinkQueryWoken
  <2>2. CASE Refused /\ ~(srcresult = "OK" /\ items # <<>>)
    BY <1>8, <2>2, RefusedStep DEF SinkQueryWoken, QLockFree
  <2> QED
    BY <1>8, <2>1, <2>2 DEF SinkQueryWoken
<1> QED
  BY <1>2, <1>3, <1>4, <1>5, <1>6, <1>7, <1>8 DEF Upstream

LEMMA LoopStep ==
  ASSUME IInv, Loop
  PROVE  IInv'
<1>1. srcresult \in {"OK", "FLUSHING", "EOS"}
  BY DEF IInv, TypeOK
<1>2. ASSUME srcresult # "OK", GiveUp(srcresult), lp \in {"entry", "underrun", "woken", "running"}
      PROVE  IInv'
  BY <1>1, <1>2, GiveUpStep
<1>3. ASSUME NEW to \in {"entry", "underrun", "wait", "running"}, LoopAt(to),
             lp \in {"entry", "underrun", "woken", "running"}
      PROVE  IInv'
  BY <1>3, LoopAtStep DEF Busy
<1>4. ASSUME srcresult = "OK", ~EmptyNow, Dequeue, lp \in {"entry", "running"}
      PROVE  IInv'
  BY <1>4, DequeueStep DEF EmptyNow, IsEmpty
<1>5. CASE TaskRuns
  BY <1>5, LoopAtStep DEF TaskRuns, Busy
<1>6. CASE LoopEntry
  BY <1>2, <1>3, <1>4, <1>6 DEF LoopEntry
<1>7. CASE LoopUnderrun
  <2>1. (GiveUp(srcresult) /\ srcresult # "OK") \/ LoopAt("wait") \/ LoopAt("running")
    BY <1>7 DEF LoopUnderrun
  <2> QED
    BY <1>2, <1>3, <1>7, <2>1 DEF LoopUnderrun
<1>8. CASE LoopWoken
  <2>1. (GiveUp(srcresult) /\ srcresult # "OK") \/ LoopAt("wait") \/ LoopAt("running")
    BY <1>8 DEF LoopWoken
  <2> QED
    BY <1>2, <1>3, <1>8, <2>1 DEF LoopWoken
<1>9. CASE LoopRunning
  BY <1>2, <1>3, <1>4, <1>9 DEF LoopRunning
<1>10. CASE \E res \in {"OK", "FLUSHING", "EOS"} : Push(res)
  BY <1>10, PushStep
<1>11. CASE Pushed
  <2>1. lp = "pushed"
    BY <1>11 DEF Pushed
  <2>2. \/ srcresult # "OK" /\ GiveUp("FLUSHING")
        \/ srcresult = "OK" /\ GiveUp("EOS")
        \/ srcresult = "OK" /\ GiveUp("FLUSHING")
        \/ srcresult = "OK" /\ SkipToPushable
        \/ /\ srcresult = "OK" /\ Carry /\ LoopUnchanged
           /\ UNCHANGED <<items, eos, unexpected, last_query, up, answers, downSeg, out, gap>>
    BY <1>11 DEF Pushed
  <2> QED
    BY <2>1, <2>2, GiveUpStep, SkipStep, CarryStep
<1>12. CASE PeerQuery
  BY <1>12, PeerQueryStep
<1> QED
  BY <1>5, <1>6, <1>7, <1>8, <1>9, <1>10, <1>11, <1>12 DEF Loop

LEMMA UnchangedStep ==
  ASSUME IInv, UNCHANGED vars
  PROVE  IInv'
<1> USE DEF vars, config, flags, upVars, loopVars, outside, pads, history
<1>1. TypeOK' /\ Typed'
  BY DEF IInv, TypeOK, Typed
<1>2. Phases'
  BY DEF IInv, Phases, Steps, SeekPhases, RestartPhases, Leaving
<1>3. Stream'
  BY StreamKept DEF IInv, OnItsWay, Flowing
<1>4. AnswerPending'
  BY DEF IInv, AnswerPending, Asking
<1> QED
  BY <1>1, <1>2, <1>3, <1>4 DEF IInv

LEMMA NextIInv ==
  ASSUME IInv, [Next]_vars
  PROVE  IInv'
<1>1. CASE \E kind \in Kinds : Call(kind)
  BY <1>1, CallStep
<1>2. CASE Upstream
  BY <1>2, UpstreamStep
<1>3. CASE Loop
  BY <1>3, LoopStep
<1>4. CASE FlushStart \/ Seek
  BY <1>4, FlushSteps, FlushStopSteps DEF Seek
<1>5. CASE Activate \/ DownstreamStops \/ ChangeState
  BY <1>5, ActivateSteps, LeaveSteps, DrainSteps DEF ChangeState
<1>6. CASE \E max \in Capacities : SetCapacity(max)
  BY <1>6, CapacityStep
<1>7. CASE \E min \in Thresholds : SetThreshold(min)
  BY <1>7, ThresholdStep
<1>8. CASE UNCHANGED vars
  BY <1>8, UnchangedStep
<1> QED
  BY <1>1, <1>2, <1>3, <1>4, <1>5, <1>6, <1>7, <1>8 DEF Next

(* The inductive invariant holds in every state. *)
THEOREM Invariance == Spec => []IInv
<1>1. Init => IInv
  BY InitIInv
<1>2. IInv /\ [Next]_vars => IInv'
  BY NextIInv
<1> QED
  BY <1>1, <1>2, PTL DEF Spec

(* Every variable of the queue keeps its type; the task holds an item just *)
(* while it pushes one, upstream brings one just while it is in a call.     *)
THEOREM TypeCorrect == Spec => []TypeOK
<1>1. IInv => TypeOK
  BY DEF IInv
<1> QED
  BY <1>1, Invariance, PTL

(* Items leave the queue in the order in which they were accepted, and     *)
(* unless one was dropped since the last flush, all that were accepted     *)
(* were delivered or are on their way: through leaks, downstream's EOS,    *)
(* flushes and restarts (gst_queue_chain, gst_queue_push_one).             *)
THEOREM ItemsStayInOrder == Spec => []InOrder
<1>1. ASSUME IInv PROVE InOrder
  <2> DEFINE way == OnItsWay
  <2>1. way \in Seq(Items) /\ out \in Nat /\ in \in Nat
    <3>1. (lp \in {"push", "query"}) \in BOOLEAN
      OBVIOUS
    <3> QED
      BY <1>1, <3>1, JoinedIsSeq, WayIsJoined DEF IInv, Typed
  <2>2. Ordered(way, out, in, gap)
    BY <1>1 DEF IInv, Stream, InPlace
  <2> HIDE DEF way
  <2>3. DOMAIN way = 1..Len(way) /\ Len(way) \in Nat
    BY <2>1, NothingIsEmpty
  <2>4. ASSUME NEW i \in DOMAIN way
        PROVE  way[i].n > IF i = 1 THEN (IF fl = "locked" THEN 0 ELSE out) ELSE way[i - 1].n
    <3>1. i \in 1..Len(way) /\ out < way[i].n /\ way[i].n \in Nat
      BY <2>1, <2>2, <2>3, Numbers DEF Ordered
    <3>2. CASE i = 1
      BY <2>1, <3>1, <3>2
    <3>3. CASE i # 1
      <4>1. i - 1 \in 1..Len(way) /\ i - 1 < i
        BY <2>3, <3>1, <3>3
      <4>2. way[i - 1].n < way[i].n /\ way[i - 1].n \in Nat
        BY <2>1, <2>2, <3>1, <4>1, Numbers DEF Ordered
      <4> QED
        BY <3>1, <3>3, <4>2
    <3> QED
      BY <3>2, <3>3
  <2>5. ~gap => out + Len(way) = in
    BY <2>2 DEF Ordered
  <2> QED
    BY <2>4, <2>5 DEF InOrder, way
<1> QED
  BY <1>1, Invariance, PTL

(* Once a flush or a restart is over downstream, nothing that was accepted *)
(* before it is on its way (gst_queue_handle_sink_event and the            *)
(* activation of the pads).                                                *)
THEOREM NothingStale == Spec => []NoStale
<1>1. ASSUME IInv PROVE NoStale
  <2>1. SUFFICES ASSUME Flowing, NEW item \in ToSet(OnItsWay) PROVE item.gen = gen
    BY DEF NoStale, Flowing
  <2>2. (lp \in {"push", "query"}) \in BOOLEAN
    OBVIOUS
  <2>3. OnItsWay \in Seq(Items)
    BY <1>1, <2>2, JoinedIsSeq, WayIsJoined DEF IInv, Typed
  <2>4. \E i \in 1..Len(OnItsWay) : item = OnItsWay[i]
    BY <2>3, NothingIsEmpty DEF ToSet
  <2>5. Fresh(OnItsWay, gen)
    BY <1>1, <2>1 DEF IInv, Stream, UpToDate
  <2> QED
    BY <2>4, <2>5 DEF Fresh
<1> QED
  BY <1>1, Invariance, PTL
(* Where downstream gets to: only what the task pushes, a query that is    *)
(* answered, or the start over after a flush changes it.                   *)
LEMMA WhereOutChanges ==
  ASSUME IInv, Next, lp = "push"
  PROVE  out' \in {out, 0} \/ \E res \in {"OK", "FLUSHING", "EOS"} : Push(res)
<1> USE DEF history, LoopUnchanged, Carry, LockedFlush
<1>1. CASE \E kind \in Kinds : Call(kind)
  BY <1>1 DEF Call
<1>2. CASE Upstream
  <2>1. ASSUME NEW q, Enqueue(q) PROVE out' = out
    BY <2>1 DEF Enqueue
  <2>2. ASSUME Accept PROVE out' = out
    BY <2>1, <2>2 DEF Accept
  <2>3. ASSUME Refused PROVE out' = out
    BY <2>3 DEF Refused
  <2>4. ASSUME NEW pc, UpAt(pc) PROVE out' = out
    BY <2>4 DEF UpAt
  <2>5. ASSUME IInv, MakeRoom PROVE out' = out
    <3>1. leaky \in {"no", "upstream", "downstream"}
      BY <2>5, QueueAssumption DEF IInv, TypeOK
    <3>2. CASE Leak
      BY <3>2 DEF Leak
    <3>3. CASE \E q : Enqueue(q)
      BY <2>1, <3>3
    <3>4. CASE UpAt("wait")
      BY <2>4, <3>4
    <3> QED
      BY <2>5, <3>1, <3>2, <3>3, <3>4 DEF MakeRoom
  <2>6. CASE SinkEvent \/ Chain
    BY <2>2, <2>3, <2>4, <2>6 DEF SinkEvent, Chain
  <2>7. CASE ChainOverrun \/ ChainWoken \/ ChainRunning
    BY <2>2, <2>3, <2>4, <2>5, <2>7 DEF ChainOverrun, ChainWoken, ChainRunning
  <2>8. CASE SinkQuery \/ SinkQueryWoken
    BY <2>1, <2>3, <2>4, <2>8 DEF SinkQuery, SinkQueryWoken
  <2> QED
    BY <1>2, <2>6, <2>7, <2>8 DEF Upstream
<1>3. CASE Loop
  BY <1>3 DEF Loop, TaskRuns, LoopEntry, LoopUnderrun, LoopWoken, LoopRunning, Pushed, PeerQuery
<1>4. CASE FlushStart \/ Seek
  BY <1>4 DEF FlushStart, Seek, FlushStartLocked, PauseTask, FlushStop, FlushStopForwarded,
              FlushStopLocked
<1>5. CASE Activate \/ DownstreamStops \/ ChangeState
  BY <1>5 DEF Activate, DownstreamStops, ChangeState, ActivateSink, Deactivate, StopTask,
              DeactivateSink, DeactivateSinkLocked, Deactivated
<1>6. CASE \E max \in Capacities : SetCapacity(max)
  BY <1>6 DEF SetCapacity
<1>7. CASE \E min \in Thresholds : SetThreshold(min)
  BY <1>7 DEF SetThreshold
<1> QED
  BY <1>1, <1>2, <1>3, <1>4, <1>5, <1>6, <1>7 DEF Next

(* The item that is being pushed is the first on its way. *)
LEMMA HeldIsFirst ==
  ASSUME IInv, lp = "push"
  PROVE  /\ OnItsWay \in Seq(Items) /\ Len(OnItsWay) \in Nat \ {0} /\ OnItsWay[1] = data
         /\ data.n \in Nat /\ out \in Nat /\ out < data.n
<1>1. items \in Seq(Items) /\ data \in Items /\ out \in Nat
  BY DEF IInv, Typed
<1>2. <<data>> \in Seq(Items) /\ Len(<<data>>) = 1 /\ <<data>>[1] = data
  BY <1>1
<1>3. OnItsWay = <<data>> \o items
  BY DEF OnItsWay
<1>4. /\ OnItsWay \in Seq(Items) /\ Len(OnItsWay) = 1 + Len(items)
      /\ OnItsWay[1] = data /\ Len(items) \in Nat
  BY <1>1, <1>2, <1>3, ConcatProperties, NothingIsEmpty
<1>5. 1 \in 1..Len(OnItsWay)
  BY <1>4
<1>6. Ordered(OnItsWay, out, in, gap)
  BY DEF IInv, Stream, InPlace
<1>7. out < data.n
  BY <1>4, <1>5, <1>6 DEF Ordered
<1>8. data.n \in Nat
  BY <1>4, <1>5, Numbers
<1> QED
  BY <1>1, <1>4, <1>7, <1>8

(* A buffer goes downstream under the segment that upstream sent it in,    *)
(* whatever was thrown away before it, unless the queue leaks downstream   *)
(* (gst_queue_push_one, gst_queue_chain).                                  *)
THEOREM BuffersUnderSegment == Spec => InSegment
<1>1. ASSUME IInv, [Next]_vars, leaky # "downstream", lp = "push", out' = data.n
      PROVE  data.seg = downSeg
  <2>1. /\ OnItsWay \in Seq(Items) /\ Len(OnItsWay) \in Nat \ {0} /\ OnItsWay[1] = data
        /\ data.n \in Nat /\ out \in Nat /\ out < data.n
    BY <1>1, HeldIsFirst
  <2>2. out' # out /\ out' # 0
    BY <1>1, <2>1
  <2>3. Next
    BY <1>1, <2>2 DEF vars, history
  <2>4. PICK res \in {"OK", "FLUSHING", "EOS"} : Push(res)
    BY <1>1, <2>2, <2>3, WhereOutChanges
  <2>5. ~srcFlushing
    BY <2>2, <2>4 DEF Push
  <2>6. fl # "locked"
    BY <1>1 DEF IInv, Phases, SeekPhases
  <2>7. Segmented(OnItsWay, downSeg, upSeg)
    BY <1>1, <2>5, <2>6 DEF IInv, Stream, UnderSegment, Flowing
  <2>8. 1 \in 1..Len(OnItsWay) + 1 /\ 1 # Len(OnItsWay) + 1 /\ 1..1 - 1 = {}
    BY <2>1
  <2>9. SegmentAt(OnItsWay, 1, upSeg) = downSeg
    BY <2>7, <2>8 DEF Segmented
  <2> QED
    BY <2>1, <2>8, <2>9 DEF SegmentAt
<1>2. IInv /\ [Next]_vars
        => [leaky # "downstream" /\ lp = "push" /\ data.kind = "buffer" /\ out' = data.n
              => data.seg = downSeg]_vars
  BY <1>1
<1> QED
  BY <1>2, Invariance, PTL DEF Spec, InSegment

(* When a query that waited is told that it was answered, the answer that  *)
(* the queue kept is that of this query, though flushes may have ended     *)
(* earlier ones (gst_queue_handle_sink_query).                             *)
THEOREM QueriesGetTheirAnswer == Spec => OwnAnswer
<1>1. ASSUME IInv, [Next]_vars, up = "queryWoken", up' = "idle", srcresult = "OK"
      PROVE  last_query = arg.id
  <2>1. SinkQueryWoken
    <3>1. Next
      BY <1>1 DEF vars, upVars
    <3>2. CASE \E kind \in Kinds : Call(kind)
      BY <1>1, <3>2 DEF Call
    <3>3. CASE Upstream
      BY <1>1, <3>3 DEF Upstream, SinkEvent, Chain, ChainOverrun, ChainWoken, ChainRunning,
                        SinkQuery
    <3>4. CASE Loop
      <4>1. up' = up \/ up' = AfterDel
        BY <3>4 DEF Loop, TaskRuns, LoopEntry, LoopUnderrun, LoopWoken, LoopRunning, LoopAt,
                    GiveUp, Dequeue, Push, Pushed, SkipToPushable, PeerQuery
      <4> QED
        BY <1>1, <4>1 DEF AfterDel
    <3>5. CASE FlushStart \/ Seek
      BY <1>1, <3>5 DEF FlushStart, Seek, FlushStartLocked, PauseTask, FlushStop,
                        FlushStopForwarded, FlushStopLocked, LockedFlush, AfterDel, upVars
    <3>6. CASE Activate \/ DownstreamStops \/ ChangeState
      BY <1>1, <3>6 DEF Activate, DownstreamStops, ChangeState, ActivateSink, Deactivate,
                        StopTask, DeactivateSink, DeactivateSinkLocked, Deactivated,
                        LockedFlush, AfterDel
    <3>7. CASE \E max \in Capacities : SetCapacity(max)
      BY <1>1, <3>7 DEF SetCapacity, AfterDel
    <3>8. CASE \E min \in Thresholds : SetThreshold(min)
      BY <1>1, <3>8 DEF SetThreshold, upVars
    <3> QED
      BY <3>1, <3>2, <3>3, <3>4, <3>5, <3>6, <3>7, <3>8 DEF Next
  <2>2. items = <<>> /\ lp # "query"
    BY <1>1, <2>1 DEF SinkQueryWoken, UpAt, QLockFree
  <2> QED
    BY <1>1, <2>2 DEF IInv, AnswerPending, Asking
<1>2. IInv /\ [Next]_vars
        => [up = "queryWoken" /\ up' = "idle" /\ srcresult = "OK" => last_query = arg.id]_vars
  BY <1>1
<1> QED
  BY <1>2, Invariance, PTL DEF Spec, OwnAnswer
=============================================================================
