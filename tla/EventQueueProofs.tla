-------------------------- MODULE EventQueueProofs --------------------------
(***************************************************************************)
(* Proofs about EventQueue, for any pool, any length of the millisecond and *)
(* any delays: no entry is lost, the list is sorted and equals keep their   *)
(* order, no cycle is lost, the CPU is never given cycles past the next     *)
(* event or none, no event is served later than an overrun and a cycle, and *)
(* a timer neither drifts nor ends.                                         *)
(***************************************************************************)
EXTENDS EventQueue, SequenceTheorems, WellFoundedInduction, TLAPS

Sorted(q) == \A i, j \in 1 .. Len(q) : i < j => q[i].index <= q[j].index

----------------------------------------------------------------------------
(* The list. *)

\* What an entry of the list is.
LEMMA EntriesOfList ==
  ASSUME NEW q \in Seq(Entries)
  PROVE  /\ Len(q) \in Nat
         /\ \A k \in 1 .. Len(q) :
              q[k] \in Entries /\ q[k].index \in Int /\ q[k].event \in Handlers \cup {Timer}
<1>1. Len(q) \in Nat /\ \A k \in 1 .. Len(q) : q[k] \in Entries
  BY ElementOfSeq, LenProperties
<1>2. \A e \in Entries : e.index \in Int /\ e.event \in Handlers \cup {Timer}
  BY DEF Entries
<1>. QED
  BY <1>1, <1>2

\* r is q with e for its element i: those behind it have moved up by one.
Inserted(r, q, i, e) ==
    /\ Len(r) = Len(q) + 1
    /\ \A j \in 1 .. Len(q) + 1 :
         r[j] = IF j < i THEN q[j] ELSE IF j = i THEN e ELSE q[j - 1]

LEMMA InsertedAt ==
  ASSUME NEW S, NEW q \in Seq(S), NEW i \in 1 .. Len(q) + 1, NEW e \in S
  PROVE  InsertAt(q, i, e) \in Seq(S) /\ Inserted(InsertAt(q, i, e), q, i, e)
<1> DEFINE front == SubSeq(q, 1, i - 1)
           back == SubSeq(q, i, Len(q))
           upTo == front \o <<e>>
<1>0. Len(q) \in Nat /\ \A k \in 1 .. Len(q) : q[k] \in S
  BY ElementOfSeq, LenProperties
<1>1. front \in Seq(S) /\ Len(front) = i - 1 /\ \A j \in 1 .. i - 1 : front[j] = q[j]
  BY <1>0, SubSeqProperties
<1>2. back \in Seq(S) /\ Len(back) = Len(q) - i + 1
      /\ \A j \in 1 .. Len(q) - i + 1 : back[j] = q[i + j - 1]
  BY <1>0, SubSeqProperties
<1>3. <<e>> \in Seq(S) /\ Len(<<e>>) = 1 /\ <<e>>[1] = e
  OBVIOUS
<1> HIDE DEF front, back
<1>4. upTo \in Seq(S) /\ Len(upTo) = i
      /\ \A j \in 1 .. i : upTo[j] = IF j < i THEN q[j] ELSE e
  <2>1. upTo \in Seq(S) /\ Len(upTo) = (i - 1) + 1
        /\ \A j \in 1 .. (i - 1) + 1 :
             upTo[j] = IF j <= i - 1 THEN front[j] ELSE <<e>>[j - (i - 1)]
    BY <1>1, <1>3, ConcatProperties
  <2>. QED
    BY <2>1, <1>1, <1>3
<1> HIDE DEF upTo
<1>5. upTo \o back \in Seq(S) /\ Len(upTo \o back) = i + (Len(q) - i + 1)
      /\ \A j \in 1 .. i + (Len(q) - i + 1) :
           (upTo \o back)[j] = IF j <= i THEN upTo[j] ELSE back[j - i]
  BY <1>2, <1>4, ConcatProperties
<1>6. InsertAt(q, i, e) = upTo \o back
  BY DEF InsertAt, upTo, front, back
<1>7. ASSUME NEW j \in 1 .. Len(q) + 1
      PROVE  (upTo \o back)[j] = IF j < i THEN q[j] ELSE IF j = i THEN e ELSE q[j - 1]
  <2>1. CASE j <= i
    BY <2>1, <1>0, <1>4, <1>5
  <2>2. CASE j > i
    <3>1. j - i \in 1 .. Len(q) - i + 1 /\ i + (j - i) - 1 = j - 1
      BY <2>2, <1>0
    <3>2. back[j - i] = q[j - 1]
      BY <3>1, <1>2
    <3>. QED
      BY <2>2, <3>2, <1>0, <1>5
  <2>3. j <= i \/ j > i
    BY <1>0
  <2>. QED
    BY <2>1, <2>2, <2>3, Zenon
<1> DEFINE r == upTo \o back
<1>8. Len(r) = Len(q) + 1 /\ r \in Seq(S)
  BY <1>0, <1>5
<1>9. \A j \in 1 .. Len(q) + 1 : r[j] = IF j < i THEN q[j] ELSE IF j = i THEN e ELSE q[j - 1]
  BY <1>7
<1> HIDE DEF r
<1>10. Inserted(r, q, i, e)
  BY <1>8, <1>9, Zenon DEF Inserted
<1>. QED
  BY <1>6, <1>8, <1>10 DEF r

\* There is a place for every index, behind the entries due no later.
LEMMA PlaceIn ==
  ASSUME NEW q \in Seq(Entries), NEW index \in Int
  PROVE  /\ Place(q, index) \in 1 .. Len(q) + 1
         /\ \A j \in 1 .. Place(q, index) - 1 : q[j].index <= index
         /\ Place(q, index) = Len(q) + 1 \/ q[Place(q, index)].index > index
<1>0. Len(q) \in Nat /\ \A k \in 1 .. Len(q) : q[k].index \in Int
  BY EntriesOfList
<1> DEFINE Later == {k \in 1 .. Len(q) + 1 : k = Len(q) + 1 \/ q[k].index > index}
<1>1. Later \subseteq Nat /\ Len(q) + 1 \in Later
  BY <1>0
<1>2. PICK i \in Later : \A k \in Later : ~ (<<k, i>> \in OpToRel(<, Nat))
  BY <1>1, NatLessThanWellFounded, WFMin
<1>3. ASSUME NEW k \in Later PROVE i <= k
  <2>1. k \in Nat /\ i \in Nat
    BY <1>1
  <2>2. ~ (k < i)
    BY <1>2, <2>1, Zenon DEF OpToRel
  <2>. QED
    BY <2>1, <2>2
<1>4. ASSUME NEW j \in 1 .. i - 1 PROVE q[j].index <= index
  <2>1. i \in 1 .. Len(q) + 1
    OBVIOUS
  <2>2. j \notin Later /\ j \in 1 .. Len(q)
    BY <1>0, <1>3, <2>1
  <2>. QED
    BY <2>2, <1>0
<1>5. i \in 1 .. Len(q) + 1 /\ (i = Len(q) + 1 \/ q[i].index > index)
  OBVIOUS
<1>. QED
  BY <1>4, <1>5 DEF Place

\* A sorted list stays sorted; the newcomer is the only entry that is new.
LEMMA LinkedIn ==
  ASSUME NEW q \in Seq(Entries), NEW entry \in Entries, Sorted(q)
  PROVE  /\ Linked(q, entry) \in Seq(Entries)
         /\ Len(Linked(q, entry)) = Len(q) + 1
         /\ Sorted(Linked(q, entry))
         /\ \A j \in 1 .. Len(q) + 1 :
              Linked(q, entry)[j] = entry \/ \E k \in 1 .. Len(q) : Linked(q, entry)[j] = q[k]
         /\ \A k \in 1 .. Len(q) : \E j \in 1 .. Len(q) + 1 : Linked(q, entry)[j] = q[k]
         /\ \E j \in 1 .. Len(q) + 1 : Linked(q, entry)[j] = entry
<1>0. /\ Len(q) \in Nat /\ entry.index \in Int
      /\ \A k \in 1 .. Len(q) : q[k] \in Entries /\ q[k].index \in Int
  BY EntriesOfList DEF Entries
<1> DEFINE p == Place(q, entry.index)
           r == Linked(q, entry)
<1>1. /\ p \in 1 .. Len(q) + 1
      /\ \A j \in 1 .. p - 1 : q[j].index <= entry.index
      /\ p = Len(q) + 1 \/ q[p].index > entry.index
  BY <1>0, PlaceIn
<1> HIDE DEF p
<1>2. /\ r \in Seq(Entries) /\ Len(r) = Len(q) + 1
      /\ \A j \in 1 .. Len(q) + 1 :
           r[j] = IF j < p THEN q[j] ELSE IF j = p THEN entry ELSE q[j - 1]
  <2>1. r = InsertAt(q, p, entry)
    BY DEF Linked, p
  <2>2. InsertAt(q, p, entry) \in Seq(Entries) /\ Inserted(InsertAt(q, p, entry), q, p, entry)
    BY <1>1, InsertedAt, Zenon
  <2> HIDE DEF r
  <2>. QED
    BY <2>1, <2>2, Zenon DEF Inserted
<1> HIDE DEF r
<1>3. \A k \in p .. Len(q) : q[k].index > entry.index
  <2> SUFFICES ASSUME NEW k \in p .. Len(q) PROVE q[k].index > entry.index
    OBVIOUS
  <2>1. k \in 1 .. Len(q) /\ p \in 1 .. Len(q)
    BY <1>0, <1>1
  <2>2. q[p].index <= q[k].index
    BY <1>0, <2>1 DEF Sorted
  <2>. QED
    BY <1>0, <1>1, <2>1, <2>2
<1>4. Sorted(r)
  <2> SUFFICES ASSUME NEW i \in 1 .. Len(q) + 1, NEW j \in 1 .. Len(q) + 1, i < j
               PROVE  r[i].index <= r[j].index
    BY <1>2 DEF Sorted
  <2>1. CASE j < p
    <3>1. i \in 1 .. Len(q) /\ j \in 1 .. Len(q) /\ r[i] = q[i] /\ r[j] = q[j]
      BY <2>1, <1>0, <1>1, <1>2
    <3>. QED
      BY <3>1 DEF Sorted
  <2>2. CASE j = p
    <3>1. i \in 1 .. p - 1 /\ r[i] = q[i] /\ r[j] = entry
      BY <2>2, <1>0, <1>1, <1>2
    <3>. QED
      BY <3>1, <1>1
  <2>3. CASE j > p
    <3>1. j - 1 \in p .. Len(q) /\ r[j] = q[j - 1]
      BY <2>3, <1>0, <1>1, <1>2
    <3>2. CASE i < p
      <4>1. r[i] = q[i] /\ i \in 1 .. Len(q) /\ j - 1 \in 1 .. Len(q) /\ i < j - 1
        BY <3>1, <3>2, <1>0, <1>1, <1>2
      <4>. QED
        BY <3>1, <4>1 DEF Sorted
    <3>3. CASE i = p
      <4>1. r[i] = entry /\ q[j - 1].index > entry.index /\ q[j - 1].index \in Int
        BY <3>1, <3>3, <1>0, <1>1, <1>2, <1>3
      <4>. QED
        BY <3>1, <4>1, <1>0
    <3>4. CASE i > p
      <4>1. r[i] = q[i - 1] /\ i - 1 \in 1 .. Len(q) /\ j - 1 \in 1 .. Len(q) /\ i - 1 < j - 1
        BY <3>1, <3>4, <1>0, <1>1, <1>2
      <4>. QED
        BY <3>1, <4>1 DEF Sorted
    <3>. QED
      BY <3>2, <3>3, <3>4, <1>1
  <2>. QED
    BY <2>1, <2>2, <2>3, <1>1
<1>5. ASSUME NEW j \in 1 .. Len(q) + 1
      PROVE  r[j] = entry \/ \E k \in 1 .. Len(q) : r[j] = q[k]
  <2>1. CASE j < p
    <3>1. j \in 1 .. Len(q) /\ r[j] = q[j]
      BY <2>1, <1>0, <1>1, <1>2
    <3>. QED
      BY <3>1
  <2>2. CASE j > p
    <3>1. j - 1 \in 1 .. Len(q) /\ r[j] = q[j - 1]
      BY <2>2, <1>0, <1>1, <1>2
    <3>. QED
      BY <3>1
  <2>3. CASE j = p
    BY <2>3, <1>1, <1>2
  <2>. QED
    BY <2>1, <2>2, <2>3, <1>0, <1>1
<1>6. \A k \in 1 .. Len(q) : \E j \in 1 .. Len(q) + 1 : r[j] = q[k]
  <2> SUFFICES ASSUME NEW k \in 1 .. Len(q) PROVE \E j \in 1 .. Len(q) + 1 : r[j] = q[k]
    OBVIOUS
  <2>1. CASE k < p
    <3>1. k \in 1 .. Len(q) + 1 /\ r[k] = q[k]
      BY <2>1, <1>0, <1>1, <1>2
    <3>. QED
      BY <3>1
  <2>2. CASE k >= p
    <3>1. k + 1 \in 1 .. Len(q) + 1 /\ r[k + 1] = q[k]
      BY <2>2, <1>0, <1>1, <1>2
    <3>. QED
      BY <3>1
  <2>. QED
    BY <2>1, <2>2, <1>0, <1>1
<1>7. r[p] = entry
  BY <1>1, <1>2
<1>. QED
  BY <1>1, <1>2, <1>4, <1>5, <1>6, <1>7 DEF r

----------------------------------------------------------------------------
(* What a call of a device does to the queue and to the slice. *)

\* The first event is not due before the end of the slice.
SliceEnds(q, left, cycles) ==
    cycles > 1 /\ q # <<>> => q[1].index >= (CPU_CycleMax - left) * RESOLUTION

\* What holds of the queue whenever it is called.
QueueReady ==
    /\ queue \in Seq(Entries) /\ Sorted(queue)
    /\ free \in Nat /\ CPU_CycleLeft \in Int /\ srv_lag \in Int

\* Entries are moved between list and pool, cycles between slice and millisecond.
Called(cycles) ==
    /\ queue' \in Seq(Entries) /\ Sorted(queue')
    /\ free' \in Nat /\ free' + Len(queue') = free + Len(queue)
    /\ CPU_Cycles' \in Int /\ CPU_CycleLeft' \in Int
    /\ CPU_CycleLeft' + CPU_Cycles' = CPU_CycleLeft + cycles
    /\ cycles = 0 => CPU_Cycles' = 0
    /\ SliceEnds(queue, CPU_CycleLeft, cycles) => SliceEnds(queue', CPU_CycleLeft', CPU_Cycles')

\* So many whole cycles are at least so many parts.
LEMMA MakeCyclesBound ==
  ASSUME NEW parts \in Int, NEW cycles \in Nat \ {0}, PIC_MakeCycles(parts) >= cycles
  PROVE  parts >= cycles * RESOLUTION
<1>0. RESOLUTION \in Nat \ {0}
  BY EventQueueAssumption
<1> DEFINE q == parts \div RESOLUTION
<1>1. parts >= 0
  <2> SUFFICES ASSUME parts < 0 PROVE FALSE
    OBVIOUS
  <2>1. (-parts) \div RESOLUTION >= 0
    BY <1>0
  <2>. QED
    BY <2>1, <1>0 DEF PIC_MakeCycles
<1>2. q \in Nat /\ parts >= q * RESOLUTION /\ q >= cycles
  BY <1>0, <1>1 DEF PIC_MakeCycles
<1> HIDE DEF q
<1>3. q * RESOLUTION >= cycles * RESOLUTION
  BY <1>0, <1>2
<1>4. q * RESOLUTION \in Int /\ cycles * RESOLUTION \in Int
  BY <1>0, <1>2
<1>. QED
  BY <1>2, <1>3, <1>4

\* A slice that is not cut ends at the first event.
LEMMA NotCut ==
  ASSUME NEW head \in Entries, NEW cycles \in Int, CPU_CycleLeft \in Int,
         ~Cut(head, cycles), cycles > 1
  PROVE  head.index >= (CPU_CycleMax - CPU_CycleLeft) * RESOLUTION
<1>0. RESOLUTION \in Nat \ {0} /\ CPU_CycleMax \in Nat \ {0} /\ head.index \in Int
  BY EventQueueAssumption DEF Entries
<1> DEFINE now == PIC_TickIndexND(CPU_CycleLeft, cycles)
           parts == head.index - now * RESOLUTION
<1>1. now \in Int /\ now = CPU_CycleMax - CPU_CycleLeft - cycles
  BY <1>0 DEF PIC_TickIndexND
<1>2. parts \in Int
  BY <1>0, <1>1
<1>3. PIC_MakeCycles(parts) \in Int
  BY <1>0, <1>2 DEF PIC_MakeCycles
<1>4. PIC_MakeCycles(parts) >= cycles
  BY <1>3 DEF Cut
<1>5. cycles \in Nat \ {0}
  OBVIOUS
<1>6. parts >= cycles * RESOLUTION
  BY <1>2, <1>4, <1>5, MakeCyclesBound
<1> HIDE DEF now
<1>7. head.index >= (now + cycles) * RESOLUTION
  BY <1>0, <1>1, <1>6
<1>. QED
  BY <1>0, <1>1, <1>7

\* With no slice running a call moves no cycles.
LEMMA CalledAtRest ==
  ASSUME QueueReady, Called(0)
  PROVE  CPU_Cycles' = 0 /\ CPU_CycleLeft' = CPU_CycleLeft
<1> DEFINE left == CPU_CycleLeft'
<1>1. CPU_Cycles' = 0 /\ left \in Int /\ left + 0 = CPU_CycleLeft + 0 /\ CPU_CycleLeft \in Int
  BY DEF Called, QueueReady
<1> HIDE DEF left
<1>2. left = CPU_CycleLeft
  BY <1>1
<1>. QED
  BY <1>1, <1>2 DEF left

\* Adding an event.
LEMMA AddDoes ==
  ASSUME NEW event \in Handlers \cup {Timer}, NEW delay \in Nat, NEW value \in Vals \cup {0},
         NEW cycles \in Int, QueueReady, PIC_AddEvent(event, delay, value, cycles)
  PROVE  /\ Called(cycles)
         /\ \A j \in 1 .. Len(queue') :
              \/ /\ queue'[j].event = event
                 /\ InEventService = TRUE => queue'[j].index = delay + srv_lag
              \/ \E k \in 1 .. Len(queue) : queue'[j] = queue[k]
         /\ \A k \in 1 .. Len(queue) : \E j \in 1 .. Len(queue') : queue'[j] = queue[k]
         /\ free # 0 => \E j \in 1 .. Len(queue') : queue'[j].event = event
<1>1. CASE free = 0
  <2>1. UNCHANGED <<queue, free, CPU_CycleLeft>> /\ CPU_Cycles' = cycles
    BY <1>1 DEF PIC_AddEvent
  <2>2. Called(cycles)
    BY <2>1 DEF QueueReady, Called, Sorted
  <2>. QED
    BY <1>1, <2>1, <2>2
<1>2. CASE free # 0
  <2> DEFINE entry == [index |-> Stamp(delay, cycles), event |-> event, value |-> value]
             q == Linked(queue, entry)
  <2>1. Stamp(delay, cycles) \in Int
    <3>1. CPU_CycleMax \in Int /\ RESOLUTION \in Int /\ delay \in Int
      BY EventQueueAssumption
    <3>2. PIC_TickIndexND(CPU_CycleLeft, cycles) \in Int
      BY <3>1 DEF PIC_TickIndexND, QueueReady
    <3>3. PIC_TickIndexND(CPU_CycleLeft, cycles) * RESOLUTION \in Int
      BY <3>1, <3>2
    <3>. QED
      BY <3>1, <3>3 DEF Stamp, QueueReady
  <2>2. entry \in Entries /\ entry.event = event /\ entry.index = Stamp(delay, cycles)
    BY <2>1 DEF Entries
  <2>a. InEventService = TRUE => Stamp(delay, cycles) = delay + srv_lag
    BY Zenon DEF Stamp
  <2>3. /\ queue' = q /\ free' = free - 1
        /\ IF Cut(q[1], cycles)
           THEN CPU_CycleLeft' = CPU_CycleLeft + cycles /\ CPU_Cycles' = 0
           ELSE CPU_CycleLeft' = CPU_CycleLeft /\ CPU_Cycles' = cycles
    BY <1>2 DEF PIC_AddEvent
  <2> HIDE DEF entry
  <2>4. /\ q \in Seq(Entries) /\ Len(q) = Len(queue) + 1 /\ Sorted(q)
        /\ \A j \in 1 .. Len(queue) + 1 :
             q[j] = entry \/ \E k \in 1 .. Len(queue) : q[j] = queue[k]
        /\ \A k \in 1 .. Len(queue) : \E j \in 1 .. Len(queue) + 1 : q[j] = queue[k]
        /\ \E j \in 1 .. Len(queue) + 1 : q[j] = entry
    BY <2>2, LinkedIn DEF QueueReady
  <2> HIDE DEF q
  <2>5. Len(queue) \in Nat /\ q[1] \in Entries
    BY <2>4, EntriesOfList DEF QueueReady
  <2>6. SliceEnds(queue', CPU_CycleLeft', CPU_Cycles')
    <3>1. CASE Cut(q[1], cycles)
      BY <2>3, <3>1 DEF SliceEnds
    <3>2. CASE ~Cut(q[1], cycles)
      BY <2>3, <2>5, <3>2, NotCut DEF SliceEnds, QueueReady
    <3>. QED
      BY <3>1, <3>2
  <2>7. Called(cycles)
    <3>1. queue' \in Seq(Entries) /\ Sorted(queue')
      BY <2>3, <2>4 DEF Sorted
    <3>2. free' \in Nat /\ free' + Len(queue') = free + Len(queue)
      BY <1>2, <2>3, <2>4, <2>5 DEF QueueReady
    <3>3. /\ CPU_Cycles' \in Int /\ CPU_CycleLeft' \in Int
          /\ CPU_CycleLeft' + CPU_Cycles' = CPU_CycleLeft + cycles
          /\ cycles = 0 => CPU_Cycles' = 0
      BY <2>3 DEF QueueReady
    <3>. QED
      BY <2>6, <3>1, <3>2, <3>3 DEF Called
  <2>. QED
    BY <2>2, <2>a, <2>3, <2>4, <2>7
<1>. QED
  BY <1>1, <1>2

\* The first of a sorted list is due first.
LEMMA FirstIsLeast ==
  ASSUME NEW q, Sorted(q), NEW i \in 1 .. Len(q), q[1].index \in Int, 1 \in 1 .. Len(q), Len(q) \in Nat
  PROVE  q[1].index <= q[i].index
<1>1. CASE i = 1
  BY <1>1
<1>2. CASE i # 1
  <2>1. 1 < i
    BY <1>2
  <2>. QED
    BY <2>1 DEF Sorted
<1>. QED
  BY <1>1, <1>2

\* Removing events.
LEMMA UnlinkDoes ==
  ASSUME NEW gone, NEW cycles \in Int, QueueReady, Unlink(gone, cycles)
  PROVE  /\ Called(cycles)
         /\ \A j \in 1 .. Len(queue') : \E k \in 1 .. Len(queue) : queue'[j] = queue[k]
         /\ \A k \in 1 .. Len(queue) :
              queue[k] \notin gone => \E j \in 1 .. Len(queue') : queue'[j] = queue[k]
<1>0. /\ Len(queue) \in Nat
      /\ \A k \in 1 .. Len(queue) : queue[k] \in Entries /\ queue[k].index \in Int
  BY EntriesOfList DEF QueueReady
<1>a. PICK n \in 0 .. Len(queue) :
        \E stays \in [1 .. n -> 1 .. Len(queue)] :
          /\ \A i, j \in 1 .. n : i < j => stays[i] < stays[j]
          /\ \A k \in 1 .. Len(queue) : queue[k] \notin gone <=> \E i \in 1 .. n : stays[i] = k
          /\ queue' = [i \in 1 .. n |-> queue[stays[i]]]
  BY DEF Unlink
<1>1. PICK stays \in [1 .. n -> 1 .. Len(queue)] :
        /\ \A i, j \in 1 .. n : i < j => stays[i] < stays[j]
        /\ \A k \in 1 .. Len(queue) : queue[k] \notin gone <=> \E i \in 1 .. n : stays[i] = k
        /\ queue' = [i \in 1 .. n |-> queue[stays[i]]]
  BY <1>a
<1>2. /\ queue' \in Seq(Entries) /\ Len(queue') = n
      /\ \A i \in 1 .. n : stays[i] \in 1 .. Len(queue) /\ queue'[i] = queue[stays[i]]
  BY <1>0, <1>1
<1>3. Sorted(queue')
  BY <1>0, <1>1, <1>2 DEF QueueReady, Sorted
<1>4. free' = free + Len(queue) - Len(queue') /\ CPU_Cycles' = cycles /\ CPU_CycleLeft' = CPU_CycleLeft
  BY DEF Unlink
<1>5. free' \in Nat /\ free' + Len(queue') = free + Len(queue)
  BY <1>0, <1>2, <1>4 DEF QueueReady
<1>6. ASSUME SliceEnds(queue, CPU_CycleLeft, cycles)
      PROVE  SliceEnds(queue', CPU_CycleLeft', CPU_Cycles')
  <2> DEFINE bound == (CPU_CycleMax - CPU_CycleLeft) * RESOLUTION
  <2>0. bound \in Int
    BY EventQueueAssumption DEF QueueReady
  <2> SUFFICES ASSUME cycles > 1, queue' # <<>> PROVE queue'[1].index >= bound
    BY <1>4 DEF SliceEnds
  <2>1. 1 \in 1 .. n
    BY <1>2
  <2>2. stays[1] \in 1 .. Len(queue) /\ 1 \in 1 .. Len(queue) /\ queue # <<>>
    BY <1>0, <1>2, <2>1
  <2>3. queue[1].index >= bound
    BY <1>6, <2>2 DEF SliceEnds
  <2> HIDE DEF bound
  <2>4. queue[1].index <= queue[stays[1]].index
    <3>1. Sorted(queue)
      BY DEF QueueReady
    <3>. QED
      BY <1>0, <2>2, <3>1, FirstIsLeast
  <2>. QED
    BY <1>0, <1>2, <2>0, <2>1, <2>2, <2>3, <2>4
<1>7. Called(cycles)
  BY <1>2, <1>3, <1>4, <1>5, <1>6 DEF Called, QueueReady
<1>. QED
  BY <1>1, <1>2, <1>7

\* A device adds and removes events of its own: it leaves timers alone.
LEMMA DeviceCallDoes ==
  ASSUME NEW delays \in SUBSET Nat, NEW cycles \in Int, QueueReady, DeviceCall(delays, cycles)
  PROVE  /\ Called(cycles)
         /\ \A j \in 1 .. Len(queue') :
              queue'[j].event = Timer => \E k \in 1 .. Len(queue) : queue'[j] = queue[k]
         /\ \A k \in 1 .. Len(queue) :
              queue[k].event = Timer => \E j \in 1 .. Len(queue') : queue'[j] = queue[k]
<1>1. PICK event \in Handlers :
        \/ \E delay \in delays, value \in Vals : PIC_AddEvent(event, delay, value, cycles)
        \/ PIC_RemoveEvents(event, cycles)
        \/ \E value \in Vals : PIC_RemoveSpecificEvents(event, value, cycles)
  BY DEF DeviceCall
<1>2. event # Timer
  BY EventQueueAssumption
<1>3. CASE \E delay \in delays, value \in Vals : PIC_AddEvent(event, delay, value, cycles)
  <2>1. PICK delay \in delays, value \in Vals : PIC_AddEvent(event, delay, value, cycles)
    BY <1>3
  <2>2. delay \in Nat /\ value \in Vals \cup {0}
    OBVIOUS
  <2>3. /\ Called(cycles)
        /\ \A j \in 1 .. Len(queue') :
             queue'[j].event = event \/ \E k \in 1 .. Len(queue) : queue'[j] = queue[k]
        /\ \A k \in 1 .. Len(queue) : \E j \in 1 .. Len(queue') : queue'[j] = queue[k]
    BY <2>1, <2>2, AddDoes
  <2>. QED
    BY <1>2, <2>3
<1>4. ASSUME NEW gone, Unlink(gone, cycles), \A e \in gone : e.event = event
      PROVE  /\ Called(cycles)
             /\ \A j \in 1 .. Len(queue') : \E k \in 1 .. Len(queue) : queue'[j] = queue[k]
             /\ \A k \in 1 .. Len(queue) :
                  queue[k].event = Timer => \E j \in 1 .. Len(queue') : queue'[j] = queue[k]
  <2>1. /\ Called(cycles)
        /\ \A j \in 1 .. Len(queue') : \E k \in 1 .. Len(queue) : queue'[j] = queue[k]
        /\ \A k \in 1 .. Len(queue) :
             queue[k] \notin gone => \E j \in 1 .. Len(queue') : queue'[j] = queue[k]
    BY <1>4, UnlinkDoes
  <2>2. ASSUME NEW k \in 1 .. Len(queue), queue[k].event = Timer PROVE queue[k] \notin gone
    BY <1>2, <1>4, <2>2
  <2>. QED
    BY <2>1, <2>2
<1>5. CASE PIC_RemoveEvents(event, cycles)
  <2>1. \A e \in EntriesOf(event) : e.event = event
    BY DEF EntriesOf
  <2>2. Unlink(EntriesOf(event), cycles)
    BY <1>5 DEF PIC_RemoveEvents
  <2>. QED
    BY <1>4, <2>1, <2>2
<1>6. CASE \E value \in Vals : PIC_RemoveSpecificEvents(event, value, cycles)
  <2>1. PICK value \in Vals : PIC_RemoveSpecificEvents(event, value, cycles)
    BY <1>6
  <2> DEFINE gone == {e \in EntriesOf(event) : e.value = value}
  <2>2. \A e \in gone : e.event = event
    BY DEF EntriesOf
  <2>3. Unlink(gone, cycles)
    BY <2>1 DEF PIC_RemoveSpecificEvents
  <2> HIDE DEF gone
  <2>. QED
    BY <1>4, <2>2, <2>3
<1>. QED
  BY <1>1, <1>3, <1>5, <1>6

----------------------------------------------------------------------------
(* Time. *)

Wrap == TickWrap * CPU_CycleMax

\* What the counters say less what was executed.
Lead == PIC_Ticks * CPU_CycleMax + PIC_TickIndexND(CPU_CycleLeft, CPU_Cycles) - clock

LEMMA WrapIsNat == Wrap \in Nat \ {0}
  BY EventQueueAssumption DEF Wrap

\* The remainder is nought for the multiples.
LEMMA Multiple ==
  ASSUME NEW n \in Nat \ {0}, NEW a \in Int
  PROVE  a % n = 0 <=> \E k \in Int : a = k * n
<1>1. a % n \in 0 .. n - 1 /\ a \div n \in Int /\ a = n * (a \div n) + (a % n)
  OBVIOUS
<1>2. ASSUME a % n = 0 PROVE \E k \in Int : a = k * n
  <2>1. a = (a \div n) * n
    BY <1>1, <1>2
  <2>. QED
    BY <1>1, <2>1
<1>3. ASSUME NEW k \in Int, a = k * n PROVE a % n = 0
  <2> DEFINE q == a \div n
             r == a % n
  <2>1. r \in 0 .. n - 1 /\ q \in Int /\ k * n = n * q + r
    BY <1>1, <1>3
  <2> HIDE DEF q, r
  <2>2. n * (k - q) = r
    BY <2>1
  <2>3. k - q = 0
    <3>1. CASE k - q >= 1
      <4>1. n * (k - q) >= n
        BY <3>1, <2>1
      <4>. QED
        BY <4>1, <2>1, <2>2
    <3>2. CASE k - q <= -1
      <4>1. n * (k - q) <= -n
        BY <3>2, <2>1
      <4>. QED
        BY <4>1, <2>1, <2>2
    <3>. QED
      BY <3>1, <3>2, <2>1
  <2>4. r = 0
    BY <2>1, <2>2, <2>3
  <2>. QED
    BY <2>4 DEF r
<1>. QED
  BY <1>2, <1>3

\* A remainder is the number less a multiple.
LEMMA Remainder ==
  ASSUME NEW n \in Nat \ {0}, NEW a \in Int
  PROVE  a % n \in 0 .. n - 1 /\ \E k \in Int : a % n = a - k * n
<1>1. a % n \in 0 .. n - 1 /\ a \div n \in Int /\ a = n * (a \div n) + (a % n)
  OBVIOUS
<1>2. a % n = a - (a \div n) * n
  BY <1>1
<1>. QED
  BY <1>1, <1>2

\* Multiples added to a multiple.
LEMMA MultipleMoved ==
  ASSUME NEW n \in Nat \ {0}, NEW a \in Int, NEW b \in Int, NEW k \in Int,
         a % n = 0, b = a + k * n
  PROVE  b % n = 0
<1>1. PICK m \in Int : a = m * n
  BY Multiple
<1>2. b = (m + k) * n
  BY <1>1
<1>3. m + k \in Int
  BY <1>1
<1>. QED
  BY <1>2, <1>3, Multiple

----------------------------------------------------------------------------
(* The inductive invariant. *)

\* In the service loop the whole millisecond is at hand, and index_nd says how
\* far it is.
ServiceAtRest ==
    at \in {"service", "handler", "timer"} =>
        CPU_Cycles = 0 /\ index_nd = CPU_CycleMax - CPU_CycleLeft

QueueInv ==
    /\ TypeOK /\ EntriesConserved /\ QueueSorted
    /\ SliceEndsAtEvent /\ TimeIsCycles /\ ServiceAtRest

\* Where a slice that is left to run its cycles ends.
LEMMA SliceIs ==
  ASSUME NEW left \in Int, NEW cycles \in Int
  PROVE  PIC_TickIndexND(left, cycles) + cycles = CPU_CycleMax - left
  BY EventQueueAssumption DEF PIC_TickIndexND

\* What the invariant says of the queue.
LEMMA InvReady ==
  ASSUME QueueInv
  PROVE  /\ QueueReady /\ CPU_Cycles \in Int /\ Len(queue) \in Nat
         /\ CPU_CycleMax \in Nat \ {0} /\ TickWrap \in Nat \ {0} /\ PIC_Ticks \in Nat
         /\ clock \in 0 .. Wrap - 1
<1>1. queue \in Seq(Entries) /\ Sorted(queue) /\ CPU_CycleLeft \in Int /\ srv_lag \in Int
  BY DEF QueueInv, TypeOK, QueueSorted, Sorted
<1>2. free \in Nat /\ PIC_Ticks \in Nat
  BY EventQueueAssumption DEF QueueInv, TypeOK
<1>3. clock \in 0 .. Wrap - 1 /\ CPU_Cycles \in Int
  BY DEF QueueInv, TypeOK, Wrap
<1>. QED
  BY <1>1, <1>2, <1>3, LenProperties, EventQueueAssumption DEF QueueReady

\* Cycles moved between slice and millisecond take no time.
LEMMA TimeStands ==
  ASSUME QueueInv, CPU_Cycles' \in Int, CPU_CycleLeft' \in Int,
         CPU_CycleLeft' + CPU_Cycles' = CPU_CycleLeft + CPU_Cycles,
         PIC_Ticks' = PIC_Ticks, clock' = clock
  PROVE  TimeIsCycles'
<1>0. CPU_CycleLeft \in Int /\ CPU_Cycles \in Int /\ CPU_CycleMax \in Int
  BY InvReady DEF QueueReady
<1> DEFINE left == CPU_CycleLeft'
           cycles == CPU_Cycles'
<1>1. left \in Int /\ cycles \in Int /\ left + cycles = CPU_CycleLeft + CPU_Cycles
  OBVIOUS
<1> HIDE DEF left, cycles
<1>2. PIC_TickIndexND(left, cycles) = PIC_TickIndexND(CPU_CycleLeft, CPU_Cycles)
  BY <1>0, <1>1 DEF PIC_TickIndexND
<1>. QED
  BY <1>2 DEF QueueInv, TimeIsCycles, left, cycles

\* Cycles executed are counted by both.
LEMMA TimeRuns ==
  ASSUME QueueInv, NEW n \in Nat, CPU_Cycles' \in Int, CPU_CycleLeft' \in Int,
         CPU_CycleLeft' + CPU_Cycles' = CPU_CycleLeft + CPU_Cycles - n,
         PIC_Ticks' = PIC_Ticks, clock' = (clock + n) % (TickWrap * CPU_CycleMax)
  PROVE  TimeIsCycles' /\ clock' \in 0 .. TickWrap * CPU_CycleMax - 1
<1>0. /\ Wrap \in Nat \ {0} /\ clock \in Int /\ CPU_CycleMax \in Int /\ PIC_Ticks \in Int
      /\ CPU_CycleLeft \in Int /\ CPU_Cycles \in Int
  BY InvReady, WrapIsNat DEF QueueReady
<1>1. clock' \in 0 .. Wrap - 1 /\ \E k \in Int : clock' = clock + n - k * Wrap
  <2> DEFINE sum == clock + n
  <2>1. sum \in Int /\ clock' = sum % Wrap
    BY <1>0 DEF Wrap
  <2> HIDE DEF sum
  <2>2. clock' \in 0 .. Wrap - 1 /\ \E k \in Int : clock' = sum - k * Wrap
    BY <1>0, <2>1, Remainder
  <2>3. PICK k \in Int : clock' = sum - k * Wrap
    BY <2>2
  <2>4. clock' = clock + n - k * Wrap
    BY <1>0, <2>3 DEF sum
  <2>. QED
    BY <2>2, <2>4
<1>2. PICK k \in Int : clock' = clock + n - k * Wrap
  BY <1>1
<1>3. Lead \in Int /\ Lead % Wrap = 0
  BY <1>0 DEF QueueInv, TimeIsCycles, Lead, Wrap, PIC_TickIndexND
<1>4. Lead' = Lead + k * Wrap
  <2> DEFINE t == PIC_Ticks * CPU_CycleMax
             w == k * Wrap
             left == CPU_CycleLeft'
             cycles == CPU_Cycles'
             executed == clock'
  <2>1. /\ t \in Int /\ w \in Int /\ left \in Int /\ cycles \in Int
        /\ left + cycles = CPU_CycleLeft + CPU_Cycles - n
    <3>1. t \in Int /\ w \in Int
      BY <1>0
    <3>2. /\ left \in Int /\ cycles \in Int
          /\ left + cycles = CPU_CycleLeft + CPU_Cycles - n
      OBVIOUS
    <3>. QED
      BY <3>1, <3>2, Zenon
  <2>2. /\ Lead = t + (CPU_CycleMax - CPU_CycleLeft - CPU_Cycles) - clock
        /\ Lead' = t + (CPU_CycleMax - left - cycles) - executed
    BY DEF Lead, PIC_TickIndexND
  <2>3. executed = clock + n - w
    BY <1>2
  <2> HIDE DEF t, w, left, cycles, executed
  <2>4. Lead' = Lead + w
    BY <1>0, <2>1, <2>2, <2>3
  <2>. QED
    BY <2>4 DEF w
<1>5. Lead' \in Int
  BY <1>0, <1>3, <1>4
<1>6. Lead' % Wrap = 0
  BY <1>0, <1>3, <1>4, <1>5, MultipleMoved
<1>. QED
  BY <1>1, <1>6 DEF TimeIsCycles, Lead, Wrap

----------------------------------------------------------------------------
(* The steps. *)

\* A step that leaves the list as it is keeps it sorted and accounted for.
LEMMA ListStays ==
  ASSUME QueueInv, queue' = queue
  PROVE  QueueSorted' /\ queue' \in Seq(Entries)
  BY DEF QueueInv, QueueSorted, TypeOK

LEMMA RunQueueStep ==
  ASSUME QueueInv, PIC_RunQueue PROVE QueueInv'
<1>0. CPU_CycleLeft \in Int /\ CPU_Cycles \in Int /\ CPU_CycleMax \in Int
  BY InvReady DEF QueueReady
<1>1. CPU_CycleLeft' \in Int /\ CPU_Cycles' = 0 /\ CPU_CycleLeft' = CPU_CycleLeft + CPU_Cycles
  BY <1>0 DEF PIC_RunQueue
<1>a. index_nd' \in Int
  BY <1>0, <1>1 DEF QueueInv, TypeOK, PIC_RunQueue, PIC_TickIndexND
<1>b. /\ at = "loop" /\ ~InEventService
      /\ \/ InEventService' = TRUE /\ at' = "service"
         \/ InEventService' = InEventService /\ at' = "tick"
  BY DEF QueueInv, TypeOK, PIC_RunQueue
<1>2. TypeOK'
  <2>1. UNCHANGED <<queue, free, PIC_Ticks, serving, srv_lag, clock>>
    BY DEF PIC_RunQueue
  <2>2. CPU_Cycles' \in Int /\ CPU_CycleLeft' \in Int
    BY <1>1
  <2>3. /\ InEventService' \in BOOLEAN /\ at' \in Phases
        /\ InEventService' <=> at' \in {"service", "handler", "timer"}
    <3>1. InEventService = FALSE
      BY <1>b, Zenon DEF QueueInv, TypeOK
    <3>2. CASE InEventService' = TRUE /\ at' = "service"
      BY <3>2, Zenon DEF Phases
    <3>3. CASE InEventService' = InEventService /\ at' = "tick"
      BY <3>1, <3>3, Zenon DEF Phases
    <3>. QED
      BY <1>b, <3>2, <3>3
  <2>4. serving # NoEntry <=> at' \in {"handler", "timer"}
    BY <1>b DEF QueueInv, TypeOK
  <2>. QED
    BY <1>a, <2>1, <2>2, <2>3, <2>4 DEF QueueInv, TypeOK
<1>3. EntriesConserved' /\ QueueSorted'
  BY ListStays DEF PIC_RunQueue, QueueInv, EntriesConserved
<1>4. SliceEndsAtEvent'
  BY DEF PIC_RunQueue, SliceEndsAtEvent
<1>5. TimeIsCycles'
  BY <1>0, <1>1, TimeStands DEF PIC_RunQueue
<1>6. ServiceAtRest'
  BY <1>0, <1>1 DEF PIC_RunQueue, PIC_TickIndexND, ServiceAtRest
<1>. QED
  BY <1>2, <1>3, <1>4, <1>5, <1>6 DEF QueueInv

LEMMA ServeEventStep ==
  ASSUME QueueInv, ServeEvent PROVE QueueInv'
<1>0. /\ queue \in Seq(Entries) /\ queue # <<>> /\ Len(queue) \in Nat
      /\ at = "service" /\ serving = NoEntry
  BY InvReady DEF QueueReady, ServeEvent, Due, QueueInv, TypeOK
<1>1. queue[1] \in Entries /\ queue[1].index \in Int /\ queue[1] # NoEntry /\ Len(queue) > 0
  BY <1>0, EntriesOfList, NoEntryAssumption
<1>2. /\ queue' \in Seq(Entries) /\ Len(queue') = Len(queue) - 1
      /\ \A i \in 1 .. Len(queue') : queue'[i] = queue[i + 1]
  BY <1>0, HeadTailProperties DEF ServeEvent
<1>3. TypeOK'
  BY <1>0, <1>1, <1>2 DEF QueueInv, TypeOK, ServeEvent, Phases, cpuVars
<1>4. EntriesConserved'
  BY <1>0, <1>1, <1>2 DEF QueueInv, EntriesConserved, ServeEvent, TypeOK
<1>5. QueueSorted'
  BY <1>0, <1>2 DEF QueueInv, QueueSorted
<1>6. SliceEndsAtEvent' /\ TimeIsCycles' /\ ServiceAtRest'
  BY <1>0 DEF QueueInv, ServeEvent, SliceEndsAtEvent, TimeIsCycles, ServiceAtRest, cpuVars
<1>. QED
  BY <1>3, <1>4, <1>5, <1>6 DEF QueueInv

\* A handler and a tick handler call with no slice running.
LEMMA HandlerCallsStep ==
  ASSUME QueueInv, HandlerCalls PROVE QueueInv'
<1>0. QueueReady /\ CPU_Cycles \in Int /\ CPU_Cycles = 0 /\ ServiceDelays \in SUBSET Nat
  BY InvReady, EventQueueAssumption DEF HandlerCalls, QueueInv, ServiceAtRest
<1>1. Called(CPU_Cycles)
  BY <1>0, DeviceCallDoes DEF HandlerCalls
<1>2. Len(queue) \in Nat /\ Len(queue') \in Nat
  BY <1>0, <1>1, LenProperties DEF Called, QueueReady
<1>3. EntriesConserved'
  BY <1>0, <1>1, <1>2 DEF HandlerCalls, QueueInv, EntriesConserved, Called
<1>4. free' \in 0 .. PIC_QUEUESIZE
  BY <1>1, <1>2, <1>3, EventQueueAssumption DEF EntriesConserved, Called
<1>5. TypeOK'
  BY <1>1, <1>4 DEF HandlerCalls, QueueInv, TypeOK, Called
<1>6. QueueSorted'
  BY <1>1 DEF Called, Sorted, QueueSorted
<1>7. SliceEndsAtEvent'
  BY DEF HandlerCalls, SliceEndsAtEvent
<1>8. TimeIsCycles'
  BY <1>0, <1>1, TimeStands DEF HandlerCalls, Called
<1>9. ServiceAtRest'
  <2>1. CPU_Cycles' = 0 /\ CPU_CycleLeft' = CPU_CycleLeft
    BY <1>0, <1>1, CalledAtRest
  <2>. QED
    BY <2>1 DEF HandlerCalls, QueueInv, ServiceAtRest
<1>. QED
  BY <1>3, <1>5, <1>6, <1>7, <1>8, <1>9 DEF QueueInv

\* What a call keeps, wherever the loop is.
LEMMA CallKeeps ==
  ASSUME QueueInv, NEW cycles \in Int, Called(cycles), UNCHANGED <<serving, at>>
  PROVE  /\ EntriesConserved' /\ QueueSorted' /\ queue' \in Seq(Entries)
         /\ free' \in 0 .. PIC_QUEUESIZE
<1>0. QueueReady
  BY InvReady
<1>1. Len(queue) \in Nat /\ Len(queue') \in Nat
  BY <1>0, LenProperties DEF Called, QueueReady
<1>2. EntriesConserved'
  BY <1>0, <1>1 DEF QueueInv, EntriesConserved, Called, QueueReady
<1>3. free' \in 0 .. PIC_QUEUESIZE
  BY <1>1, <1>2, EventQueueAssumption DEF EntriesConserved, Called
<1>4. QueueSorted' /\ queue' \in Seq(Entries)
  BY DEF Called, Sorted, QueueSorted
<1>. QED
  BY <1>2, <1>3, <1>4

LEMMA ExecuteIOStep ==
  ASSUME QueueInv, ExecuteIO PROVE QueueInv'
<1> DEFINE cycles == CPU_Cycles - 1
<1>0. /\ QueueReady /\ CPU_Cycles \in Int /\ cycles \in Int /\ CPU_Cycles - 1 = cycles
      /\ CPU_CycleLeft \in Int /\ Delays \in SUBSET Nat
  BY InvReady, EventQueueAssumption DEF QueueReady
<1> HIDE DEF cycles
<1>1. DeviceCall(Delays, cycles) /\ at = "cpu" /\ UNCHANGED <<serving, at>>
  BY DEF ExecuteIO, cycles
<1>2. Called(cycles)
  BY <1>0, <1>1, DeviceCallDoes
<1>3. TimeIsCycles' /\ clock' \in 0 .. TickWrap * CPU_CycleMax - 1
  <2> DEFINE left == CPU_CycleLeft'
             rest == CPU_Cycles'
  <2>1. left \in Int /\ rest \in Int /\ left + rest = CPU_CycleLeft + cycles
    BY <1>2 DEF Called
  <2> HIDE DEF left, rest
  <2>2. left + rest = CPU_CycleLeft + CPU_Cycles - 1
    BY <1>0, <2>1
  <2>3. PIC_Ticks' = PIC_Ticks /\ clock' = (clock + 1) % (TickWrap * CPU_CycleMax) /\ 1 \in Nat
    BY DEF ExecuteIO
  <2>. QED
    BY <2>1, <2>2, <2>3, TimeRuns DEF left, rest
<1>4. EntriesConserved' /\ QueueSorted' /\ queue' \in Seq(Entries) /\ free' \in 0 .. PIC_QUEUESIZE
  BY <1>0, <1>1, <1>2, CallKeeps
<1>5. TypeOK'
  BY <1>2, <1>3, <1>4 DEF ExecuteIO, QueueInv, TypeOK, Called
<1>6. SliceEnds(queue, CPU_CycleLeft, cycles)
  <2>1. SliceEnds(queue, CPU_CycleLeft, CPU_Cycles)
    BY <1>0, <1>1, SliceIs DEF QueueInv, SliceEndsAtEvent, SliceEnds
  <2>. QED
    BY <1>0, <2>1 DEF SliceEnds
<1>7. SliceEndsAtEvent'
  <2>1. /\ SliceEnds(queue', CPU_CycleLeft', CPU_Cycles')
        /\ CPU_Cycles' \in Int /\ CPU_CycleLeft' \in Int
    BY <1>2, <1>6 DEF Called
  <2>2. PIC_TickIndexND(CPU_CycleLeft', CPU_Cycles') + CPU_Cycles' = CPU_CycleMax - CPU_CycleLeft'
    BY <2>1, SliceIs
  <2>. QED
    BY <2>1, <2>2, Zenon DEF SliceEndsAtEvent, SliceEnds
<1>8. ServiceAtRest'
  BY <1>1 DEF ServiceAtRest
<1>. QED
  BY <1>3, <1>4, <1>5, <1>7, <1>8 DEF QueueInv

LEMMA TickHandlerCallsStep ==
  ASSUME QueueInv, TickHandlerCalls PROVE QueueInv'
<1>0. QueueReady /\ CPU_Cycles \in Int /\ Delays \in SUBSET Nat
  BY InvReady, EventQueueAssumption
<1>1. DeviceCall(Delays, CPU_Cycles) /\ at = "tickers" /\ UNCHANGED <<serving, at, PIC_Ticks, clock>>
  BY DEF TickHandlerCalls
<1>2. Called(CPU_Cycles)
  BY <1>0, <1>1, DeviceCallDoes
<1>3. EntriesConserved' /\ QueueSorted' /\ queue' \in Seq(Entries) /\ free' \in 0 .. PIC_QUEUESIZE
  BY <1>0, <1>1, <1>2, CallKeeps
<1>4. TypeOK'
  BY <1>2, <1>3 DEF TickHandlerCalls, QueueInv, TypeOK, Called
<1>5. SliceEndsAtEvent' /\ ServiceAtRest'
  BY <1>1 DEF SliceEndsAtEvent, ServiceAtRest
<1>6. TimeIsCycles'
  BY <1>0, <1>1, <1>2, TimeStands DEF Called
<1>. QED
  BY <1>3, <1>4, <1>5, <1>6 DEF QueueInv

\* The entry of a served event goes back to the pool.
LEMMA ReturnsStep ==
  ASSUME QueueInv, HandlerReturns \/ TimerReturns PROVE QueueInv'
<1>1. /\ free' = free + 1 /\ serving' = NoEntry /\ at' = "service" /\ at \in {"handler", "timer"}
      /\ UNCHANGED <<queue, CPU_Cycles, CPU_CycleLeft, PIC_Ticks, InEventService, srv_lag, index_nd, clock>>
  BY DEF HandlerReturns, TimerReturns, cpuVars
<1>2. /\ serving # NoEntry /\ free \in Nat /\ Len(queue) \in Nat /\ InEventService
      /\ PIC_QUEUESIZE \in Nat
  BY <1>1, InvReady, EventQueueAssumption DEF QueueInv, TypeOK, QueueReady
<1>3. free + Len(queue) + 1 = PIC_QUEUESIZE
  BY <1>2 DEF QueueInv, EntriesConserved
<1>4. free' \in 0 .. PIC_QUEUESIZE
  BY <1>1, <1>2, <1>3
<1>5. EntriesConserved'
  BY <1>1, <1>2, <1>3 DEF EntriesConserved
<1>6. TypeOK'
  BY <1>1, <1>2, <1>4 DEF QueueInv, TypeOK, Phases
<1>7. QueueSorted' /\ SliceEndsAtEvent' /\ TimeIsCycles' /\ ServiceAtRest'
  BY <1>1 DEF QueueInv, QueueSorted, SliceEndsAtEvent, TimeIsCycles, ServiceAtRest
<1>. QED
  BY <1>5, <1>6, <1>7 DEF QueueInv

\* The timer adds itself while its entry is still out.
LEMMA TimerAgainStep ==
  ASSUME QueueInv, TimerAgain PROVE QueueInv'
<1>0. QueueReady /\ CPU_Cycles = 0 /\ CPU_Cycles \in Int /\ Period \in Nat
  BY InvReady, EventQueueAssumption DEF TimerAgain, QueueInv, ServiceAtRest
<1>1. /\ PIC_AddEvent(Timer, Period, 0, CPU_Cycles) /\ at = "handler" /\ at' = "timer"
      /\ UNCHANGED <<PIC_Ticks, serving, InEventService, srv_lag, index_nd, clock>>
  BY DEF TimerAgain
<1>2. Called(CPU_Cycles)
  BY <1>0, <1>1, AddDoes
<1>3. CPU_Cycles' = 0 /\ CPU_CycleLeft' = CPU_CycleLeft
  BY <1>0, <1>2, CalledAtRest
<1>4. /\ serving # NoEntry /\ InEventService /\ Len(queue) \in Nat /\ Len(queue') \in Nat
      /\ free \in Nat /\ free' \in Nat /\ PIC_QUEUESIZE \in Nat
  BY <1>0, <1>1, <1>2, LenProperties, EventQueueAssumption
     DEF QueueInv, TypeOK, QueueReady, Called
<1>5. free + Len(queue) + 1 = PIC_QUEUESIZE /\ free' + Len(queue') = free + Len(queue)
  BY <1>2, <1>4 DEF QueueInv, EntriesConserved, Called
<1>6. EntriesConserved' /\ free' \in 0 .. PIC_QUEUESIZE
  BY <1>1, <1>4, <1>5 DEF EntriesConserved
<1>7. TypeOK'
  BY <1>1, <1>2, <1>3, <1>4, <1>6 DEF QueueInv, TypeOK, Phases, Called, QueueReady
<1>8. QueueSorted'
  BY <1>2 DEF Called, Sorted, QueueSorted
<1>9. SliceEndsAtEvent' /\ ServiceAtRest'
  BY <1>0, <1>1, <1>3 DEF QueueInv, SliceEndsAtEvent, ServiceAtRest
<1>10. TimeIsCycles'
  BY <1>0, <1>1, <1>2, TimeStands DEF Called
<1>. QED
  BY <1>6, <1>7, <1>8, <1>9, <1>10 DEF QueueInv

\* The slice is given out up to the first event.
LEMMA QueueServedStep ==
  ASSUME QueueInv, QueueServed PROVE QueueInv'
<1>0. /\ QueueReady /\ CPU_CycleLeft \in Int /\ at = "service" /\ CPU_Cycles = 0
      /\ index_nd = CPU_CycleMax - CPU_CycleLeft /\ serving = NoEntry
      /\ CPU_CycleMax \in Int /\ RESOLUTION \in Nat \ {0} /\ index_nd \in Int
  BY InvReady, EventQueueAssumption
     DEF QueueServed, QueueInv, ServiceAtRest, TypeOK, QueueReady
<1>1. /\ ~InEventService' /\ InEventService' \in BOOLEAN /\ at' = "cpu"
      /\ UNCHANGED <<queue, free, PIC_Ticks, serving, srv_lag, index_nd, clock>>
  BY DEF QueueServed
<1> DEFINE cycles == CPU_Cycles'
           left == CPU_CycleLeft'
           parts == queue[1].index - index_nd * RESOLUTION
           whole == PIC_MakeCycles(parts)
<1>2. /\ cycles = IF queue # <<>> /\ Slice(queue[1]) < CPU_CycleLeft
                  THEN Slice(queue[1]) ELSE CPU_CycleLeft
      /\ left = CPU_CycleLeft - cycles
  BY DEF QueueServed
<1>3. queue # <<>> => queue[1].index \in Int /\ parts \in Int /\ whole \in Int
                       /\ Slice(queue[1]) = IF whole = 0 THEN 1 ELSE whole
  <2> SUFFICES ASSUME queue # <<>>
               PROVE  /\ queue[1].index \in Int /\ parts \in Int /\ whole \in Int
                      /\ Slice(queue[1]) = IF whole = 0 THEN 1 ELSE whole
    OBVIOUS
  <2>1. Len(queue) \in Nat /\ Len(queue) > 0
    BY <1>0 DEF QueueReady
  <2>2. queue[1].index \in Int
    BY <1>0, <2>1, EntriesOfList DEF QueueReady
  <2>3. parts \in Int
    BY <1>0, <2>2
  <2>4. whole \in Int
    BY <1>0, <2>3 DEF PIC_MakeCycles
  <2>. QED
    BY <2>2, <2>3, <2>4, Zenon DEF Slice
<1> HIDE DEF cycles, left, whole
<1>4. cycles \in Int /\ left \in Int /\ left + cycles = CPU_CycleLeft + CPU_Cycles
  BY <1>0, <1>2, <1>3
<1>5. SliceEnds(queue, left, cycles)
  <2> SUFFICES ASSUME cycles > 1, queue # <<>>
               PROVE  queue[1].index >= (CPU_CycleMax - left) * RESOLUTION
    BY DEF SliceEnds
  <2>1. whole >= cycles
    BY <1>0, <1>2, <1>3, <1>4
  <2>2. parts >= cycles * RESOLUTION
    BY <1>3, <1>4, <2>1, MakeCyclesBound DEF whole
  <2>3. CPU_CycleMax - left = index_nd + cycles
    BY <1>0, <1>2, <1>4
  <2>4. queue[1].index >= (index_nd + cycles) * RESOLUTION
    BY <1>0, <1>3, <1>4, <2>2
  <2>. QED
    BY <2>3, <2>4
<1>6. SliceEndsAtEvent'
  <2>1. PIC_TickIndexND(left, cycles) + cycles = CPU_CycleMax - left
    BY <1>4, SliceIs
  <2>. QED
    BY <1>1, <1>5, <2>1, Zenon DEF SliceEndsAtEvent, SliceEnds, left, cycles
<1>7. TimeIsCycles'
  BY <1>1, <1>4, TimeStands DEF left, cycles
<1>8. CPU_Cycles' \in Int /\ CPU_CycleLeft' \in Int
  BY <1>4 DEF left, cycles
<1>9. TypeOK'
  BY <1>0, <1>1, <1>8 DEF QueueInv, TypeOK, Phases
<1>10. EntriesConserved' /\ QueueSorted' /\ ServiceAtRest'
  BY <1>1 DEF QueueInv, EntriesConserved, QueueSorted, ServiceAtRest
<1>. QED
  BY <1>6, <1>7, <1>9, <1>10 DEF QueueInv

LEMMA ExecuteStep ==
  ASSUME QueueInv, Execute PROVE QueueInv'
<1>0. CPU_CycleLeft \in Int /\ CPU_Cycles \in Int /\ MaxOverrun \in Nat
  BY InvReady, EventQueueAssumption DEF QueueReady
<1>1. /\ at = "cpu" /\ at' \in {"cpu", "loop"} /\ CPU_Cycles > 0
      /\ UNCHANGED <<queue, free, CPU_CycleLeft, PIC_Ticks, serving, InEventService, srv_lag, index_nd>>
  BY DEF Execute
<1>2. PICK n \in 1 .. CPU_Cycles + MaxOverrun :
        /\ CPU_Cycles' = CPU_Cycles - n
        /\ clock' = (clock + n) % (TickWrap * CPU_CycleMax)
  BY DEF Execute
<1>3. n \in Nat /\ n >= 1 /\ CPU_Cycles' \in Int
  BY <1>0, <1>2
<1>4. TimeIsCycles' /\ clock' \in 0 .. TickWrap * CPU_CycleMax - 1
  <2> DEFINE left == CPU_CycleLeft'
             cycles == CPU_Cycles'
  <2>1. left = CPU_CycleLeft /\ cycles = CPU_Cycles - n
    BY <1>1, <1>2
  <2> HIDE DEF left, cycles
  <2>2. left \in Int /\ cycles \in Int /\ left + cycles = CPU_CycleLeft + CPU_Cycles - n
    BY <1>0, <1>3, <2>1
  <2>. QED
    BY <1>1, <1>2, <1>3, <2>2, TimeRuns DEF left, cycles
<1>5. TypeOK'
  BY <1>1, <1>3, <1>4 DEF QueueInv, TypeOK, Phases
<1>6. SliceEndsAtEvent'
  <2> DEFINE cycles == CPU_Cycles'
  <2>1. cycles = CPU_Cycles - n /\ cycles \in Int
    BY <1>2, <1>3
  <2> HIDE DEF cycles
  <2>2. /\ PIC_TickIndexND(CPU_CycleLeft, cycles) + cycles = CPU_CycleMax - CPU_CycleLeft
        /\ PIC_TickIndexND(CPU_CycleLeft, CPU_Cycles) + CPU_Cycles = CPU_CycleMax - CPU_CycleLeft
    BY <1>0, <2>1, SliceIs
  <2>3. cycles > 1 => CPU_Cycles > 1
    BY <1>0, <1>3, <2>1
  <2>. QED
    BY <1>1, <2>2, <2>3, Zenon DEF QueueInv, SliceEndsAtEvent, cycles
<1>7. EntriesConserved' /\ QueueSorted' /\ ServiceAtRest'
  BY <1>1 DEF QueueInv, EntriesConserved, QueueSorted, ServiceAtRest
<1>. QED
  BY <1>4, <1>5, <1>6, <1>7 DEF QueueInv

\* The core and the tick handlers return to the loop.
LEMMA LoopStep ==
  ASSUME QueueInv, CoreReturns \/ TickHandlersReturn PROVE QueueInv'
<1>1. /\ at' = "loop" /\ at \in {"cpu", "tickers"}
      /\ UNCHANGED <<queue, free, CPU_Cycles, CPU_CycleLeft, PIC_Ticks, serving, InEventService,
                     srv_lag, index_nd, clock>>
  BY DEF CoreReturns, TickHandlersReturn, cpuVars
<1>2. TypeOK'
  BY <1>1 DEF QueueInv, TypeOK, Phases
<1>3. EntriesConserved' /\ QueueSorted' /\ SliceEndsAtEvent' /\ TimeIsCycles' /\ ServiceAtRest'
  BY <1>1 DEF QueueInv, EntriesConserved, QueueSorted, SliceEndsAtEvent, TimeIsCycles,
              ServiceAtRest, PIC_TickIndexND
<1>. QED
  BY <1>2, <1>3 DEF QueueInv

\* An entry whose index counts from the next millisecond.
LEMMA Earlier ==
  ASSUME NEW e \in Entries, NEW d \in Int
  PROVE  LET f == [e EXCEPT !.index = @ - d]
         IN  f \in Entries /\ f.index = e.index - d /\ f.event = e.event
  BY DEF Entries

\* A millisecond later every event is due a millisecond earlier.
LEMMA AddTickStep ==
  ASSUME QueueInv, TIMER_AddTick PROVE QueueInv'
<1>0. /\ CPU_CycleLeft \in Int /\ CPU_Cycles \in Int /\ CPU_CycleMax \in Nat \ {0}
      /\ TickWrap \in Nat \ {0} /\ PIC_Ticks \in Nat /\ clock \in Int
      /\ queue \in Seq(Entries) /\ Len(queue) \in Nat /\ Tick \in Int
  BY InvReady, EventQueueAssumption DEF QueueReady, Tick
<1>1. /\ at = "tick" /\ at' = "tickers" /\ CPU_Cycles' = 0
      /\ CPU_CycleLeft' = CPU_CycleLeft + CPU_CycleMax + CPU_Cycles
      /\ PIC_Ticks' = (PIC_Ticks + 1) % TickWrap
      /\ queue' = [i \in 1 .. Len(queue) |-> [queue[i] EXCEPT !.index = @ - Tick]]
      /\ UNCHANGED <<free, serving, InEventService, srv_lag, index_nd, clock>>
  BY DEF TIMER_AddTick, Grant
<1>2. \A i \in 1 .. Len(queue) :
        /\ queue[i] \in Entries /\ queue[i].index \in Int
        /\ [queue[i] EXCEPT !.index = @ - Tick] \in Entries
        /\ [queue[i] EXCEPT !.index = @ - Tick].index = queue[i].index - Tick
  <2>1. \A i \in 1 .. Len(queue) : queue[i] \in Entries /\ queue[i].index \in Int
    BY <1>0, EntriesOfList
  <2>. QED
    BY <1>0, <2>1, Earlier
<1> DEFINE moved(i) == [queue[i] EXCEPT !.index = @ - Tick]
<1>a. /\ queue' = [i \in 1 .. Len(queue) |-> moved(i)]
      /\ \A i \in 1 .. Len(queue) :
           moved(i) \in Entries /\ moved(i).index = queue[i].index - Tick
  BY <1>1, <1>2
<1> HIDE DEF moved
<1>3. queue' \in Seq(Entries) /\ Len(queue') = Len(queue)
      /\ \A i \in 1 .. Len(queue) : queue'[i].index = queue[i].index - Tick
  BY <1>0, <1>a
<1>4. QueueSorted'
  <2>1. ASSUME NEW i \in 1 .. Len(queue), NEW j \in 1 .. Len(queue), i < j
        PROVE  queue'[i].index <= queue'[j].index
    <3>1. queue[i].index \in Int /\ queue[j].index \in Int /\ queue[i].index <= queue[j].index
      BY <1>2, <2>1 DEF QueueInv, QueueSorted
    <3>2. queue[i].index - Tick <= queue[j].index - Tick
      BY <1>0, <3>1
    <3>. QED
      BY <1>3, <3>2
  <2>. QED
    BY <1>3, <2>1 DEF QueueSorted
<1>5. PIC_Ticks' \in 0 .. TickWrap - 1 /\ \E k \in Int : PIC_Ticks' = PIC_Ticks + 1 - k * TickWrap
  <2> DEFINE next == PIC_Ticks + 1
  <2>1. next \in Int /\ PIC_Ticks' = next % TickWrap
    BY <1>0, <1>1
  <2> HIDE DEF next
  <2>2. PIC_Ticks' \in 0 .. TickWrap - 1 /\ \E k \in Int : PIC_Ticks' = next - k * TickWrap
    BY <1>0, <2>1, Remainder
  <2>3. PICK k \in Int : PIC_Ticks' = next - k * TickWrap
    BY <2>2
  <2>4. PIC_Ticks' = PIC_Ticks + 1 - k * TickWrap
    BY <1>0, <2>3 DEF next
  <2>. QED
    BY <2>2, <2>4
<1>6. CPU_Cycles' \in Int /\ CPU_CycleLeft' \in Int
  BY <1>0, <1>1
<1>7. TypeOK'
  BY <1>1, <1>3, <1>5, <1>6 DEF QueueInv, TypeOK, Phases
<1>8. TimeIsCycles'
  <2>1. PICK k \in Int : PIC_Ticks' = PIC_Ticks + 1 - k * TickWrap
    BY <1>5
  <2> DEFINE ticks == PIC_Ticks'
             left == CPU_CycleLeft'
             w == k * Wrap
             t == PIC_Ticks * CPU_CycleMax
  <2>2. Wrap \in Nat \ {0} /\ w \in Int /\ t \in Int
    BY <1>0, <2>1, WrapIsNat
  <2>3. ticks = PIC_Ticks + 1 - k * TickWrap /\ left = CPU_CycleLeft + CPU_CycleMax + CPU_Cycles
    BY <1>1, <2>1
  <2>4. /\ Lead = t + (CPU_CycleMax - CPU_CycleLeft - CPU_Cycles) - clock
        /\ Lead' = ticks * CPU_CycleMax + (CPU_CycleMax - left - 0) - clock
    BY <1>1 DEF Lead, PIC_TickIndexND
  <2> HIDE DEF ticks, left
  <2>5. ticks * CPU_CycleMax = t + CPU_CycleMax - w
    <3>1. ticks * CPU_CycleMax = PIC_Ticks * CPU_CycleMax + CPU_CycleMax - k * (TickWrap * CPU_CycleMax)
      BY <1>0, <2>1, <2>3
    <3>. QED
      BY <3>1 DEF Wrap
  <2> HIDE DEF t, w
  <2> DEFINE after == Lead'
             m == -k
  <2>6. after = t + CPU_CycleMax - w + (CPU_CycleMax - left - 0) - clock
    BY <2>4, <2>5
  <2> HIDE DEF after
  <2>7. Lead \in Int /\ after = Lead - w
    BY <1>0, <2>2, <2>3, <2>4, <2>6
  <2>8. m \in Int /\ after \in Int /\ after = Lead + m * Wrap
    BY <2>1, <2>2, <2>7 DEF w
  <2>9. Lead % Wrap = 0
    BY DEF QueueInv, TimeIsCycles, Lead, Wrap
  <2> HIDE DEF m
  <2>10. after % Wrap = 0
    BY <2>2, <2>7, <2>8, <2>9, MultipleMoved
  <2>. QED
    BY <2>10 DEF after, Lead, Wrap, TimeIsCycles
<1>9. EntriesConserved' /\ SliceEndsAtEvent' /\ ServiceAtRest'
  BY <1>1, <1>3 DEF QueueInv, EntriesConserved, SliceEndsAtEvent, ServiceAtRest
<1>. QED
  BY <1>4, <1>7, <1>8, <1>9 DEF QueueInv

----------------------------------------------------------------------------
(* The theorems. *)

\* A machine whose timer has just been started.
LEMMA InitInv ==
  ASSUME Init PROVE QueueInv
<1> DEFINE first == [index |-> Period, event |-> Timer, value |-> 0]
<1>0. /\ PIC_QUEUESIZE \in Nat \ {0} /\ CPU_CycleMax \in Nat \ {0} /\ TickWrap \in Nat \ {0}
      /\ Period \in Int /\ RESOLUTION \in Nat \ {0} /\ Wrap \in Nat \ {0}
  BY EventQueueAssumption, WrapIsNat
<1>1. first \in Entries
  BY <1>0 DEF Entries
<1>2. queue = <<first>>
  BY DEF Init
<1> HIDE DEF first
<1>3. queue \in Seq(Entries) /\ Len(queue) = 1
  BY <1>1, <1>2
<1>4. /\ free = PIC_QUEUESIZE - 1 /\ CPU_Cycles = 0 /\ CPU_CycleLeft = CPU_CycleMax
      /\ PIC_Ticks = 0 /\ serving = NoEntry /\ InEventService = FALSE /\ srv_lag = 0
      /\ index_nd = 0 /\ at = "loop" /\ clock = 0
  BY DEF Init
<1>5. TypeOK
  <2>1. clock \in 0 .. TickWrap * CPU_CycleMax - 1 /\ PIC_Ticks \in 0 .. TickWrap - 1
    BY <1>0, <1>4 DEF Wrap
  <2>2. free \in 0 .. PIC_QUEUESIZE /\ srv_lag \in Int /\ index_nd \in Int
    BY <1>0, <1>4
  <2>3. CPU_Cycles \in Int /\ CPU_CycleLeft \in Int
    BY <1>0, <1>4
  <2>4. /\ serving \in Entries \cup {NoEntry} /\ at \in Phases
        /\ serving # NoEntry <=> at \in {"handler", "timer"}
    BY <1>4 DEF Phases
  <2>5. /\ InEventService \in BOOLEAN
        /\ InEventService <=> at \in {"service", "handler", "timer"}
    BY <1>4
  <2>. QED
    BY <1>3, <2>1, <2>2, <2>3, <2>4, <2>5 DEF TypeOK
<1>6. EntriesConserved /\ QueueSorted /\ SliceEndsAtEvent /\ ServiceAtRest
  BY <1>0, <1>3, <1>4 DEF EntriesConserved, QueueSorted, SliceEndsAtEvent, ServiceAtRest
<1>7. TimeIsCycles
  <2>1. Lead = 0
    BY <1>0, <1>4 DEF Lead, PIC_TickIndexND
  <2>2. 0 \in Int /\ 0 = 0 * Wrap
    BY <1>0
  <2>3. 0 % Wrap = 0
    BY <1>0, <2>2, Multiple
  <2>. QED
    BY <2>1, <2>3 DEF Lead, Wrap, TimeIsCycles
<1>. QED
  BY <1>5, <1>6, <1>7 DEF QueueInv

LEMMA StutterStep ==
  ASSUME QueueInv, UNCHANGED vars PROVE QueueInv'
  BY DEF vars, cpuVars, QueueInv, TypeOK, EntriesConserved, QueueSorted, SliceEndsAtEvent,
         TimeIsCycles, ServiceAtRest

LEMMA NextStep ==
  ASSUME QueueInv, Next PROVE QueueInv'
<1>1. CASE PIC_RunQueue
  BY <1>1, RunQueueStep
<1>2. CASE ServeEvent
  BY <1>2, ServeEventStep
<1>3. CASE HandlerReturns \/ TimerReturns
  BY <1>3, ReturnsStep
<1>4. CASE TimerAgain
  BY <1>4, TimerAgainStep
<1>5. CASE QueueServed
  BY <1>5, QueueServedStep
<1>6. CASE CoreReturns \/ TickHandlersReturn
  BY <1>6, LoopStep
<1>7. CASE TIMER_AddTick
  BY <1>7, AddTickStep
<1>8. CASE Execute
  BY <1>8, ExecuteStep
<1>9. CASE ExecuteIO
  BY <1>9, ExecuteIOStep
<1>10. CASE HandlerCalls
  BY <1>10, HandlerCallsStep
<1>11. CASE TickHandlerCalls
  BY <1>11, TickHandlerCallsStep
<1>. QED
  BY <1>1, <1>2, <1>3, <1>4, <1>5, <1>6, <1>7, <1>8, <1>9, <1>10, <1>11 DEF Next, Returning

\* The invariant holds in every state.
THEOREM Invariance == Spec => []QueueInv
<1>1. Init => QueueInv
  BY InitInv
<1>2. QueueInv /\ [Next]_vars => QueueInv'
  BY NextStep, StutterStep
<1>. QED
  BY <1>1, <1>2, PTL DEF Spec

\* Every variable has its type, and the flag of the service loop is what the
\* loop is doing.
THEOREM TypeCorrect == Spec => []TypeOK
<1>1. QueueInv => TypeOK
  BY DEF QueueInv
<1>. QED
  BY <1>1, Invariance, PTL

\* No entry of the pool is lost or used twice.
THEOREM NoEntryLost == Spec => []EntriesConserved
<1>1. QueueInv => EntriesConserved
  BY DEF QueueInv
<1>. QED
  BY <1>1, Invariance, PTL

\* The list is sorted, so that no event is served before an earlier one.
THEOREM ServedInOrder == Spec => []QueueSorted
<1>1. QueueInv => QueueSorted
  BY DEF QueueInv
<1>. QED
  BY <1>1, Invariance, PTL

\* The CPU is never given cycles past the next event.
THEOREM NeverPastAnEvent == Spec => []SliceEndsAtEvent
<1>1. QueueInv => SliceEndsAtEvent
  BY DEF QueueInv
<1>. QED
  BY <1>1, Invariance, PTL

\* No cycle is lost or given out twice.
THEOREM NoCycleLost == Spec => []TimeIsCycles
<1>1. QueueInv => TimeIsCycles
  BY DEF QueueInv
<1>. QED
  BY <1>1, Invariance, PTL

----------------------------------------------------------------------------
(* The timer. *)

\* Calls of a device, and a step that leaves the list alone, leave a timer in it.
LEMMA TimerStays ==
  ASSUME QueueInv, TimerPending,
         \A k \in 1 .. Len(queue) :
            queue[k].event = Timer => \E j \in 1 .. Len(queue') : queue'[j] = queue[k]
  PROVE  TimerPending'
  BY DEF TimerPending

LEMMA TimerKeptStep ==
  ASSUME QueueInv, Next, TimerAlive, ~TimerAlive' PROVE free = 0
<1> SUFFICES ASSUME free # 0 PROVE FALSE
  OBVIOUS
<1>0. ~TimerPending'
  BY DEF TimerAlive
<1>1. ASSUME queue' = queue, TimerPending PROVE FALSE
  BY <1>0, <1>1 DEF TimerPending
<1>2. CASE PIC_RunQueue \/ QueueServed \/ CoreReturns \/ TickHandlersReturn \/ Execute
  BY <1>1, <1>2 DEF PIC_RunQueue, QueueServed, CoreReturns, TickHandlersReturn, Execute, TimerAlive
<1>3. CASE HandlerReturns
  BY <1>1, <1>3 DEF HandlerReturns, TimerAlive
<1>4. CASE TimerReturns
  BY <1>1, <1>4 DEF TimerReturns, TimerAlive
<1>5. CASE ServeEvent
  <2>1. at = "service" /\ at' = "handler" /\ serving' = queue[1] /\ queue' = Tail(queue) /\ queue # <<>>
    BY <1>5 DEF ServeEvent, Due
  <2>2. PICK i \in 1 .. Len(queue) : queue[i].event = Timer
    BY <2>1 DEF TimerAlive, TimerPending
  <2>3. Len(queue) \in Nat /\ queue \in Seq(Entries)
    BY InvReady DEF QueueReady
  <2>4. Len(queue') = Len(queue) - 1 /\ \A j \in 1 .. Len(queue') : queue'[j] = queue[j + 1]
    BY <2>1, <2>3, HeadTailProperties
  <2>5. CASE i = 1
    BY <2>1, <2>2, <2>5 DEF TimerAlive
  <2>6. CASE i # 1
    <3>1. i - 1 \in 1 .. Len(queue') /\ queue'[i - 1] = queue[i]
      BY <2>3, <2>4, <2>6
    <3>. QED
      BY <1>0, <2>2, <3>1 DEF TimerPending
  <2>. QED
    BY <2>5, <2>6
<1>6. CASE TIMER_AddTick
  <2>1. /\ at = "tick" /\ Len(queue) \in Nat
        /\ queue' = [i \in 1 .. Len(queue) |-> [queue[i] EXCEPT !.index = @ - Tick]]
    BY <1>6, InvReady DEF TIMER_AddTick
  <2>2. PICK i \in 1 .. Len(queue) : queue[i].event = Timer
    BY <2>1 DEF TimerAlive, TimerPending
  <2>3. Len(queue') = Len(queue) /\ queue'[i] = [queue[i] EXCEPT !.index = @ - Tick]
    BY <2>1
  <2>4. queue[i] \in Entries /\ Tick \in Int
    BY InvReady, EntriesOfList, EventQueueAssumption DEF QueueReady, Tick
  <2>5. queue'[i].event = Timer
    BY <2>2, <2>3, <2>4, Earlier
  <2>. QED
    BY <1>0, <2>3, <2>5 DEF TimerPending
<1>7. CASE ExecuteIO
  <2>1. at = "cpu" /\ DeviceCall(Delays, CPU_Cycles - 1) /\ CPU_Cycles - 1 \in Int
    BY <1>7, InvReady DEF ExecuteIO
  <2>2. \A k \in 1 .. Len(queue) :
          queue[k].event = Timer => \E j \in 1 .. Len(queue') : queue'[j] = queue[k]
    BY <2>1, InvReady, DeviceCallDoes, EventQueueAssumption
  <2>. QED
    BY <1>0, <2>1, <2>2, TimerStays DEF TimerAlive
<1>8. CASE HandlerCalls \/ TickHandlerCalls
  <2>1. ~(at = "handler" /\ serving.event = Timer)
    BY <1>8 DEF HandlerCalls, TickHandlerCalls
  <2>2. \A k \in 1 .. Len(queue) :
          queue[k].event = Timer => \E j \in 1 .. Len(queue') : queue'[j] = queue[k]
    <3>1. PICK delays \in SUBSET Nat : DeviceCall(delays, CPU_Cycles)
      BY <1>8, EventQueueAssumption DEF HandlerCalls, TickHandlerCalls
    <3>. QED
      BY <3>1, InvReady, DeviceCallDoes
  <2>. QED
    BY <1>0, <2>1, <2>2, TimerStays DEF TimerAlive
<1>9. CASE TimerAgain
  <2>1. PIC_AddEvent(Timer, Period, 0, CPU_Cycles)
    BY <1>9 DEF TimerAgain
  <2>2. \E j \in 1 .. Len(queue') : queue'[j].event = Timer
    BY <2>1, InvReady, AddDoes, EventQueueAssumption
  <2>. QED
    BY <1>0, <2>2 DEF TimerPending
<1>. QED
  BY <1>2, <1>3, <1>4, <1>5, <1>6, <1>7, <1>8, <1>9 DEF Next, Returning

\* A timer ends in no way but at a pool without an entry left.
THEOREM TimerIsKept == Spec => TimerKept
<1>1. QueueInv /\ [Next]_vars => [TimerAlive /\ ~TimerAlive' => free = 0]_vars
  BY TimerKeptStep
<1>. QED
  BY <1>1, Invariance, PTL DEF Spec, TimerKept

----------------------------------------------------------------------------
(* No drift. *)

\* An event of so many parts, in time since the start.
Since(index) == PIC_Ticks * Tick + index

\* The timer's due time is a multiple of the period, and what it counts from
\* while it runs as well.
DriftInv ==
    /\ NoDrift
    /\ at = "handler" /\ serving.event = Timer => Since(srv_lag) % Period = 0

\* Every timer in the list was there before, and no millisecond has passed.
LEMMA DriftStays ==
  ASSUME QueueInv, DriftInv, PIC_Ticks' = PIC_Ticks,
         \A j \in 1 .. Len(queue') :
            queue'[j].event = Timer => \E k \in 1 .. Len(queue) : queue'[j] = queue[k]
  PROVE  NoDrift'
  BY DEF DriftInv, NoDrift

LEMMA DriftStep ==
  ASSUME (TickWrap * Tick) % Period = 0, QueueInv, DriftInv, Next PROVE DriftInv'
<1>0. /\ Tick \in Int /\ Period \in Nat \ {0} /\ TickWrap \in Int /\ Period \in Int
      /\ Len(queue) \in Nat /\ queue \in Seq(Entries) /\ QueueReady
      /\ PIC_Ticks \in Nat /\ CPU_Cycles \in Int /\ Delays \in SUBSET Nat /\ ServiceDelays \in SUBSET Nat
  BY InvReady, EventQueueAssumption DEF Tick, QueueReady
<1>1. CASE PIC_RunQueue \/ QueueServed \/ CoreReturns \/ TickHandlersReturn \/ Execute
           \/ HandlerReturns \/ TimerReturns
  <2>1. queue' = queue /\ PIC_Ticks' = PIC_Ticks /\ at' # "handler"
    BY <1>1 DEF PIC_RunQueue, QueueServed, CoreReturns, TickHandlersReturn, Execute,
                HandlerReturns, TimerReturns
  <2>. QED
    BY <2>1, DriftStays DEF DriftInv
<1>2. CASE ServeEvent
  <2>1. /\ serving' = queue[1] /\ srv_lag' = queue[1].index /\ queue' = Tail(queue) /\ queue # <<>>
        /\ PIC_Ticks' = PIC_Ticks
    BY <1>2 DEF ServeEvent, Due
  <2>2. Len(queue') = Len(queue) - 1 /\ \A j \in 1 .. Len(queue') : queue'[j] = queue[j + 1]
    BY <1>0, <2>1, HeadTailProperties
  <2>3. \A j \in 1 .. Len(queue') : j + 1 \in 1 .. Len(queue) /\ queue'[j] = queue[j + 1]
    BY <1>0, <2>2
  <2>4. NoDrift'
    BY <2>1, <2>3, DriftStays
  <2>5. 1 \in 1 .. Len(queue)
    BY <1>0, <2>1
  <2>6. serving'.event = Timer => Since(srv_lag)' % Period = 0
    BY <2>1, <2>5 DEF DriftInv, NoDrift, Since
  <2>. QED
    BY <2>4, <2>6 DEF DriftInv
<1>3. CASE ExecuteIO
  <2>1. /\ DeviceCall(Delays, CPU_Cycles - 1) /\ CPU_Cycles - 1 \in Int
        /\ PIC_Ticks' = PIC_Ticks /\ at' = at /\ at = "cpu"
    BY <1>0, <1>3 DEF ExecuteIO
  <2>. QED
    BY <1>0, <2>1, DeviceCallDoes, DriftStays DEF DriftInv
<1>4. CASE HandlerCalls \/ TickHandlerCalls
  <2>1. PICK delays \in SUBSET Nat : DeviceCall(delays, CPU_Cycles)
    BY <1>0, <1>4 DEF HandlerCalls, TickHandlerCalls
  <2>2. /\ PIC_Ticks' = PIC_Ticks /\ at' = at /\ serving' = serving
        /\ ~(at = "handler" /\ serving.event = Timer)
    BY <1>4 DEF HandlerCalls, TickHandlerCalls
  <2>. QED
    BY <1>0, <2>1, <2>2, DeviceCallDoes, DriftStays DEF DriftInv
<1>5. CASE TimerAgain
  <2>1. /\ PIC_AddEvent(Timer, Period, 0, CPU_Cycles) /\ at = "handler" /\ serving.event = Timer
        /\ at' = "timer" /\ PIC_Ticks' = PIC_Ticks
    BY <1>5 DEF TimerAgain
  <2>2. InEventService = TRUE /\ srv_lag \in Int
    BY <2>1, Zenon DEF QueueInv, TypeOK
  <2>3. 0 \in Vals \cup {0} /\ Period \in Nat
    BY <1>0
  <2>4. \A j \in 1 .. Len(queue') :
          \/ queue'[j].event = Timer /\ queue'[j].index = Period + srv_lag
          \/ \E k \in 1 .. Len(queue) : queue'[j] = queue[k]
    <3>1. \A j \in 1 .. Len(queue') :
            \/ /\ queue'[j].event = Timer
               /\ InEventService = TRUE => queue'[j].index = Period + srv_lag
            \/ \E k \in 1 .. Len(queue) : queue'[j] = queue[k]
      <4>1. QueueReady /\ CPU_Cycles \in Int /\ Timer \in Handlers \cup {Timer}
        BY <1>0
      <4>2. PIC_AddEvent(Timer, Period, 0, CPU_Cycles)
        BY <2>1
      <4>. QED
        BY <2>3, <4>1, <4>2, AddDoes, Zenon
    <3>. QED
      BY <2>2, <3>1, Zenon
  <2>5. (PIC_Ticks * Tick + (Period + srv_lag)) % Period = 0
    <3> DEFINE t == PIC_Ticks * Tick
    <3>1. t \in Int /\ (t + srv_lag) % Period = 0
      BY <1>0, <2>1 DEF DriftInv, Since
    <3> HIDE DEF t
    <3>2. /\ t + srv_lag \in Int /\ t + (Period + srv_lag) \in Int /\ 1 \in Int
          /\ t + (Period + srv_lag) = t + srv_lag + 1 * Period
      BY <1>0, <2>2, <3>1
    <3>3. (t + (Period + srv_lag)) % Period = 0
      BY <1>0, <3>1, <3>2, MultipleMoved
    <3>. QED
      BY <3>3 DEF t
  <2>6. NoDrift'
    <3> SUFFICES ASSUME NEW j \in 1 .. Len(queue'), queue'[j].event = Timer
                 PROVE  (PIC_Ticks' * Tick + queue'[j].index) % Period = 0
      BY DEF NoDrift, Tick
    <3>1. CASE queue'[j].index = Period + srv_lag
      BY <2>1, <2>5, <3>1
    <3>2. CASE \E k \in 1 .. Len(queue) : queue'[j] = queue[k]
      BY <2>1, <3>2 DEF DriftInv, NoDrift
    <3>. QED
      BY <2>4, <3>1, <3>2
  <2>. QED
    BY <2>1, <2>6 DEF DriftInv
<1>6. CASE TIMER_AddTick
  <2>1. /\ at' = "tickers" /\ PIC_Ticks' = (PIC_Ticks + 1) % TickWrap
        /\ queue' = [i \in 1 .. Len(queue) |-> [queue[i] EXCEPT !.index = @ - Tick]]
    BY <1>6 DEF TIMER_AddTick
  <2> DEFINE next == PIC_Ticks + 1
             ticks == PIC_Ticks'
  <2>2. next \in Int /\ ticks = next % TickWrap /\ TickWrap \in Nat \ {0}
    BY <1>0, <2>1, EventQueueAssumption
  <2>a. next = PIC_Ticks + 1
    OBVIOUS
  <2> HIDE DEF next, ticks
  <2>3. PICK k \in Int : ticks = next - k * TickWrap
    BY <2>2, Remainder
  <2>b. TickWrap * Tick \in Int
    BY <1>0
  <2>4. PICK m \in Int : TickWrap * Tick = m * Period
    BY <1>0, <2>b, Multiple
  <2>5. ASSUME NEW j \in 1 .. Len(queue), queue'[j].event = Timer
        PROVE  (ticks * Tick + queue'[j].index) % Period = 0
    <3>1. queue[j] \in Entries /\ queue[j].index \in Int
      BY <1>0, EntriesOfList
    <3>2. queue'[j].index = queue[j].index - Tick /\ queue[j].event = Timer
      BY <1>0, <2>1, <2>5, <3>1, Earlier
    <3>3. (PIC_Ticks * Tick + queue[j].index) % Period = 0
      BY <3>2 DEF DriftInv, NoDrift
    <3> DEFINE x == queue[j].index
               y == queue'[j].index
               t == PIC_Ticks * Tick
               w == k * m
    <3>4. t \in Int /\ w \in Int /\ x \in Int /\ y = x - Tick /\ (t + x) % Period = 0
      BY <1>0, <3>1, <3>2, <3>3
    <3>5. ticks * Tick = t + Tick - w * Period
      <4>1. ticks = PIC_Ticks + 1 - k * TickWrap
        BY <1>0, <2>2, <2>3, <2>a
      <4>2. ticks * Tick = PIC_Ticks * Tick + Tick - k * (TickWrap * Tick)
        BY <1>0, <4>1
      <4>3. k * (TickWrap * Tick) = w * Period
        BY <1>0, <2>4
      <4>. QED
        BY <4>2, <4>3
    <3> HIDE DEF x, y, t, w
    <3>6. ticks * Tick + y = (t + x) + (-w) * Period /\ ticks * Tick + y \in Int
          /\ t + x \in Int /\ -w \in Int
      BY <1>0, <3>4, <3>5
    <3>7. (ticks * Tick + y) % Period = 0
      BY <1>0, <3>4, <3>6, MultipleMoved
    <3>. QED
      BY <3>7 DEF y
  <2>6. Len(queue') = Len(queue)
    BY <1>0, <2>1
  <2>7. NoDrift'
    BY <2>5, <2>6 DEF NoDrift, Tick, ticks
  <2>. QED
    BY <2>1, <2>7 DEF DriftInv
<1>. QED
  BY <1>1, <1>2, <1>3, <1>4, <1>5, <1>6 DEF Next, Returning

\* A timer that adds itself again does not drift, provided that the millisecond
\* counter wraps at a multiple of its period.
THEOREM TimerDoesNotDrift ==
  ASSUME (TickWrap * Tick) % Period = 0 PROVE Spec => []NoDrift
<1>1. Init => DriftInv
  <2> SUFFICES ASSUME Init PROVE DriftInv
    OBVIOUS
  <2>1. /\ PIC_Ticks = 0 /\ at = "loop" /\ Len(queue) = 1 /\ queue[1].index = Period
    BY DEF Init
  <2>2. Period \in Nat \ {0} /\ Tick \in Int /\ 1 \in Int /\ Period = 1 * Period
    BY EventQueueAssumption DEF Tick
  <2>3. Period % Period = 0
    BY <2>2, Multiple
  <2>4. 0 * Tick + Period = Period
    BY <2>2
  <2>. QED
    BY <2>1, <2>3, <2>4 DEF DriftInv, NoDrift
<1>2. QueueInv /\ DriftInv /\ [Next]_vars => DriftInv'
  <2>1. ASSUME DriftInv, UNCHANGED vars PROVE DriftInv'
    BY <2>1 DEF DriftInv, NoDrift, Since, vars, cpuVars
  <2>. QED
    BY <2>1, DriftStep
<1>3. DriftInv => NoDrift
  BY DEF DriftInv
<1>. QED
  BY <1>1, <1>2, <1>3, Invariance, PTL DEF Spec

----------------------------------------------------------------------------
(* Order among equals. *)

\* Where a newcomer went: behind those due no later, before those due later.
Behind(new, old) ==
  \E i \in 1 .. Len(new) :
    /\ RemoveAt(new, i) = old
    /\ \A j \in 1 .. Len(old) :
         IF j < i THEN old[j].index <= new[i].index ELSE old[j].index > new[i].index

\* Taking an element out moves those behind it down by one.
LEMMA RemovedAt ==
  ASSUME NEW S, NEW r \in Seq(S), NEW n \in Nat, Len(r) = n + 1, NEW i \in 1 .. n + 1
  PROVE  /\ RemoveAt(r, i) \in Seq(S) /\ Len(RemoveAt(r, i)) = n
         /\ \A j \in 1 .. n : RemoveAt(r, i)[j] = IF j < i THEN r[j] ELSE r[j + 1]
<1> DEFINE front == SubSeq(r, 1, i - 1)
           back == SubSeq(r, i + 1, Len(r))
<1>0. \A k \in 1 .. n + 1 : r[k] \in S
  BY ElementOfSeq
<1>1. front \in Seq(S) /\ Len(front) = i - 1 /\ \A j \in 1 .. i - 1 : front[j] = r[j]
  BY <1>0, SubSeqProperties
<1>2. back \in Seq(S) /\ Len(back) = n + 1 - i
      /\ \A j \in 1 .. n + 1 - i : back[j] = r[i + j]
  <2>1. i + 1 \in Int /\ Len(r) \in Int /\ \A k \in i + 1 .. Len(r) : r[k] \in S
    BY <1>0
  <2>2. /\ back \in Seq(S) /\ Len(back) = IF i + 1 <= Len(r) THEN Len(r) - (i + 1) + 1 ELSE 0
        /\ \A j \in 1 .. Len(r) - (i + 1) + 1 : back[j] = r[(i + 1) + j - 1]
    BY <2>1, SubSeqProperties
  <2> HIDE DEF back
  <2>3. Len(back) = n + 1 - i
    BY <2>2
  <2>4. ASSUME NEW j \in 1 .. n + 1 - i PROVE back[j] = r[i + j]
    <3>1. j \in 1 .. Len(r) - (i + 1) + 1 /\ (i + 1) + j - 1 = i + j
      OBVIOUS
    <3>. QED
      BY <2>2, <3>1
  <2>. QED
    BY <2>2, <2>3, <2>4
<1> HIDE DEF front, back
<1> DEFINE whole == front \o back
<1>3. /\ whole \in Seq(S) /\ Len(whole) = Len(front) + Len(back)
      /\ \A j \in 1 .. Len(front) + Len(back) :
           whole[j] = IF j <= Len(front) THEN front[j] ELSE back[j - Len(front)]
  BY <1>1, <1>2, ConcatProperties
<1> HIDE DEF whole
<1>4. RemoveAt(r, i) = whole
  BY DEF RemoveAt, front, back, whole
<1>5. Len(front) = i - 1 /\ Len(whole) = n
  BY <1>1, <1>2, <1>3
<1>6. ASSUME NEW j \in 1 .. n PROVE whole[j] = IF j < i THEN r[j] ELSE r[j + 1]
  <2>1. CASE j < i
    <3>1. j \in 1 .. i - 1 /\ j <= Len(front) /\ j \in 1 .. Len(front) + Len(back)
      BY <2>1, <1>1, <1>2
    <3>2. whole[j] = r[j]
      BY <3>1, <1>1, <1>3
    <3>. QED
      BY <2>1, <3>2
  <2>2. CASE ~(j < i)
    <3>1. /\ j - (i - 1) \in 1 .. n + 1 - i /\ i + (j - (i - 1)) = j + 1
          /\ ~(j <= Len(front)) /\ j \in 1 .. Len(front) + Len(back)
      BY <2>2, <1>1, <1>2
    <3>2. back[j - (i - 1)] = r[j + 1]
      BY <3>1, <1>2
    <3>3. whole[j] = back[j - (i - 1)]
      BY <3>1, <1>3, <1>5
    <3>. QED
      BY <2>2, <3>2, <3>3
  <2>. QED
    BY <2>1, <2>2
<1>. QED
  BY <1>3, <1>4, <1>5, <1>6

LEMMA LinkedBehind ==
  ASSUME NEW q \in Seq(Entries), NEW entry \in Entries, Sorted(q)
  PROVE  Behind(Linked(q, entry), q)
<1>0. /\ Len(q) \in Nat /\ entry.index \in Int
      /\ \A k \in 1 .. Len(q) : q[k] \in Entries /\ q[k].index \in Int
  BY EntriesOfList DEF Entries
<1> DEFINE p == Place(q, entry.index)
           r == InsertAt(q, p, entry)
           s == RemoveAt(r, p)
<1>1. /\ p \in 1 .. Len(q) + 1
      /\ \A j \in 1 .. p - 1 : q[j].index <= entry.index
      /\ p = Len(q) + 1 \/ q[p].index > entry.index
  BY <1>0, PlaceIn
<1> HIDE DEF p
<1>2. /\ r \in Seq(Entries) /\ Len(r) = Len(q) + 1
      /\ \A j \in 1 .. Len(q) + 1 :
           r[j] = IF j < p THEN q[j] ELSE IF j = p THEN entry ELSE q[j - 1]
  <2>1. r \in Seq(Entries) /\ Inserted(r, q, p, entry)
    BY <1>1, InsertedAt, Zenon
  <2> HIDE DEF r
  <2>. QED
    BY <2>1, Zenon DEF Inserted
<1> HIDE DEF r
<1>3. /\ s \in Seq(Entries) /\ Len(s) = Len(q)
      /\ \A j \in 1 .. Len(q) : s[j] = IF j < p THEN r[j] ELSE r[j + 1]
  BY <1>0, <1>1, <1>2, RemovedAt
<1> HIDE DEF s
<1>4. ASSUME NEW j \in 1 .. Len(q) PROVE s[j] = q[j]
  <2>1. CASE j < p
    <3>1. j \in 1 .. Len(q) + 1
      BY <1>0
    <3>2. s[j] = r[j]
      BY <2>1, <1>3
    <3>3. r[j] = q[j]
      BY <2>1, <3>1, <1>2
    <3>. QED
      BY <3>2, <3>3
  <2>2. CASE ~(j < p)
    <3>1. j + 1 \in 1 .. Len(q) + 1 /\ ~(j + 1 < p) /\ j + 1 # p /\ (j + 1) - 1 = j
      BY <2>2, <1>0, <1>1
    <3>2. r[j + 1] = q[j]
      BY <3>1, <1>2
    <3>. QED
      BY <2>2, <3>2, <1>3
  <2>. QED
    BY <2>1, <2>2
<1>5. s = q
  BY <1>3, <1>4, SeqEqual
<1>6. r[p] = entry
  BY <1>0, <1>1, <1>2
<1>7. ASSUME NEW j \in 1 .. Len(q)
      PROVE  IF j < p THEN q[j].index <= r[p].index ELSE q[j].index > r[p].index
  <2>1. CASE j < p
    BY <2>1, <1>0, <1>1, <1>6
  <2>2. CASE ~(j < p)
    <3>1. p \in 1 .. Len(q) /\ (p < j \/ p = j)
      BY <2>2, <1>0, <1>1
    <3>2. q[p].index <= q[j].index /\ q[p].index > entry.index
      BY <3>1, <1>0, <1>1 DEF Sorted
    <3>. QED
      BY <2>2, <3>1, <3>2, <1>0, <1>6
  <2>. QED
    BY <2>1, <2>2
<1>8. p \in 1 .. Len(r)
  BY <1>1, <1>2
<1>9. Behind(r, q)
  BY <1>5, <1>7, <1>8, Zenon DEF Behind, s
<1>. QED
  BY <1>9 DEF Linked, p, r

\* A call of a device lengthens the list by an event that goes behind its equals.
LEMMA AddGoesBehind ==
  ASSUME NEW event \in Handlers \cup {Timer}, NEW delay \in Nat, NEW value \in Vals \cup {0},
         NEW cycles \in Int, QueueReady, PIC_AddEvent(event, delay, value, cycles),
         Len(queue') > Len(queue)
  PROVE  Behind(queue', queue)
<1>0. Len(queue) \in Nat
  BY DEF QueueReady
<1>1. free # 0
  BY <1>0 DEF PIC_AddEvent
<1> DEFINE stamp == Stamp(delay, cycles)
           entry == [index |-> stamp, event |-> event, value |-> value]
<1>2. stamp \in Int
  <2>1. CPU_CycleMax \in Int /\ RESOLUTION \in Int /\ delay \in Int
    BY EventQueueAssumption
  <2>2. PIC_TickIndexND(CPU_CycleLeft, cycles) \in Int
    BY <2>1 DEF PIC_TickIndexND, QueueReady
  <2>3. PIC_TickIndexND(CPU_CycleLeft, cycles) * RESOLUTION \in Int
    BY <2>1, <2>2
  <2>. QED
    BY <2>1, <2>3 DEF Stamp, QueueReady
<1>3. queue' = Linked(queue, entry)
  BY <1>1 DEF PIC_AddEvent
<1> HIDE DEF stamp
<1>4. entry \in Entries
  BY <1>2 DEF Entries
<1> HIDE DEF entry
<1>. QED
  BY <1>3, <1>4, LinkedBehind DEF QueueReady

LEMMA CallGoesBehind ==
  ASSUME NEW delays \in SUBSET Nat, NEW cycles \in Int, QueueReady, DeviceCall(delays, cycles),
         Len(queue') > Len(queue)
  PROVE  Behind(queue', queue)
<1>1. PICK event \in Handlers :
        \/ \E delay \in delays, value \in Vals : PIC_AddEvent(event, delay, value, cycles)
        \/ PIC_RemoveEvents(event, cycles)
        \/ \E value \in Vals : PIC_RemoveSpecificEvents(event, value, cycles)
  BY DEF DeviceCall
<1>2. CASE \E delay \in delays, value \in Vals : PIC_AddEvent(event, delay, value, cycles)
  <2>1. PICK delay \in delays, value \in Vals : PIC_AddEvent(event, delay, value, cycles)
    BY <1>2
  <2>2. delay \in Nat /\ value \in Vals \cup {0}
    OBVIOUS
  <2>. QED
    BY <2>1, <2>2, AddGoesBehind
<1>3. ASSUME NEW gone, Unlink(gone, cycles) PROVE FALSE
  <2>1. Len(queue) \in Nat
    BY DEF QueueReady
  <2>2. PICK n \in 0 .. Len(queue) :
          \E stays \in [1 .. n -> 1 .. Len(queue)] : queue' = [i \in 1 .. n |-> queue[stays[i]]]
    BY <1>3 DEF Unlink
  <2>3. Len(queue') = n
    BY <2>1, <2>2
  <2>. QED
    BY <2>1, <2>2, <2>3
<1>. QED
  BY <1>1, <1>2, <1>3 DEF PIC_RemoveEvents, PIC_RemoveSpecificEvents

LEMMA NewcomerStep ==
  ASSUME QueueInv, Next, Len(queue') > Len(queue) PROVE Behind(queue', queue)
<1>0. QueueReady /\ queue \in Seq(Entries) /\ Len(queue) \in Nat
  BY InvReady DEF QueueReady
<1>1. queue' # queue
  BY <1>0
<1>2. CASE ServeEvent
  <2>1. queue' = Tail(queue) /\ queue # <<>>
    BY <1>2 DEF ServeEvent, Due
  <2>2. Len(queue') = Len(queue) - 1
    BY <1>0, <2>1, HeadTailProperties
  <2>. QED
    BY <1>0, <2>2
<1>3. CASE TIMER_AddTick
  <2>1. Len(queue') = Len(queue)
    BY <1>0, <1>3 DEF TIMER_AddTick
  <2>. QED
    BY <1>0, <2>1
<1>4. CASE TimerAgain
  <2>1. PIC_AddEvent(Timer, Period, 0, CPU_Cycles) /\ CPU_Cycles \in Int /\ Period \in Nat
    BY <1>4, InvReady, EventQueueAssumption DEF TimerAgain
  <2>. QED
    BY <1>0, <2>1, AddGoesBehind
<1>5. CASE ExecuteIO
  <2>1. DeviceCall(Delays, CPU_Cycles - 1) /\ CPU_Cycles - 1 \in Int
    BY InvReady, <1>5 DEF ExecuteIO
  <2>. QED
    BY <1>0, <2>1, CallGoesBehind, EventQueueAssumption
<1>6. CASE HandlerCalls \/ TickHandlerCalls
  <2>1. CPU_Cycles \in Int
    BY InvReady
  <2>2. PICK delays \in SUBSET Nat : DeviceCall(delays, CPU_Cycles)
    BY <1>6, EventQueueAssumption DEF HandlerCalls, TickHandlerCalls
  <2>. QED
    BY <1>0, <2>1, <2>2, CallGoesBehind
<1>. QED
  BY <1>1, <1>2, <1>3, <1>4, <1>5, <1>6
     DEF Next, Returning, PIC_RunQueue, QueueServed, CoreReturns, TickHandlersReturn, Execute,
         HandlerReturns, TimerReturns

\* Events due at the same time are served in the order in which they were added.
THEOREM EqualsKeepOrder == Spec => NewcomerGoesBehind
<1>1. QueueInv /\ [Next]_vars => [Len(queue') > Len(queue) => Behind(queue', queue)]_vars
  BY NewcomerStep
<1>2. NewcomerGoesBehind <=> [][Len(queue') > Len(queue) => Behind(queue', queue)]_vars
  BY DEF NewcomerGoesBehind, Behind
<1>. QED
  BY <1>1, <1>2, Invariance, PTL DEF Spec

----------------------------------------------------------------------------
(* Punctuality. *)

\* Nothing but what was in the list.
OnlyOld == \A j \in 1 .. Len(queue') : \E k \in 1 .. Len(queue) : queue'[j] = queue[k]

\* Entries are old or have a stamp of the moment, and the slice ends now or is
\* left to end before any entry that is new at the head.
StampedAt(delays, cycles) ==
    /\ \A j \in 1 .. Len(queue') :
          \/ \E k \in 1 .. Len(queue) : queue'[j] = queue[k]
          \/ \E delay \in delays : queue'[j].index = Stamp(delay, cycles)
    /\ \/ /\ CPU_CycleLeft' = CPU_CycleLeft /\ CPU_Cycles' = cycles
          /\ OnlyOld \/ (queue' \in Seq(Entries) /\ Sorted(queue') /\ ~Cut(queue'[1], cycles))
       \/ CPU_CycleLeft' = CPU_CycleLeft + cycles /\ CPU_Cycles' = 0

LEMMA AddStamps ==
  ASSUME NEW event \in Handlers \cup {Timer}, NEW delay \in Nat, NEW value \in Vals \cup {0},
         NEW cycles \in Int, QueueReady, PIC_AddEvent(event, delay, value, cycles)
  PROVE  StampedAt({delay}, cycles)
<1>1. CASE free = 0
  <2>1. UNCHANGED <<queue, free, CPU_CycleLeft>> /\ CPU_Cycles' = cycles
    BY <1>1 DEF PIC_AddEvent
  <2>. QED
    BY <2>1 DEF StampedAt, OnlyOld
<1>2. CASE free # 0
  <2> DEFINE stamp == Stamp(delay, cycles)
             entry == [index |-> stamp, event |-> event, value |-> value]
             q == Linked(queue, entry)
  <2>1. stamp \in Int
    <3>1. CPU_CycleMax \in Int /\ RESOLUTION \in Int /\ delay \in Int
      BY EventQueueAssumption
    <3>2. PIC_TickIndexND(CPU_CycleLeft, cycles) * RESOLUTION \in Int
      BY <3>1 DEF PIC_TickIndexND, QueueReady
    <3>. QED
      BY <3>1, <3>2 DEF Stamp, QueueReady
  <2>2. /\ queue' = q
        /\ IF Cut(q[1], cycles)
           THEN CPU_CycleLeft' = CPU_CycleLeft + cycles /\ CPU_Cycles' = 0
           ELSE CPU_CycleLeft' = CPU_CycleLeft /\ CPU_Cycles' = cycles
    BY <1>2 DEF PIC_AddEvent
  <2> HIDE DEF stamp
  <2>3. entry \in Entries /\ entry.index = stamp
    BY <2>1 DEF Entries
  <2> HIDE DEF entry
  <2>4. /\ q \in Seq(Entries) /\ Len(q) = Len(queue) + 1 /\ Sorted(q)
        /\ \A j \in 1 .. Len(queue) + 1 :
             q[j] = entry \/ \E k \in 1 .. Len(queue) : q[j] = queue[k]
    BY <2>3, LinkedIn DEF QueueReady
  <2> HIDE DEF q
  <2>5. \A j \in 1 .. Len(queue') :
          (\E k \in 1 .. Len(queue) : queue'[j] = queue[k]) \/ queue'[j].index = stamp
    BY <2>2, <2>3, <2>4, Zenon
  <2>6. \/ /\ CPU_CycleLeft' = CPU_CycleLeft /\ CPU_Cycles' = cycles
           /\ queue' \in Seq(Entries) /\ Sorted(queue') /\ ~Cut(queue'[1], cycles)
        \/ CPU_CycleLeft' = CPU_CycleLeft + cycles /\ CPU_Cycles' = 0
    <3>1. queue' \in Seq(Entries) /\ Sorted(queue')
      BY <2>2, <2>4 DEF Sorted
    <3>2. CASE Cut(q[1], cycles)
      BY <2>2, <3>2
    <3>3. CASE ~Cut(q[1], cycles)
      <4>1. CPU_CycleLeft' = CPU_CycleLeft /\ CPU_Cycles' = cycles /\ queue' = q
        BY <2>2, <3>3
      <4>2. ~Cut(queue'[1], cycles)
        <5>1. queue'[1] = q[1]
          BY <4>1
        <5>. QED
          BY <3>3, <5>1 DEF Cut
      <4>. QED
        BY <3>1, <4>1, <4>2
    <3>. QED
      BY <3>2, <3>3
  <2>. QED
    BY <2>5, <2>6 DEF StampedAt, stamp
<1>. QED
  BY <1>1, <1>2

LEMMA CallStamps ==
  ASSUME NEW delays \in SUBSET Nat, NEW cycles \in Int, QueueReady, DeviceCall(delays, cycles)
  PROVE  StampedAt(delays, cycles)
<1>1. PICK event \in Handlers :
        \/ \E delay \in delays, value \in Vals : PIC_AddEvent(event, delay, value, cycles)
        \/ PIC_RemoveEvents(event, cycles)
        \/ \E value \in Vals : PIC_RemoveSpecificEvents(event, value, cycles)
  BY DEF DeviceCall
<1>2. CASE \E delay \in delays, value \in Vals : PIC_AddEvent(event, delay, value, cycles)
  <2>1. PICK delay \in delays, value \in Vals : PIC_AddEvent(event, delay, value, cycles)
    BY <1>2
  <2>2. delay \in Nat /\ value \in Vals \cup {0}
    OBVIOUS
  <2>3. StampedAt({delay}, cycles)
    BY <2>1, <2>2, AddStamps
  <2>. QED
    BY <2>3 DEF StampedAt
<1>3. ASSUME NEW gone, Unlink(gone, cycles) PROVE StampedAt(delays, cycles)
  <2>1. OnlyOld
    BY <1>3, UnlinkDoes DEF OnlyOld
  <2>2. CPU_CycleLeft' = CPU_CycleLeft /\ CPU_Cycles' = cycles
    BY <1>3 DEF Unlink
  <2>. QED
    BY <2>1, <2>2 DEF StampedAt, OnlyOld
<1>. QED
  BY <1>1, <1>2, <1>3 DEF PIC_RemoveEvents, PIC_RemoveSpecificEvents

\* More cycles are more parts.
LEMMA PartsGrow ==
  ASSUME NEW a \in Int, NEW b \in Int, a <= b
  PROVE  a * RESOLUTION <= b * RESOLUTION
<1>1. RESOLUTION \in Nat \ {0}
  BY EventQueueAssumption
<1>2. b - a \in Nat
  OBVIOUS
<1>3. (b - a) * RESOLUTION >= 0
  BY <1>1, <1>2
<1>. QED
  BY <1>1, <1>3

\* A cycle less.
LEMMA PartsBefore ==
  ASSUME NEW a \in Int
  PROVE  a * RESOLUTION \in Int /\ (a - 1) * RESOLUTION = a * RESOLUTION - RESOLUTION
<1>1. RESOLUTION \in Nat \ {0}
  BY EventQueueAssumption
<1>. QED
  BY <1>1

AllAfter(q, bound) == \A i \in 1 .. Len(q) : q[i].index > bound

\* While the CPU has its slice no event is due a whole cycle before the slice
\* ends, and the slice is overrun by no more than an instruction.
InTime ==
    at = "cpu" =>
        /\ CPU_Cycles >= -MaxOverrun
        /\ AllAfter(queue, (CPU_CycleMax - CPU_CycleLeft - 1) * RESOLUTION)

\* There is a cycle to give to the CPU when the queue has been served.
CycleAtHand == at \in {"service", "handler", "timer"} => CPU_CycleLeft > 0

PunctualInv == ServedOnTime /\ InTime /\ CycleAtHand

\* What the lateness of an event is compared with.
LateBound == (MaxOverrun + 1) * RESOLUTION

LEMMA LateBoundIsNat == LateBound \in Nat \ {0} /\ LateBound = MaxOverrun * RESOLUTION + RESOLUTION
<1>1. MaxOverrun \in Nat /\ RESOLUTION \in Nat \ {0}
  BY EventQueueAssumption
<1>2. MaxOverrun * RESOLUTION \in Nat
  BY <1>1
<1>. QED
  BY <1>1, <1>2 DEF LateBound

\* With no time passing, an entry that is new is no later than what it is
\* counted from.
LEMMA CallAtRestOnTime ==
  ASSUME QueueInv, PunctualInv, NEW delays \in SUBSET Nat,
         StampedAt(delays, CPU_Cycles), UNCHANGED <<serving, srv_lag>>,
         InEventService => serving # NoEntry
  PROVE  ServedOnTime'
<1>0. /\ CPU_Cycles \in Int /\ CPU_CycleLeft \in Int /\ CPU_CycleMax \in Int /\ RESOLUTION \in Int
      /\ srv_lag \in Int /\ queue \in Seq(Entries)
  BY InvReady, EventQueueAssumption DEF QueueReady
<1> DEFINE now == PIC_TickIndexND(CPU_CycleLeft, CPU_Cycles)
           then == PIC_TickIndexND(CPU_CycleLeft', CPU_Cycles')
           parts == now * RESOLUTION
<1>1. now \in Int /\ then = now
  <2> DEFINE left == CPU_CycleLeft'
             cycles == CPU_Cycles'
  <2>1. \/ left = CPU_CycleLeft /\ cycles = CPU_Cycles
        \/ left = CPU_CycleLeft + CPU_Cycles /\ cycles = 0
    BY DEF StampedAt
  <2> HIDE DEF left, cycles
  <2>2. PIC_TickIndexND(left, cycles) = now /\ now \in Int
    BY <1>0, <2>1 DEF PIC_TickIndexND
  <2>. QED
    BY <2>2 DEF left, cycles
<1>2. parts \in Int
  BY <1>0, <1>1
<1>3. /\ \A i \in 1 .. Len(queue) : parts - queue[i].index < LateBound
      /\ serving # NoEntry => parts - srv_lag < LateBound
  BY DEF PunctualInv, ServedOnTime, Lateness, LateBound
<1>4. ASSUME NEW delay \in delays PROVE parts - Stamp(delay, CPU_Cycles) < LateBound
  <2>1. CASE InEventService
    <3>1. Stamp(delay, CPU_Cycles) = delay + srv_lag
      BY <2>1 DEF Stamp
    <3>2. parts - srv_lag < LateBound /\ delay \in Nat
      BY <2>1, <1>3
    <3> HIDE DEF parts
    <3>. QED
      BY <3>1, <3>2, <1>0, <1>2, LateBoundIsNat
  <2>2. CASE ~InEventService
    <3>1. Stamp(delay, CPU_Cycles) = delay + parts
      BY <2>2 DEF Stamp
    <3> HIDE DEF parts
    <3>. QED
      BY <3>1, <1>2, LateBoundIsNat
  <2>. QED
    BY <2>1, <2>2
<1> HIDE DEF now, then
<1>5. ASSUME NEW j \in 1 .. Len(queue') PROVE parts - queue'[j].index < LateBound
  <2>1. CASE \E k \in 1 .. Len(queue) : queue'[j] = queue[k]
    BY <2>1, <1>3
  <2>2. CASE \E delay \in delays : queue'[j].index = Stamp(delay, CPU_Cycles)
    BY <2>2, <1>4
  <2>. QED
    BY <2>1, <2>2 DEF StampedAt
<1>6. then * RESOLUTION = parts
  BY <1>1
<1>7. serving' # NoEntry => parts - srv_lag' < LateBound
  BY <1>3
<1>. QED
  BY <1>5, <1>6, <1>7 DEF ServedOnTime, Lateness, LateBound, then

\* An event added while the slice runs is not due a whole cycle before its end.
LEMMA CallInSlice ==
  ASSUME QueueInv, NEW delays \in SUBSET Nat, NEW cycles \in Nat, ~InEventService,
         StampedAt(delays, cycles),
         AllAfter(queue, (CPU_CycleMax - CPU_CycleLeft - 1) * RESOLUTION)
  PROVE  /\ CPU_Cycles' \in Nat
         /\ AllAfter(queue', (CPU_CycleMax - CPU_CycleLeft' - 1) * RESOLUTION)
<1>0. /\ CPU_CycleLeft \in Int /\ CPU_CycleMax \in Int /\ RESOLUTION \in Nat \ {0}
      /\ queue \in Seq(Entries) /\ delays \in SUBSET Nat
  BY InvReady, EventQueueAssumption DEF QueueReady
<1>1. \A k \in 1 .. Len(queue) : queue[k].index \in Int
  BY <1>0, EntriesOfList
<1> DEFINE end == CPU_CycleMax - CPU_CycleLeft
           now == end - cycles
<1>2. end \in Int /\ now \in Int /\ now <= end
  BY <1>0
<1>3. \A delay \in delays : Stamp(delay, cycles) = delay + now * RESOLUTION
  <2>1. PIC_TickIndexND(CPU_CycleLeft, cycles) = now
    BY DEF PIC_TickIndexND
  <2>. QED
    BY <2>1 DEF Stamp
<1>4. \A k \in 1 .. Len(queue) : queue[k].index > (end - 1) * RESOLUTION
  BY DEF AllAfter
<1>5. CASE CPU_CycleLeft' = CPU_CycleLeft + cycles /\ CPU_Cycles' = 0
  <2>1. CPU_CycleMax - CPU_CycleLeft' = now
    BY <1>0, <1>5
  <2> HIDE DEF end, now
  <2>2. /\ (now - 1) * RESOLUTION = now * RESOLUTION - RESOLUTION /\ now * RESOLUTION \in Int
        /\ (end - 1) * RESOLUTION = end * RESOLUTION - RESOLUTION /\ end * RESOLUTION \in Int
        /\ now * RESOLUTION <= end * RESOLUTION
    BY <1>2, PartsGrow, PartsBefore
  <2>3. ASSUME NEW j \in 1 .. Len(queue') PROVE queue'[j].index > (now - 1) * RESOLUTION
    <3>1. CASE \E k \in 1 .. Len(queue) : queue'[j] = queue[k]
      BY <3>1, <1>0, <1>1, <1>4, <2>2
    <3>2. CASE \E delay \in delays : queue'[j].index = Stamp(delay, cycles)
      <4>1. PICK delay \in delays : queue'[j].index = delay + now * RESOLUTION
        BY <3>2, <1>3
      <4>2. delay \in Nat
        BY <1>0
      <4>. QED
        BY <4>1, <4>2, <1>0, <2>2
    <3>. QED
      BY <3>1, <3>2 DEF StampedAt
  <2>4. AllAfter(queue', (now - 1) * RESOLUTION)
    BY <2>3 DEF AllAfter
  <2>. QED
    BY <1>5, <2>1, <2>4
<1>6. CASE CPU_CycleLeft' = CPU_CycleLeft /\ CPU_Cycles' = cycles /\ OnlyOld
  BY <1>6, <1>4 DEF OnlyOld, AllAfter
<1>7. CASE /\ CPU_CycleLeft' = CPU_CycleLeft /\ CPU_Cycles' = cycles
           /\ queue' \in Seq(Entries) /\ Sorted(queue') /\ ~Cut(queue'[1], cycles)
  <2>0. \A j \in 1 .. Len(queue') : queue'[j] \in Entries /\ queue'[j].index \in Int
    BY <1>7, EntriesOfList
  <2>1. ASSUME NEW j \in 1 .. Len(queue') PROVE queue'[j].index > (end - 1) * RESOLUTION
    <3>1. CASE \E k \in 1 .. Len(queue) : queue'[j] = queue[k]
      BY <3>1, <1>4
    <3>2. CASE \E delay \in delays : queue'[j].index = Stamp(delay, cycles)
      <4>1. PICK delay \in delays : queue'[j].index = delay + now * RESOLUTION
        BY <3>2, <1>3
      <4>2. delay \in Nat
        BY <1>0
      <4>3. CASE cycles = 0
        <5>1. now = end
          BY <4>3, <1>0
        <5> HIDE DEF end, now
        <5>2. (end - 1) * RESOLUTION = end * RESOLUTION - RESOLUTION /\ end * RESOLUTION \in Int
          BY <1>2, PartsGrow, PartsBefore
        <5>. QED
          BY <4>1, <4>2, <5>1, <5>2, <1>0
      <4>4. CASE cycles # 0
        <5> DEFINE head == queue'[1]
        <5>1. Len(queue') \in Nat /\ 1 \in 1 .. Len(queue') /\ head \in Entries /\ head.index \in Int
          BY <1>7, <2>0, LenProperties
        <5>2. head.index >= end * RESOLUTION
          <6> DEFINE parts == head.index - now * RESOLUTION
          <6>1. parts \in Int /\ now * RESOLUTION \in Int
            BY <5>1, <1>0, <1>2
          <6>2. PIC_MakeCycles(parts) \in Int
            BY <1>0, <6>1 DEF PIC_MakeCycles
          <6>3. PIC_TickIndexND(CPU_CycleLeft, cycles) = now
            BY DEF PIC_TickIndexND
          <6>4. ~(PIC_MakeCycles(parts) < cycles)
            BY <1>7, <6>3 DEF Cut
          <6>5. parts >= cycles * RESOLUTION
            <7>1. cycles \in Nat \ {0} /\ PIC_MakeCycles(parts) >= cycles
              BY <4>4, <6>2, <6>4
            <7> HIDE DEF parts
            <7>. QED
              BY <6>1, <7>1, MakeCyclesBound
          <6>6. end * RESOLUTION = now * RESOLUTION + cycles * RESOLUTION /\ cycles * RESOLUTION \in Int
            BY <1>0, <1>2
          <6> HIDE DEF head, end, now
          <6>. QED
            BY <5>1, <6>1, <6>5, <6>6
        <5>3. head.index <= queue'[j].index
          BY <1>7, <5>1, FirstIsLeast
        <5> HIDE DEF head, end, now
        <5>4. (end - 1) * RESOLUTION = end * RESOLUTION - RESOLUTION /\ end * RESOLUTION \in Int
          BY <1>2, PartsGrow, PartsBefore
        <5>. QED
          BY <1>0, <2>0, <5>1, <5>2, <5>3, <5>4
      <4>. QED
        BY <4>3, <4>4
    <3>. QED
      BY <3>1, <3>2 DEF StampedAt
  <2>. QED
    BY <1>7, <2>1 DEF AllAfter
<1>. QED
  BY <1>5, <1>6, <1>7 DEF StampedAt

\* No event is late by more than the overrun while all are due after the last
\* cycle of the slice.
LEMMA SliceOnTime ==
  ASSUME NEW q \in Seq(Entries), NEW left \in Int, NEW cycles \in Int, cycles >= -MaxOverrun,
         AllAfter(q, (CPU_CycleMax - left - 1) * RESOLUTION)
  PROVE  \A i \in 1 .. Len(q) : PIC_TickIndexND(left, cycles) * RESOLUTION - q[i].index < LateBound
<1>0. CPU_CycleMax \in Int /\ RESOLUTION \in Nat \ {0} /\ MaxOverrun \in Nat
  BY EventQueueAssumption
<1> DEFINE end == CPU_CycleMax - left
           now == PIC_TickIndexND(left, cycles)
           last == end + MaxOverrun
<1>1. end \in Int /\ now \in Int /\ last \in Int /\ now <= last
  BY <1>0 DEF PIC_TickIndexND
<1>2. last * RESOLUTION = end * RESOLUTION + MaxOverrun * RESOLUTION /\ MaxOverrun * RESOLUTION \in Int
  BY <1>0
<1>3. \A i \in 1 .. Len(q) : q[i].index \in Int /\ q[i].index > (end - 1) * RESOLUTION
  BY EntriesOfList DEF AllAfter
<1> HIDE DEF end, now, last
<1>4. /\ (end - 1) * RESOLUTION = end * RESOLUTION - RESOLUTION /\ end * RESOLUTION \in Int
      /\ now * RESOLUTION <= last * RESOLUTION /\ now * RESOLUTION \in Int /\ last * RESOLUTION \in Int
  BY <1>1, PartsGrow, PartsBefore
<1>5. \A i \in 1 .. Len(q) : now * RESOLUTION - q[i].index < LateBound
  BY <1>0, <1>2, <1>3, <1>4, LateBoundIsNat
<1>. QED
  BY <1>5 DEF now

LEMMA ExecuteIOOnTime ==
  ASSUME QueueInv, PunctualInv, ExecuteIO PROVE PunctualInv'
<1> DEFINE cycles == CPU_Cycles - 1
<1>0. /\ QueueReady /\ cycles \in Nat /\ Delays \in SUBSET Nat /\ at = "cpu" /\ at' = "cpu"
      /\ ~InEventService /\ serving' = NoEntry /\ MaxOverrun \in Nat
  BY InvReady, EventQueueAssumption DEF ExecuteIO, QueueInv, TypeOK
<1>1. DeviceCall(Delays, cycles)
  BY DEF ExecuteIO
<1> HIDE DEF cycles
<1>2. StampedAt(Delays, cycles) /\ Called(cycles)
  BY <1>0, <1>1, CallStamps, DeviceCallDoes
<1>3. /\ CPU_Cycles' \in Nat
      /\ AllAfter(queue', (CPU_CycleMax - CPU_CycleLeft' - 1) * RESOLUTION)
  BY <1>0, <1>2, CallInSlice DEF PunctualInv, InTime
<1>4. queue' \in Seq(Entries) /\ CPU_CycleLeft' \in Int
  BY <1>2 DEF Called
<1>5. CPU_Cycles' >= -MaxOverrun
  <2> DEFINE rest == CPU_Cycles'
  <2>1. rest \in Nat
    BY <1>3
  <2> HIDE DEF rest
  <2>2. rest >= -MaxOverrun
    BY <1>0, <2>1
  <2>. QED
    BY <2>2 DEF rest
<1>6. \A i \in 1 .. Len(queue') :
        PIC_TickIndexND(CPU_CycleLeft', CPU_Cycles') * RESOLUTION - queue'[i].index < LateBound
  <2> DEFINE q == queue'
             left == CPU_CycleLeft'
             rest == CPU_Cycles'
  <2>1. /\ q \in Seq(Entries) /\ left \in Int /\ rest \in Int /\ rest >= -MaxOverrun
        /\ AllAfter(q, (CPU_CycleMax - left - 1) * RESOLUTION)
    BY <1>3, <1>4, <1>5
  <2> HIDE DEF q, left, rest
  <2>2. \A i \in 1 .. Len(q) : PIC_TickIndexND(left, rest) * RESOLUTION - q[i].index < LateBound
    BY <2>1, SliceOnTime
  <2>. QED
    BY <2>2 DEF q, left, rest
<1>7. ServedOnTime'
  BY <1>0, <1>6 DEF ServedOnTime, Lateness, LateBound
<1>8. InTime' /\ CycleAtHand'
  BY <1>0, <1>3, <1>5 DEF InTime, CycleAtHand
<1>. QED
  BY <1>7, <1>8 DEF PunctualInv

LEMMA ExecuteOnTime ==
  ASSUME QueueInv, PunctualInv, Execute PROVE PunctualInv'
<1>0. /\ CPU_CycleLeft \in Int /\ CPU_Cycles \in Int /\ CPU_Cycles > 0 /\ queue \in Seq(Entries)
      /\ at = "cpu" /\ at' \in {"cpu", "loop"} /\ serving = NoEntry /\ MaxOverrun \in Nat
      /\ UNCHANGED <<queue, CPU_CycleLeft, serving>>
  BY InvReady, EventQueueAssumption DEF QueueReady, Execute, QueueInv, TypeOK
<1>1. PICK n \in 1 .. CPU_Cycles + MaxOverrun : CPU_Cycles' = CPU_Cycles - n
  BY DEF Execute
<1> DEFINE rest == CPU_Cycles'
<1>2. rest \in Int /\ rest >= -MaxOverrun
  BY <1>0, <1>1
<1>3. AllAfter(queue, (CPU_CycleMax - CPU_CycleLeft - 1) * RESOLUTION)
  BY <1>0 DEF PunctualInv, InTime
<1>4. AllAfter(queue', (CPU_CycleMax - CPU_CycleLeft' - 1) * RESOLUTION)
  BY <1>0, <1>3 DEF AllAfter
<1> HIDE DEF rest
<1>5. \A i \in 1 .. Len(queue) :
        PIC_TickIndexND(CPU_CycleLeft, rest) * RESOLUTION - queue[i].index < LateBound
  BY <1>0, <1>2, <1>3, SliceOnTime
<1>6. ServedOnTime'
  BY <1>0, <1>5 DEF ServedOnTime, Lateness, LateBound, rest
<1>7. InTime' /\ CycleAtHand'
  BY <1>0, <1>2, <1>4 DEF InTime, CycleAtHand, rest
<1>. QED
  BY <1>6, <1>7 DEF PunctualInv

\* The slice ends in the cycle in which the first event is due, or before it.
LEMMA QueueServedOnTime ==
  ASSUME QueueInv, PunctualInv, QueueServed PROVE PunctualInv'
<1>0. /\ QueueReady /\ queue \in Seq(Entries) /\ CPU_CycleLeft \in Nat \ {0} /\ CPU_Cycles = 0
      /\ at = "service" /\ ~Due /\ serving = NoEntry /\ index_nd = CPU_CycleMax - CPU_CycleLeft
      /\ CPU_CycleMax \in Int /\ RESOLUTION \in Nat \ {0} /\ MaxOverrun \in Nat /\ index_nd \in Int
  BY InvReady, EventQueueAssumption
     DEF QueueReady, QueueServed, QueueInv, TypeOK, ServiceAtRest, PunctualInv, CycleAtHand
<1>1. /\ at' = "cpu" /\ UNCHANGED <<queue, serving, srv_lag>>
      /\ CPU_Cycles' = IF queue # <<>> /\ Slice(queue[1]) < CPU_CycleLeft
                       THEN Slice(queue[1]) ELSE CPU_CycleLeft
      /\ CPU_CycleLeft' = CPU_CycleLeft - CPU_Cycles'
  BY DEF QueueServed
<1> DEFINE cycles == CPU_Cycles'
           left == CPU_CycleLeft'
<1>2. /\ cycles = IF queue # <<>> /\ Slice(queue[1]) < CPU_CycleLeft
                  THEN Slice(queue[1]) ELSE CPU_CycleLeft
      /\ left = CPU_CycleLeft - cycles
  BY <1>1
<1> HIDE DEF cycles, left
<1>3. CASE queue = <<>>
  <2>1. cycles = CPU_CycleLeft /\ cycles >= -MaxOverrun
    BY <1>0, <1>2, <1>3
  <2>2. Len(queue) = 0
    BY <1>3
  <2>3. ServedOnTime' /\ CycleAtHand'
    BY <1>0, <1>1, <2>2 DEF ServedOnTime, CycleAtHand
  <2>4. InTime'
    BY <1>1, <2>1, <2>2 DEF InTime, AllAfter, cycles
  <2>. QED
    BY <2>3, <2>4 DEF PunctualInv
<1>4. CASE queue # <<>>
  <2> DEFINE head == queue[1]
             parts == head.index - index_nd * RESOLUTION
             whole == PIC_MakeCycles(parts)
  <2>1. /\ Len(queue) \in Nat /\ 1 \in 1 .. Len(queue) /\ Sorted(queue) /\ head.index \in Int
        /\ \A i \in 1 .. Len(queue) : queue[i].index \in Int
    <3>1. Len(queue) \in Nat /\ 1 \in 1 .. Len(queue)
      BY <1>0, <1>4, LenProperties
    <3>. QED
      BY <1>0, <3>1, EntriesOfList DEF QueueReady
  <2>2. index_nd * RESOLUTION \in Int /\ parts \in Int /\ parts > 0
    BY <1>0, <1>4, <2>1 DEF Due
  <2> HIDE DEF parts
  <2>3. whole \in Nat /\ whole * RESOLUTION \in Int /\ whole * RESOLUTION <= parts
    <3>1. whole = parts \div RESOLUTION
      BY <2>2 DEF PIC_MakeCycles
    <3>2. parts \div RESOLUTION \in Nat /\ (parts \div RESOLUTION) * RESOLUTION <= parts
      BY <1>0, <2>2
    <3>. QED
      BY <1>0, <3>1, <3>2
  <2>a. Slice(head) = IF whole = 0 THEN 1 ELSE whole
    BY Zenon DEF Slice, whole, parts
  <2> HIDE DEF whole
  <2>4. /\ Slice(head) \in Nat \ {0} /\ (Slice(head) - 1) * RESOLUTION < parts
    <3>1. CASE whole = 0
      <4>1. Slice(head) = 1
        BY <2>a, <3>1
      <4>2. (1 - 1) * RESOLUTION = 0
        BY <1>0
      <4>. QED
        BY <4>1, <4>2, <2>2
    <3>2. CASE whole # 0
      <4>1. Slice(head) = whole
        BY <2>a, <3>2
      <4>2. (whole - 1) * RESOLUTION = whole * RESOLUTION - RESOLUTION
        BY <2>3, PartsBefore
      <4>. QED
        BY <1>0, <2>2, <2>3, <3>2, <4>1, <4>2
    <3>. QED
      BY <3>1, <3>2
  <2> DEFINE slice == Slice(head)
  <2>5. slice \in Nat \ {0} /\ (slice - 1) * RESOLUTION < parts
    BY <2>4
  <2>6. cycles = IF slice < CPU_CycleLeft THEN slice ELSE CPU_CycleLeft
    BY <1>2, <1>4
  <2> HIDE DEF slice
  <2>7. cycles \in Nat \ {0} /\ cycles - 1 <= slice - 1 /\ left \in Int /\ cycles >= -MaxOverrun
    BY <1>0, <1>2, <2>5, <2>6
  <2>8. (cycles - 1) * RESOLUTION < parts
    <3>1. (cycles - 1) * RESOLUTION <= (slice - 1) * RESOLUTION
      BY <2>5, <2>7, PartsGrow
    <3>2. (cycles - 1) * RESOLUTION \in Int /\ (slice - 1) * RESOLUTION \in Int
      BY <1>0, <2>5, <2>7
    <3>. QED
      BY <2>2, <2>5, <3>1, <3>2
  <2>9. (CPU_CycleMax - left - 1) * RESOLUTION < head.index
    <3>1. CPU_CycleMax - left - 1 = index_nd + (cycles - 1)
      BY <1>0, <1>2, <2>7
    <3>2. (index_nd + (cycles - 1)) * RESOLUTION = index_nd * RESOLUTION + (cycles - 1) * RESOLUTION
          /\ (cycles - 1) * RESOLUTION \in Int
      BY <1>0, <2>7
    <3>3. parts = head.index - index_nd * RESOLUTION
      BY DEF parts
    <3> HIDE DEF head
    <3>. QED
      BY <2>1, <2>2, <2>8, <3>1, <3>2, <3>3
  <2>10. AllAfter(queue, (CPU_CycleMax - left - 1) * RESOLUTION)
    <3>1. (CPU_CycleMax - left - 1) * RESOLUTION \in Int
      BY <1>0, <2>7
    <3>2. ASSUME NEW i \in 1 .. Len(queue) PROVE queue[i].index > (CPU_CycleMax - left - 1) * RESOLUTION
      <4>1. head.index <= queue[i].index
        BY <2>1, FirstIsLeast
      <4>. QED
        BY <2>1, <2>9, <3>1, <4>1
    <3>. QED
      BY <3>2 DEF AllAfter
  <2>11. \A i \in 1 .. Len(queue) :
           PIC_TickIndexND(left, cycles) * RESOLUTION - queue[i].index < LateBound
    BY <1>0, <2>7, <2>10, SliceOnTime
  <2>12. ServedOnTime'
    BY <1>0, <1>1, <2>11 DEF ServedOnTime, Lateness, LateBound, left, cycles
  <2>13. InTime' /\ CycleAtHand'
    <3>1. AllAfter(queue', (CPU_CycleMax - CPU_CycleLeft' - 1) * RESOLUTION)
      BY <1>1, <2>10 DEF AllAfter, left
    <3>. QED
      BY <1>1, <2>7, <3>1 DEF InTime, CycleAtHand, cycles
  <2>. QED
    BY <2>12, <2>13 DEF PunctualInv
<1>. QED
  BY <1>3, <1>4

LEMMA ServeEventOnTime ==
  ASSUME QueueInv, PunctualInv, ServeEvent PROVE PunctualInv'
<1>0. queue \in Seq(Entries) /\ queue # <<>> /\ Len(queue) \in Nat
  BY InvReady DEF QueueReady, ServeEvent, Due
<1>1. /\ queue' = Tail(queue) /\ srv_lag' = queue[1].index /\ at = "service" /\ at' = "handler"
      /\ UNCHANGED <<CPU_Cycles, CPU_CycleLeft>>
  BY DEF ServeEvent, cpuVars
<1>2. /\ Len(queue') = Len(queue) - 1 /\ 1 \in 1 .. Len(queue)
      /\ \A i \in 1 .. Len(queue') : queue'[i] = queue[i + 1] /\ i + 1 \in 1 .. Len(queue)
  BY <1>0, <1>1, HeadTailProperties
<1>3. ServedOnTime'
  BY <1>1, <1>2 DEF PunctualInv, ServedOnTime, Lateness
<1>4. InTime' /\ CycleAtHand'
  BY <1>1 DEF PunctualInv, InTime, CycleAtHand
<1>. QED
  BY <1>3, <1>4 DEF PunctualInv

\* A millisecond later every event is due a millisecond earlier, and so is now.
LEMMA AddTickOnTime ==
  ASSUME QueueInv, PunctualInv, TIMER_AddTick PROVE PunctualInv'
<1>0. /\ CPU_CycleLeft \in Int /\ CPU_Cycles \in Int /\ CPU_CycleMax \in Int /\ RESOLUTION \in Int
      /\ queue \in Seq(Entries) /\ Len(queue) \in Nat /\ serving = NoEntry
  BY InvReady, EventQueueAssumption DEF QueueReady, TIMER_AddTick, QueueInv, TypeOK
<1>1. /\ at' = "tickers" /\ CPU_Cycles' = 0 /\ serving' = serving
      /\ CPU_CycleLeft' = CPU_CycleLeft + CPU_CycleMax + CPU_Cycles
      /\ queue' = [i \in 1 .. Len(queue) |-> [queue[i] EXCEPT !.index = @ - Tick]]
  BY DEF TIMER_AddTick, Grant
<1>2. Tick \in Int /\ Tick = CPU_CycleMax * RESOLUTION
  BY <1>0 DEF Tick
<1>3. \A i \in 1 .. Len(queue) :
        /\ queue[i] \in Entries /\ queue[i].index \in Int
        /\ [queue[i] EXCEPT !.index = @ - Tick].index = queue[i].index - Tick
  <2>1. \A i \in 1 .. Len(queue) : queue[i] \in Entries /\ queue[i].index \in Int
    BY <1>0, EntriesOfList
  <2>. QED
    BY <1>2, <2>1, Earlier
<1> DEFINE moved(i) == [queue[i] EXCEPT !.index = @ - Tick]
           now == PIC_TickIndexND(CPU_CycleLeft, CPU_Cycles)
           then == PIC_TickIndexND(CPU_CycleLeft', CPU_Cycles')
<1>4. now \in Int /\ then = now - CPU_CycleMax
  BY <1>0, <1>1 DEF PIC_TickIndexND
<1>5. then * RESOLUTION = now * RESOLUTION - Tick /\ now * RESOLUTION \in Int
  <2> HIDE DEF now, then
  <2>. QED
    BY <1>0, <1>2, <1>4
<1>6. /\ queue' = [i \in 1 .. Len(queue) |-> moved(i)]
      /\ \A i \in 1 .. Len(queue) : moved(i).index = queue[i].index - Tick
  BY <1>1, <1>3
<1> HIDE DEF moved, now, then
<1>7. Len(queue') = Len(queue) /\ \A i \in 1 .. Len(queue) : queue'[i].index = queue[i].index - Tick
  BY <1>0, <1>6
<1>8. \A i \in 1 .. Len(queue) : now * RESOLUTION - queue[i].index < LateBound
  BY DEF PunctualInv, ServedOnTime, Lateness, LateBound, now
<1>9. ASSUME NEW i \in 1 .. Len(queue') PROVE then * RESOLUTION - queue'[i].index < LateBound
  <2>1. /\ queue[i].index \in Int /\ queue'[i].index = queue[i].index - Tick
        /\ now * RESOLUTION - queue[i].index < LateBound
    BY <1>3, <1>7, <1>8
  <2>. QED
    BY <1>2, <1>5, <2>1
<1>10. ServedOnTime'
  BY <1>0, <1>1, <1>9 DEF ServedOnTime, Lateness, LateBound, then
<1>11. InTime' /\ CycleAtHand'
  BY <1>1 DEF InTime, CycleAtHand
<1>. QED
  BY <1>10, <1>11 DEF PunctualInv

\* Cycles go back from the slice to the millisecond.
LEMMA RunQueueOnTime ==
  ASSUME QueueInv, PunctualInv, PIC_RunQueue PROVE PunctualInv'
<1>0. CPU_CycleLeft \in Int /\ CPU_Cycles \in Int /\ CPU_CycleMax \in Int
  BY InvReady DEF QueueReady
<1>1. /\ UNCHANGED <<queue, serving, srv_lag>>
      /\ CPU_CycleLeft' = CPU_CycleLeft + CPU_Cycles /\ CPU_Cycles' = 0
      /\ (at' = "service" /\ CPU_CycleLeft' > 0) \/ at' = "tick"
  BY DEF PIC_RunQueue
<1>2. PIC_TickIndexND(CPU_CycleLeft', CPU_Cycles') = PIC_TickIndexND(CPU_CycleLeft, CPU_Cycles)
  BY <1>0, <1>1 DEF PIC_TickIndexND
<1>3. ServedOnTime'
  BY <1>1, <1>2 DEF PunctualInv, ServedOnTime, Lateness
<1>4. InTime' /\ CycleAtHand'
  BY <1>1 DEF InTime, CycleAtHand
<1>. QED
  BY <1>3, <1>4 DEF PunctualInv

\* Handlers and tick handlers call with no slice to execute.
LEMMA HandlersOnTime ==
  ASSUME QueueInv, PunctualInv, HandlerCalls \/ TickHandlerCalls \/ TimerAgain
  PROVE  PunctualInv'
<1>0. QueueReady /\ CPU_Cycles \in Int
  BY InvReady
<1>1. PICK delays \in SUBSET Nat : StampedAt(delays, CPU_Cycles)
  <2>1. CASE HandlerCalls \/ TickHandlerCalls
    <3>1. PICK delays \in SUBSET Nat : DeviceCall(delays, CPU_Cycles)
      BY <2>1, EventQueueAssumption DEF HandlerCalls, TickHandlerCalls
    <3>. QED
      BY <1>0, <3>1, CallStamps
  <2>2. CASE TimerAgain
    <3>1. /\ PIC_AddEvent(Timer, Period, 0, CPU_Cycles) /\ Period \in Nat
          /\ Timer \in Handlers \cup {Timer} /\ 0 \in Vals \cup {0}
      BY <2>2, EventQueueAssumption DEF TimerAgain
    <3>2. StampedAt({Period}, CPU_Cycles)
      BY <1>0, <3>1, AddStamps
    <3>. QED
      BY <3>1, <3>2
  <2>. QED
    BY <2>1, <2>2
<1>2. /\ UNCHANGED <<serving, srv_lag>> /\ (InEventService => serving # NoEntry)
      /\ (at = "handler" /\ at' \in {"handler", "timer"}) \/ at' = "tickers"
  BY DEF HandlerCalls, TickHandlerCalls, TimerAgain, QueueInv, TypeOK
<1>3. ServedOnTime'
  BY <1>1, <1>2, CallAtRestOnTime
<1>4. InTime'
  BY <1>2 DEF InTime
<1>5. CycleAtHand'
  <2>1. CASE at' = "tickers"
    BY <2>1 DEF CycleAtHand
  <2>2. CASE at = "handler" /\ at' \in {"handler", "timer"}
    <3>1. CPU_Cycles = 0 /\ CPU_CycleLeft > 0 /\ CPU_CycleLeft \in Int
      BY <1>0, <2>2 DEF QueueInv, ServiceAtRest, PunctualInv, CycleAtHand, QueueReady
    <3>2. CPU_CycleLeft' = CPU_CycleLeft
      BY <1>1, <3>1 DEF StampedAt
    <3>. QED
      BY <3>1, <3>2 DEF CycleAtHand
  <2>. QED
    BY <1>2, <2>1, <2>2
<1>. QED
  BY <1>3, <1>4, <1>5 DEF PunctualInv

LEMMA PunctualStep ==
  ASSUME QueueInv, PunctualInv, Next PROVE PunctualInv'
<1>1. CASE HandlerReturns \/ TimerReturns \/ CoreReturns \/ TickHandlersReturn
  <2>1. /\ UNCHANGED <<queue, CPU_Cycles, CPU_CycleLeft, srv_lag>>
        /\ \/ serving' = NoEntry /\ at \in {"handler", "timer"} /\ at' = "service"
           \/ serving' = serving /\ at' = "loop"
    BY <1>1 DEF HandlerReturns, TimerReturns, CoreReturns, TickHandlersReturn, cpuVars
  <2>2. ServedOnTime'
    BY <2>1 DEF PunctualInv, ServedOnTime, Lateness
  <2>3. InTime' /\ CycleAtHand'
    BY <2>1 DEF PunctualInv, InTime, CycleAtHand
  <2>. QED
    BY <2>2, <2>3 DEF PunctualInv
<1>. QED
  BY <1>1, RunQueueOnTime, ServeEventOnTime, QueueServedOnTime, AddTickOnTime, ExecuteOnTime,
     ExecuteIOOnTime, HandlersOnTime DEF Next, Returning

LEMMA AlwaysPunctual == Spec => []PunctualInv
<1>1. Init => PunctualInv
  <2> SUFFICES ASSUME Init PROVE PunctualInv
    OBVIOUS
  <2>1. /\ queue = <<[index |-> Period, event |-> Timer, value |-> 0]>> /\ serving = NoEntry
        /\ CPU_Cycles = 0 /\ CPU_CycleLeft = CPU_CycleMax /\ at = "loop"
    BY DEF Init
  <2>2. Len(queue) = 1 /\ queue[1].index = Period
    BY <2>1
  <2>3. /\ PIC_TickIndexND(CPU_CycleLeft, CPU_Cycles) = 0 /\ Period \in Nat
        /\ RESOLUTION \in Nat
    BY <2>1, EventQueueAssumption DEF PIC_TickIndexND
  <2>4. 0 * RESOLUTION - Period < LateBound
    BY <2>3, LateBoundIsNat
  <2>5. ServedOnTime
    BY <2>1, <2>2, <2>3, <2>4 DEF ServedOnTime, Lateness, LateBound
  <2>. QED
    BY <2>1, <2>5 DEF PunctualInv, InTime, CycleAtHand
<1>2. QueueInv /\ PunctualInv /\ [Next]_vars => PunctualInv'
  <2>1. ASSUME PunctualInv, UNCHANGED vars PROVE PunctualInv'
    BY <2>1 DEF PunctualInv, ServedOnTime, Lateness, InTime, CycleAtHand, AllAfter, vars, cpuVars
  <2>. QED
    BY <2>1, PunctualStep
<1>. QED
  BY <1>1, <1>2, Invariance, PTL DEF Spec

\* However instructions, handlers and tick handlers add events while slices run,
\* none waits or is served later than an instruction's overrun and a cycle.
THEOREM ServedInTime == Spec => []ServedOnTime
<1>1. PunctualInv => ServedOnTime
  BY DEF PunctualInv
<1>. QED
  BY <1>1, AlwaysPunctual, PTL

\* The CPU is at an instruction again.
CPUHasCycles == at = "service" /\ at' = "cpu" => CPU_Cycles' > 0

LEMMA ServedHasCycles ==
  ASSUME QueueInv, PunctualInv, QueueServed PROVE CPU_Cycles' > 0
<1>1. /\ CPU_CycleLeft \in Nat \ {0} /\ queue \in Seq(Entries) /\ ~Due
      /\ RESOLUTION \in Nat \ {0} /\ index_nd \in Int
      /\ CPU_Cycles' = IF queue # <<>> /\ Slice(queue[1]) < CPU_CycleLeft
                       THEN Slice(queue[1]) ELSE CPU_CycleLeft
  BY InvReady, EventQueueAssumption
     DEF QueueReady, QueueServed, QueueInv, TypeOK, ServiceAtRest, PunctualInv, CycleAtHand
<1>2. ASSUME queue # <<>> PROVE Slice(queue[1]) \in Nat \ {0}
  <2> DEFINE parts == queue[1].index - index_nd * RESOLUTION
             whole == PIC_MakeCycles(parts)
  <2>1. queue[1].index \in Int
    BY <1>1, <1>2, LenProperties, EntriesOfList
  <2>2. parts \in Nat \ {0}
    BY <1>1, <1>2, <2>1 DEF Due
  <2> HIDE DEF parts
  <2>3. whole \in Nat
    BY <1>1, <2>2 DEF PIC_MakeCycles
  <2>4. Slice(queue[1]) = IF whole = 0 THEN 1 ELSE whole
    BY Zenon DEF Slice, whole, parts
  <2>. QED
    BY <2>3, <2>4
<1>. QED
  BY <1>1, <1>2

\* The loop never comes round without executing: however close the first event is,
\* the CPU is given a cycle.
THEOREM SliceNeverEmpty == Spec => [][CPUHasCycles]_vars
<1>1. QueueInv /\ PunctualInv /\ [Next]_vars => [CPUHasCycles]_vars
  <2> SUFFICES ASSUME QueueInv, PunctualInv, Next, at = "service", at' = "cpu"
               PROVE  CPU_Cycles' > 0
    BY DEF CPUHasCycles
  <2>1. QueueServed
    BY DEF Next, Returning, PIC_RunQueue, ServeEvent, HandlerCalls, HandlerReturns, TimerAgain,
           TimerReturns, QueueServed, Execute, ExecuteIO, CoreReturns, TIMER_AddTick,
           TickHandlerCalls, TickHandlersReturn
  <2>. QED
    BY <2>1, ServedHasCycles
<1>. QED
  BY <1>1, AlwaysPunctual, Invariance, PTL DEF Spec

----------------------------------------------------------------------------
(* The millisecond. *)

\* The CPU is never given more than is left of a millisecond.
InMillisecond ==
    /\ at = "cpu" => CPU_CycleLeft >= 0
    /\ at = "tick" => CPU_CycleLeft <= 0 /\ CPU_Cycles = 0
    /\ CPU_CycleLeft + CPU_Cycles <= CPU_CycleMax

\* A call moves cycles between slice and millisecond.
LEMMA CallInMillisecond ==
  ASSUME NEW delays \in SUBSET Nat, NEW cycles \in Int, CPU_CycleLeft \in Int,
         StampedAt(delays, cycles)
  PROVE  /\ CPU_CycleLeft' + CPU_Cycles' = CPU_CycleLeft + cycles
         /\ CPU_CycleLeft' \in Int /\ CPU_Cycles' \in Int
         /\ cycles >= 0 => CPU_CycleLeft' >= CPU_CycleLeft
<1> DEFINE left == CPU_CycleLeft'
           rest == CPU_Cycles'
<1>1. \/ left = CPU_CycleLeft /\ rest = cycles
      \/ left = CPU_CycleLeft + cycles /\ rest = 0
  BY Zenon DEF StampedAt
<1> HIDE DEF left, rest
<1>2. /\ left + rest = CPU_CycleLeft + cycles /\ left \in Int /\ rest \in Int
      /\ cycles >= 0 => left >= CPU_CycleLeft
  BY <1>1
<1>. QED
  BY <1>2 DEF left, rest

LEMMA MillisecondStep ==
  ASSUME QueueInv, PunctualInv, InMillisecond, Next PROVE InMillisecond'
<1>0. /\ CPU_CycleLeft \in Int /\ CPU_Cycles \in Int /\ CPU_CycleMax \in Nat \ {0} /\ QueueReady
      /\ MaxOverrun \in Nat
  BY InvReady, EventQueueAssumption DEF QueueReady
<1> DEFINE left == CPU_CycleLeft'
           rest == CPU_Cycles'
<1>1. CASE PIC_RunQueue
  <2>1. /\ left = CPU_CycleLeft + CPU_Cycles /\ rest = 0
        /\ at' = "service" \/ (at' = "tick" /\ ~(left > 0))
    BY <1>1 DEF PIC_RunQueue
  <2> HIDE DEF left, rest
  <2>2. left + rest <= CPU_CycleMax /\ (~(left > 0) => left <= 0)
    BY <1>0, <2>1 DEF InMillisecond
  <2>. QED
    BY <2>1, <2>2 DEF InMillisecond, left, rest
<1>2. CASE QueueServed
  <2>1. /\ at' = "cpu" /\ left = CPU_CycleLeft - rest /\ at = "service" /\ CPU_Cycles = 0
        /\ rest = IF queue # <<>> /\ Slice(queue[1]) < CPU_CycleLeft
                  THEN Slice(queue[1]) ELSE CPU_CycleLeft
    BY <1>2 DEF QueueServed, QueueInv, ServiceAtRest
  <2>2. rest \in Int
    BY <1>2, QueueServedStep DEF QueueInv, TypeOK
  <2> HIDE DEF left, rest
  <2>3. left + rest = CPU_CycleLeft + CPU_Cycles /\ left >= 0 /\ left \in Int
    BY <1>0, <2>1, <2>2
  <2>. QED
    BY <1>0, <2>1, <2>3 DEF InMillisecond, left, rest
<1>3. CASE Execute
  <2>1. left = CPU_CycleLeft /\ at = "cpu" /\ at' \in {"cpu", "loop"}
    BY <1>3 DEF Execute
  <2>2. PICK n \in 1 .. CPU_Cycles + MaxOverrun : rest = CPU_Cycles - n
    BY <1>3 DEF Execute
  <2> HIDE DEF left, rest
  <2>3. left + rest <= CPU_CycleMax /\ left >= 0
    BY <1>0, <2>1, <2>2 DEF InMillisecond
  <2>. QED
    BY <2>1, <2>3 DEF InMillisecond, left, rest
<1>4. CASE ExecuteIO
  <2> DEFINE cycles == CPU_Cycles - 1
  <2>1. cycles \in Nat /\ at = "cpu" /\ at' = "cpu" /\ DeviceCall(Delays, cycles)
        /\ Delays \in SUBSET Nat
    BY <1>0, <1>4, EventQueueAssumption DEF ExecuteIO
  <2>2. StampedAt(Delays, cycles)
    BY <1>0, <2>1, CallStamps
  <2> HIDE DEF cycles
  <2>3. left + rest = CPU_CycleLeft + cycles /\ left >= CPU_CycleLeft /\ left \in Int /\ rest \in Int
    BY <1>0, <2>1, <2>2, CallInMillisecond
  <2> HIDE DEF left, rest
  <2>4. left + rest <= CPU_CycleMax /\ left >= 0
    BY <1>0, <2>1, <2>3 DEF InMillisecond, cycles
  <2>. QED
    BY <2>1, <2>4 DEF InMillisecond, left, rest
<1>5. CASE HandlerCalls \/ TickHandlerCalls \/ TimerAgain
  <2>1. PICK delays \in SUBSET Nat : StampedAt(delays, CPU_Cycles)
    <3>1. CASE HandlerCalls \/ TickHandlerCalls
      <4>1. PICK delays \in SUBSET Nat : DeviceCall(delays, CPU_Cycles)
        BY <3>1, EventQueueAssumption DEF HandlerCalls, TickHandlerCalls
      <4>. QED
        BY <1>0, <4>1, CallStamps
    <3>2. CASE TimerAgain
      <4>1. /\ PIC_AddEvent(Timer, Period, 0, CPU_Cycles) /\ Period \in Nat
            /\ Timer \in Handlers \cup {Timer} /\ 0 \in Vals \cup {0}
        BY <3>2, EventQueueAssumption DEF TimerAgain
      <4>2. StampedAt({Period}, CPU_Cycles)
        BY <1>0, <4>1, AddStamps
      <4>. QED
        BY <4>1, <4>2
    <3>. QED
      BY <1>5, <3>1, <3>2
  <2>2. left + rest = CPU_CycleLeft + CPU_Cycles
    BY <1>0, <2>1, CallInMillisecond
  <2>3. at' \in {"handler", "tickers", "timer"}
    BY <1>5 DEF HandlerCalls, TickHandlerCalls, TimerAgain
  <2> HIDE DEF left, rest
  <2>. QED
    BY <2>2, <2>3 DEF InMillisecond, left, rest
<1>6. CASE TIMER_AddTick
  <2>1. at = "tick" /\ at' = "tickers" /\ left = CPU_CycleLeft + CPU_CycleMax + CPU_Cycles /\ rest = 0
    BY <1>6 DEF TIMER_AddTick, Grant
  <2>2. CPU_CycleLeft <= 0 /\ CPU_Cycles = 0
    BY <2>1 DEF InMillisecond
  <2> HIDE DEF left, rest
  <2>3. left + rest <= CPU_CycleMax
    BY <1>0, <2>1, <2>2
  <2>. QED
    BY <2>1, <2>3 DEF InMillisecond, left, rest
<1>7. CASE ServeEvent \/ HandlerReturns \/ TimerReturns \/ CoreReturns \/ TickHandlersReturn
  <2>1. UNCHANGED <<CPU_Cycles, CPU_CycleLeft>> /\ at' \in {"handler", "service", "loop"}
    BY <1>7 DEF ServeEvent, HandlerReturns, TimerReturns, CoreReturns, TickHandlersReturn, cpuVars
  <2>. QED
    BY <2>1 DEF InMillisecond
<1>. QED
  BY <1>1, <1>2, <1>3, <1>4, <1>5, <1>6, <1>7 DEF Next, Returning

\* The CPU is given no more than is left of a millisecond, and a millisecond
\* begins only when none is left.
THEOREM NeverPastMillisecond == Spec => []InMillisecond
<1>1. Init => InMillisecond
  BY EventQueueAssumption DEF Init, InMillisecond
<1>2. QueueInv /\ PunctualInv /\ InMillisecond /\ [Next]_vars => InMillisecond'
  <2>1. ASSUME InMillisecond, UNCHANGED vars PROVE InMillisecond'
    BY <2>1 DEF InMillisecond, vars, cpuVars
  <2>. QED
    BY <2>1, MillisecondStep
<1>. QED
  BY <1>1, <1>2, Invariance, AlwaysPunctual, PTL DEF Spec
=============================================================================
