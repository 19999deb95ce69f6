-------------------------- MODULE CountdownsProofs --------------------------
(***************************************************************************)
(* Proof that EventQueue implements Countdowns, for any pool, any length of *)
(* the millisecond and any delays: what the devices see of the queue are    *)
(* events that count down while the CPU executes and are served in order.   *)
(***************************************************************************)
EXTENDS EventQueueProofs

----------------------------------------------------------------------------
(* What a device sees of the list. *)

\* The list when so many parts of the millisecond are over.
Seen(q, parts) ==
    [i \in 1 .. Len(q) |->
        [togo |-> q[i].index - parts, event |-> q[i].event, value |-> q[i].value]]

NowParts == PIC_TickIndexND(CPU_CycleLeft, CPU_Cycles) * RESOLUTION

LEMMA SeenIs ==
  ASSUME NEW q \in Seq(Entries), NEW parts \in Int
  PROVE  /\ Seen(q, parts) \in Seq(Togos) /\ Len(Seen(q, parts)) = Len(q) /\ Len(q) \in Nat
         /\ \A i \in 1 .. Len(q) :
              /\ Seen(q, parts)[i] = [togo |-> q[i].index - parts, event |-> q[i].event,
                                      value |-> q[i].value]
              /\ Seen(q, parts)[i] \in Togos
              /\ Seen(q, parts)[i].togo = q[i].index - parts
              /\ Seen(q, parts)[i].event = q[i].event
              /\ Seen(q, parts)[i].value = q[i].value
<1>1. Len(q) \in Nat /\ \A i \in 1 .. Len(q) : q[i] \in Entries
  BY EntriesOfList
<1>2. \A i \in 1 .. Len(q) :
        [togo |-> q[i].index - parts, event |-> q[i].event, value |-> q[i].value] \in Togos
  BY <1>1 DEF Entries, Togos
<1>. QED
  BY <1>1, <1>2 DEF Seen

LEMMA NearerBy ==
  ASSUME NEW togo, NEW event, NEW value, NEW d,
         NEW f, f = [togo |-> togo, event |-> event, value |-> value]
  PROVE  [f EXCEPT !.togo = @ - d] = [togo |-> togo - d, event |-> event, value |-> value]
  OBVIOUS

\* An entry some time later is nearer by that time.
LEMMA SeenLater ==
  ASSUME NEW q \in Seq(Entries), NEW parts \in Int, NEW d \in Int
  PROVE  Seen(q, parts + d) = Down!Nearer(Seen(q, parts), d)
<1>1. /\ Len(Seen(q, parts)) = Len(q) /\ Len(q) \in Nat
      /\ \A i \in 1 .. Len(q) :
           Seen(q, parts)[i] = [togo |-> q[i].index - parts, event |-> q[i].event,
                                value |-> q[i].value]
  BY SeenIs
<1>2. \A i \in 1 .. Len(q) : q[i].index \in Int
  BY EntriesOfList
<1>3. ASSUME NEW i \in 1 .. Len(q)
      PROVE  [Seen(q, parts)[i] EXCEPT !.togo = @ - d]
             = [togo |-> q[i].index - (parts + d), event |-> q[i].event, value |-> q[i].value]
  <2>1. (q[i].index - parts) - d = q[i].index - (parts + d)
    BY <1>2
  <2>2. [Seen(q, parts)[i] EXCEPT !.togo = @ - d]
        = [togo |-> (q[i].index - parts) - d, event |-> q[i].event, value |-> q[i].value]
    <3> DEFINE f == Seen(q, parts)[i]
               togo == q[i].index - parts
               event == q[i].event
               value == q[i].value
    <3>1. f = [togo |-> togo, event |-> event, value |-> value]
      BY <1>1
    <3> HIDE DEF f, togo, event, value
    <3>2. [f EXCEPT !.togo = @ - d] = [togo |-> togo - d, event |-> event, value |-> value]
      BY <3>1, NearerBy
    <3>. QED
      BY <3>2 DEF f, togo, event, value
  <2>. QED
    BY <2>1, <2>2, Zenon
<1>. QED
  BY <1>1, <1>3 DEF Down!Nearer, Seen

\* A new millisecond counts indices from a later start, and its parts as well.
LEMMA SeenTurned ==
  ASSUME NEW q \in Seq(Entries), NEW parts \in Int, Tick \in Int
  PROVE  Seen([i \in 1 .. Len(q) |-> [q[i] EXCEPT !.index = @ - Tick]], parts - Tick)
         = Seen(q, parts)
<1>1. Len(q) \in Nat /\ \A i \in 1 .. Len(q) : q[i] \in Entries /\ q[i].index \in Int
  BY EntriesOfList
<1> DEFINE r == [i \in 1 .. Len(q) |-> [q[i] EXCEPT !.index = @ - Tick]]
<1>2. Len(r) = Len(q)
  BY <1>1
<1>3. ASSUME NEW i \in 1 .. Len(q)
      PROVE  /\ r[i].index - (parts - Tick) = q[i].index - parts
             /\ r[i].event = q[i].event /\ r[i].value = q[i].value
  <2>1. r[i] = [q[i] EXCEPT !.index = @ - Tick]
    OBVIOUS
  <2> HIDE DEF r
  <2>2. r[i].index = q[i].index - Tick /\ r[i].event = q[i].event /\ r[i].value = q[i].value
    BY <1>1, <2>1 DEF Entries
  <2>. QED
    BY <1>1, <2>2
<1> HIDE DEF r
<1>4. Seen(r, parts - Tick) = Seen(q, parts)
  BY <1>2, <1>3 DEF Seen
<1>. QED
  BY <1>4 DEF r

\* An entry inserted is seen where it was inserted.
LEMMA SeenInserted ==
  ASSUME NEW q \in Seq(Entries), NEW entry \in Entries, NEW parts \in Int,
         NEW p \in 1 .. Len(q) + 1
  PROVE  /\ InsertAt(q, p, entry) \in Seq(Entries)
         /\ Seen(InsertAt(q, p, entry), parts)
            = InsertAt(Seen(q, parts), p, [togo |-> entry.index - parts, event |-> entry.event,
                                           value |-> entry.value])
<1>1. InsertAt(q, p, entry) \in Seq(Entries) /\ Inserted(InsertAt(q, p, entry), q, p, entry)
  BY InsertedAt, Zenon
<1>2. PICK r \in Seq(Entries) : r = InsertAt(q, p, entry)
  BY <1>1
<1>3. /\ Len(r) = Len(q) + 1 /\ Len(q) \in Nat
      /\ \A j \in 1 .. Len(q) + 1 :
           r[j] = IF j < p THEN q[j] ELSE IF j = p THEN entry ELSE q[j - 1]
  BY <1>1, <1>2, EntriesOfList DEF Inserted
<1>4. PICK e \in Togos : e = [togo |-> entry.index - parts, event |-> entry.event,
                              value |-> entry.value]
  <2>1. /\ entry.index - parts \in Int /\ entry.event \in Handlers \cup {Timer}
        /\ entry.value \in Vals \cup {0}
    BY DEF Entries
  <2>. QED
    BY <2>1 DEF Togos
<1>5. PICK s \in Seq(Togos) : s = Seen(q, parts)
  BY SeenIs
<1>6. /\ Len(s) = Len(q)
      /\ \A i \in 1 .. Len(q) :
           s[i] = [togo |-> q[i].index - parts, event |-> q[i].event, value |-> q[i].value]
  BY <1>5, SeenIs
<1>7. InsertAt(s, p, e) \in Seq(Togos) /\ Inserted(InsertAt(s, p, e), s, p, e)
  <2>1. p \in 1 .. Len(s) + 1
    BY <1>6
  <2>. QED
    BY <2>1, InsertedAt, Zenon
<1>8. PICK t \in Seq(Togos) : t = InsertAt(s, p, e)
  BY <1>7
<1>9. /\ Len(t) = Len(q) + 1
      /\ \A j \in 1 .. Len(q) + 1 :
           t[j] = IF j < p THEN s[j] ELSE IF j = p THEN e ELSE s[j - 1]
  BY <1>6, <1>7, <1>8 DEF Inserted
<1>10. PICK u \in Seq(Togos) : u = Seen(r, parts)
  BY SeenIs
<1>11. /\ Len(u) = Len(q) + 1
       /\ \A j \in 1 .. Len(q) + 1 :
            u[j] = [togo |-> r[j].index - parts, event |-> r[j].event, value |-> r[j].value]
  BY <1>3, <1>10, SeenIs
<1>12. ASSUME NEW j \in 1 .. Len(q) + 1 PROVE u[j] = t[j]
  <2>1. CASE j < p
    <3>1. j \in 1 .. Len(q) /\ r[j] = q[j] /\ t[j] = s[j]
      BY <1>3, <1>9, <2>1
    <3>. QED
      BY <1>6, <1>11, <3>1
  <2>2. CASE j = p
    BY <1>3, <1>4, <1>9, <1>11, <2>2
  <2>3. CASE j > p
    <3>1. j - 1 \in 1 .. Len(q) /\ ~(j < p) /\ j # p
      BY <1>3, <2>3
    <3>2. r[j] = q[j - 1] /\ t[j] = s[j - 1]
      BY <1>3, <1>9, <3>1
    <3>. QED
      BY <1>6, <1>11, <3>1, <3>2
  <2>. QED
    BY <1>3, <2>1, <2>2, <2>3
<1>13. u = t
  BY <1>9, <1>11, <1>12, SeqEqual
<1>. QED
  BY <1>1, <1>2, <1>4, <1>5, <1>8, <1>10, <1>13, Zenon

\* An entry linked into the list joins what is seen.
LEMMA SeenJoins ==
  ASSUME NEW q \in Seq(Entries), Sorted(q), NEW entry \in Entries, NEW parts \in Int
  PROVE  Down!Joins(Seen(q, parts), entry.event, entry.index - parts, entry.value,
                    Seen(Linked(q, entry), parts))
<1> DEFINE p == Place(q, entry.index)
           r == Linked(q, entry)
           s == Seen(q, parts)
<1>0. /\ Len(q) \in Nat /\ \A k \in 1 .. Len(q) : q[k] \in Entries /\ q[k].index \in Int
      /\ entry.index \in Int
  BY EntriesOfList DEF Entries
<1>1. /\ p \in 1 .. Len(q) + 1
      /\ \A j \in 1 .. p - 1 : q[j].index <= entry.index
      /\ p = Len(q) + 1 \/ q[p].index > entry.index
  BY <1>0, PlaceIn
<1>2. Len(s) = Len(q) /\ \A i \in 1 .. Len(q) : s[i].togo = q[i].index - parts
  BY SeenIs
<1>3. r = InsertAt(q, p, entry)
  BY DEF Linked
<1> HIDE DEF p, r, s
<1>8. \A j \in 1 .. p - 1 : s[j].togo <= entry.index - parts
  <2> TAKE j \in 1 .. p - 1
  <2>1. j \in 1 .. Len(q) /\ q[j].index <= entry.index
    BY <1>0, <1>1
  <2>2. s[j].togo = q[j].index - parts /\ q[j].index \in Int
    BY <1>0, <1>2, <2>1
  <2>. QED
    BY <1>0, <2>1, <2>2
<1>9. \A j \in p .. Len(s) : s[j].togo > entry.index - parts
  <2> TAKE j \in p .. Len(s)
  <2>1. j \in 1 .. Len(q) /\ p \in 1 .. Len(q) /\ p <= j
    BY <1>0, <1>1, <1>2
  <2>2. q[p].index > entry.index
    BY <1>0, <1>1, <2>1
  <2>3. q[p].index <= q[j].index
    <3>1. CASE p = j
      BY <1>0, <2>1, <3>1
    <3>2. CASE p # j
      BY <1>0, <2>1, <3>2 DEF Sorted
    <3>. QED
      BY <3>1, <3>2
  <2>4. q[j].index > entry.index
    BY <1>0, <2>1, <2>2, <2>3
  <2>5. s[j].togo = q[j].index - parts /\ q[j].index \in Int
    BY <1>0, <1>2, <2>1
  <2>. QED
    BY <1>0, <2>4, <2>5
<1>10. p \in 1 .. Len(s) + 1
  BY <1>1, <1>2
<1>11. Seen(r, parts) = InsertAt(s, p, [togo |-> entry.index - parts, event |-> entry.event,
                                        value |-> entry.value])
  BY <1>1, <1>3, SeenInserted DEF s
<1>12. Down!Joins(s, entry.event, entry.index - parts, entry.value, Seen(r, parts))
  <2> DEFINE u == Seen(r, parts)
             event == entry.event
             value == entry.value
             togo == entry.index - parts
  <2>1. /\ u = InsertAt(s, p, [togo |-> togo, event |-> event, value |-> value])
        /\ \A j \in 1 .. p - 1 : s[j].togo <= togo
        /\ \A j \in p .. Len(s) : s[j].togo > togo
    BY <1>8, <1>9, <1>11
  <2> HIDE DEF u, event, value, togo
  <2>2. Down!Joins(s, event, togo, value, u)
    BY <1>10, <2>1, Zenon DEF Down!Joins, InsertAt, Down!InsertAt
  <2>. QED
    BY <2>2 DEF u, event, value, togo
<1>. QED
  BY <1>12 DEF s, r

\* Entries unlinked leave what is seen.
LEMMA SeenLeaves ==
  ASSUME QueueReady, NEW event, NEW vals, NEW cycles \in Int, NEW parts \in Int,
         Unlink({e \in EntriesOf(event) : e.value \in vals}, cycles)
  PROVE  Down!Leave(Seen(queue, parts), event, vals, Seen(queue', parts))
<1> DEFINE gone == {e \in EntriesOf(event) : e.value \in vals}
           s == Seen(queue, parts)
<1>0. /\ queue \in Seq(Entries) /\ Len(queue) \in Nat
      /\ \A k \in 1 .. Len(queue) : queue[k] \in Entries
  BY EntriesOfList DEF QueueReady
<1>1. \A k \in 1 .. Len(queue) :
        queue[k] \in gone <=> queue[k].event = event /\ queue[k].value \in vals
  BY <1>0 DEF EntriesOf, ToSet
<1> HIDE DEF gone
<1>2. PICK n \in 0 .. Len(queue) :
        \E stays \in [1 .. n -> 1 .. Len(queue)] :
          /\ \A i, j \in 1 .. n : i < j => stays[i] < stays[j]
          /\ \A k \in 1 .. Len(queue) : queue[k] \notin gone <=> \E i \in 1 .. n : stays[i] = k
          /\ queue' = [i \in 1 .. n |-> queue[stays[i]]]
  BY DEF Unlink, gone
<1>3. PICK stays \in [1 .. n -> 1 .. Len(queue)] :
        /\ \A i, j \in 1 .. n : i < j => stays[i] < stays[j]
        /\ \A k \in 1 .. Len(queue) : queue[k] \notin gone <=> \E i \in 1 .. n : stays[i] = k
        /\ queue' = [i \in 1 .. n |-> queue[stays[i]]]
  BY <1>2
<1>4. /\ Len(s) = Len(queue)
      /\ \A i \in 1 .. Len(queue) :
           /\ s[i] = [togo |-> queue[i].index - parts, event |-> queue[i].event,
                      value |-> queue[i].value]
           /\ s[i].event = queue[i].event /\ s[i].value = queue[i].value
  BY <1>0, SeenIs
<1> HIDE DEF s
<1>5. /\ Len(queue') = n
      /\ \A i \in 1 .. n : stays[i] \in 1 .. Len(queue) /\ queue'[i] = queue[stays[i]]
  BY <1>0, <1>3
<1>6. Seen(queue', parts) = [i \in 1 .. n |-> s[stays[i]]]
  <2>1. \A i \in 1 .. n :
          [togo |-> queue'[i].index - parts, event |-> queue'[i].event, value |-> queue'[i].value]
          = s[stays[i]]
    BY <1>4, <1>5
  <2>. QED
    BY <1>5, <2>1 DEF Seen
<1>7. \A k \in 1 .. Len(s) :
        ~(s[k].event = event /\ s[k].value \in vals) <=> \E i \in 1 .. n : stays[i] = k
  <2> TAKE k \in 1 .. Len(s)
  <2>1. k \in 1 .. Len(queue) /\ s[k].event = queue[k].event /\ s[k].value = queue[k].value
    BY <1>4
  <2>2. queue[k] \notin gone <=> \E i \in 1 .. n : stays[i] = k
    BY <1>3, <2>1
  <2>. QED
    BY <1>1, <2>1, <2>2, Zenon
<1>8. n \in 0 .. Len(s) /\ stays \in [1 .. n -> 1 .. Len(s)]
  BY <1>4
<1>9. Down!Leave(s, event, vals, Seen(queue', parts))
  BY <1>3, <1>6, <1>7, <1>8, Zenon DEF Down!Leave
<1>. QED
  BY <1>9 DEF s

----------------------------------------------------------------------------
(* Calls. *)

\* How many parts of the millisecond are over when a call is made.
PartsAt(cycles) == PIC_TickIndexND(CPU_CycleLeft, cycles) * RESOLUTION

\* When the delay of a new event begins.
From(cycles) == IF InEventService THEN srv_lag - PartsAt(cycles) ELSE 0

LEMMA PartsAtIs ==
  ASSUME NEW cycles \in Int, CPU_CycleLeft \in Int
  PROVE  PartsAt(cycles) \in Int
<1>1. CPU_CycleMax \in Int /\ RESOLUTION \in Int
  BY EventQueueAssumption
<1>2. PIC_TickIndexND(CPU_CycleLeft, cycles) \in Int
  BY <1>1 DEF PIC_TickIndexND
<1>. QED
  BY <1>1, <1>2 DEF PartsAt

\* A call takes no time: what moves between slice and millisecond is the same sum.
LEMMA PartsStay ==
  ASSUME NEW cycles \in Int, QueueReady, Called(cycles)
  PROVE  NowParts' = PartsAt(cycles)
<1> DEFINE left == CPU_CycleLeft'
           rest == CPU_Cycles'
<1>1. left \in Int /\ rest \in Int /\ left + rest = CPU_CycleLeft + cycles
  BY Zenon DEF Called
<1>a. CPU_CycleLeft \in Int /\ CPU_CycleMax \in Int
  BY EventQueueAssumption DEF QueueReady
<1> HIDE DEF left, rest
<1>2. PIC_TickIndexND(left, rest) = PIC_TickIndexND(CPU_CycleLeft, cycles)
  BY <1>1, <1>a DEF PIC_TickIndexND
<1>. QED
  BY <1>2 DEF left, rest, NowParts, PartsAt

\* Adding an event: refused only when every entry is in use.
LEMMA SeenAdd ==
  ASSUME NEW event \in Handlers \cup {Timer}, NEW delay \in Nat, NEW value \in Vals \cup {0},
         NEW cycles \in Int, NEW taken \in Nat, QueueReady, free + Len(queue) + taken = PIC_QUEUESIZE,
         PIC_AddEvent(event, delay, value, cycles)
  PROVE  IF Len(Seen(queue, PartsAt(cycles))) + taken = PIC_QUEUESIZE
         THEN Seen(queue', PartsAt(cycles)) = Seen(queue, PartsAt(cycles))
         ELSE Down!Joins(Seen(queue, PartsAt(cycles)), event, delay + From(cycles), value,
                         Seen(queue', PartsAt(cycles)))
<1>0. /\ queue \in Seq(Entries) /\ Sorted(queue) /\ free \in Nat /\ CPU_CycleLeft \in Int
      /\ srv_lag \in Int
  BY DEF QueueReady
<1>1. PICK parts \in Int : parts = PartsAt(cycles)
  BY <1>0, PartsAtIs
<1>2. Len(Seen(queue, parts)) = Len(queue) /\ Len(queue) \in Nat
  BY <1>0, SeenIs
<1>3. free = 0 <=> Len(Seen(queue, parts)) + taken = PIC_QUEUESIZE
  BY <1>0, <1>2, EventQueueAssumption
<1>4. CASE free = 0
  <2>1. queue' = queue
    BY <1>4 DEF PIC_AddEvent
  <2>. QED
    BY <1>1, <1>3, <1>4, <2>1
<1>5. CASE free # 0
  <2>1. Stamp(delay, cycles) = delay + From(cycles) + parts /\ From(cycles) \in Int
    <3>1. CASE InEventService
      <4>1. Stamp(delay, cycles) = delay + srv_lag /\ From(cycles) = srv_lag - parts
        BY <1>1, <3>1 DEF Stamp, From
      <4>. QED
        BY <1>0, <4>1
    <3>2. CASE ~InEventService
      <4>1. Stamp(delay, cycles) = delay + parts /\ From(cycles) = 0
        BY <1>1, <3>2 DEF Stamp, From, PartsAt
      <4>. QED
        BY <4>1
    <3>. QED
      BY <3>1, <3>2
  <2>2. PICK stamp \in Int : stamp = Stamp(delay, cycles)
    BY <2>1
  <2>3. PICK entry \in Entries : entry = [index |-> stamp, event |-> event, value |-> value]
    BY DEF Entries
  <2>4. queue' = Linked(queue, entry)
    BY <1>5, <2>2, <2>3 DEF PIC_AddEvent
  <2>5. Down!Joins(Seen(queue, parts), entry.event, entry.index - parts, entry.value,
                   Seen(Linked(queue, entry), parts))
    BY <1>0, SeenJoins
  <2>6. entry.event = event /\ entry.value = value /\ entry.index - parts = delay + From(cycles)
    BY <2>1, <2>2, <2>3, <2>4
  <2>7. Down!Joins(Seen(queue, parts), event, delay + From(cycles), value, Seen(queue', parts))
    BY <2>4, <2>5, <2>6
  <2>. QED
    BY <1>1, <1>3, <1>5, <2>7
<1>. QED
  BY <1>4, <1>5

\* What a device does to the list is what it does to the events it sees.
LEMMA SeenCalls ==
  ASSUME NEW delays \in SUBSET Nat, NEW cycles \in Int, NEW taken \in Nat, QueueReady,
         free + Len(queue) + taken = PIC_QUEUESIZE, DeviceCall(delays, cycles)
  PROVE  Down!Calls(Seen(queue, PartsAt(cycles)), taken, delays, From(cycles),
                    Seen(queue', PartsAt(cycles)))
<1> DEFINE s == Seen(queue, PartsAt(cycles))
           t == Seen(queue', PartsAt(cycles))
<1>0. PartsAt(cycles) \in Int
  BY PartsAtIs DEF QueueReady
<1>1. PICK event \in Handlers :
        \/ \E delay \in delays, value \in Vals : PIC_AddEvent(event, delay, value, cycles)
        \/ PIC_RemoveEvents(event, cycles)
        \/ \E value \in Vals : PIC_RemoveSpecificEvents(event, value, cycles)
  BY DEF DeviceCall
<1>2. CASE \E delay \in delays, value \in Vals : PIC_AddEvent(event, delay, value, cycles)
  <2>1. PICK delay \in delays, value \in Vals : PIC_AddEvent(event, delay, value, cycles)
    BY <1>2
  <2>2. delay \in Nat /\ value \in Vals \cup {0} /\ event \in Handlers \cup {Timer}
    OBVIOUS
  <2>3. IF Len(s) + taken = PIC_QUEUESIZE THEN t = s
        ELSE Down!Joins(s, event, delay + From(cycles), value, t)
    BY <2>1, <2>2, SeenAdd
  <2> HIDE DEF s, t
  <2>4. Down!Calls(s, taken, delays, From(cycles), t)
    BY <2>3, Zenon DEF Down!Calls
  <2>. QED
    BY <2>4 DEF s, t
<1>3. CASE PIC_RemoveEvents(event, cycles)
  <2>1. EntriesOf(event) = {e \in EntriesOf(event) : e.value \in {0} \cup Vals}
    <3>1. \A k \in 1 .. Len(queue) : queue[k].value \in {0} \cup Vals
      <4>1. \A k \in 1 .. Len(queue) : queue[k] \in Entries
        BY EntriesOfList DEF QueueReady
      <4>. QED
        BY <4>1 DEF Entries
    <3>2. queue \in Seq(Entries)
      BY DEF QueueReady
    <3>. QED
      BY <3>1, <3>2 DEF EntriesOf, ToSet
  <2>2. Unlink({e \in EntriesOf(event) : e.value \in {0} \cup Vals}, cycles)
    BY <1>3, <2>1, Zenon DEF PIC_RemoveEvents
  <2>3. Down!Leave(s, event, {0} \cup Vals, t)
    BY <1>0, <2>2, SeenLeaves
  <2> HIDE DEF s, t
  <2>4. Down!Calls(s, taken, delays, From(cycles), t)
    BY <2>3, Zenon DEF Down!Calls
  <2>. QED
    BY <2>4 DEF s, t
<1>4. CASE \E value \in Vals : PIC_RemoveSpecificEvents(event, value, cycles)
  <2>1. PICK value \in Vals : PIC_RemoveSpecificEvents(event, value, cycles)
    BY <1>4
  <2>2. {e \in EntriesOf(event) : e.value = value} = {e \in EntriesOf(event) : e.value \in {value}}
    OBVIOUS
  <2>3. Unlink({e \in EntriesOf(event) : e.value \in {value}}, cycles)
    BY <2>1, <2>2, Zenon DEF PIC_RemoveSpecificEvents
  <2>4. Down!Leave(s, event, {value}, t)
    BY <1>0, <2>3, SeenLeaves
  <2> HIDE DEF s, t
  <2>5. Down!Calls(s, taken, delays, From(cycles), t)
    BY <2>4, Zenon DEF Down!Calls
  <2>. QED
    BY <2>5 DEF s, t
<1>. QED
  BY <1>1, <1>2, <1>3, <1>4

----------------------------------------------------------------------------
(* The refinement. *)

RefineInv == QueueInv /\ PunctualInv /\ InMillisecond

\* What the mapping is.
LEMMA BarIs ==
  /\ pendingBar = Seen(queue, NowParts)
  /\ pendingBar' = Seen(queue', NowParts')
  /\ servedBar = IF at = "handler"
                 THEN [togo |-> srv_lag - NowParts, event |-> serving.event, value |-> serving.value]
                 ELSE NoEntry
  /\ servedBar' = IF at' = "handler"
                  THEN [togo |-> srv_lag' - NowParts', event |-> serving'.event,
                        value |-> serving'.value]
                  ELSE NoEntry
BY DEF pendingBar, servedBar, Togo, Seen, NowParts

\* What the invariant says at every step.
LEMMA RefineReady ==
  ASSUME RefineInv
  PROVE  /\ QueueReady /\ queue \in Seq(Entries) /\ NowParts \in Int /\ NowParts = PartsAt(CPU_Cycles)
         /\ CPU_Cycles \in Int /\ CPU_CycleLeft \in Int /\ srv_lag \in Int
         /\ CPU_CycleMax \in Nat \ {0} /\ RESOLUTION \in Nat \ {0} /\ MaxOverrun \in Nat
         /\ Delays \in SUBSET Nat /\ ServiceDelays \in SUBSET Nat /\ Period \in Nat
<1>1. QueueReady /\ CPU_Cycles \in Int
  BY InvReady DEF RefineInv
<1>2. NowParts = PartsAt(CPU_Cycles)
  BY DEF NowParts, PartsAt
<1>3. NowParts \in Int
  BY <1>1, <1>2, PartsAtIs DEF QueueReady
<1>. QED
  BY <1>1, <1>2, <1>3, EventQueueAssumption DEF QueueReady

\* Where no handler runs nothing is served, and where one runs it is served.
LEMMA ServedIs ==
  ASSUME RefineInv
  PROVE  /\ at # "handler" => servedBar = NoEntry
         /\ at = "handler" => /\ servedBar # NoEntry /\ serving \in Entries
                              /\ servedBar.togo = srv_lag - NowParts
                              /\ servedBar.event = serving.event
<1>1. CASE at = "handler"
  <2>1. serving \in Entries /\ srv_lag - NowParts \in Int
    BY <1>1, RefineReady DEF RefineInv, QueueInv, TypeOK
  <2>2. serving.event \in Handlers \cup {Timer} /\ serving.value \in Vals \cup {0}
    BY <2>1 DEF Entries
  <2>3. servedBar = [togo |-> srv_lag - NowParts, event |-> serving.event, value |-> serving.value]
    BY <1>1, BarIs
  <2>4. servedBar \in Togos
    BY <2>1, <2>2, <2>3 DEF Togos
  <2>. QED
    BY <1>1, <2>1, <2>3, <2>4, NoEntryAssumption
<1>. QED
  BY <1>1, BarIs

\* Steps of the loop itself are none of the devices' concern.
LEMMA LoopUnseen ==
  ASSUME RefineInv,
         PIC_RunQueue \/ QueueServed \/ CoreReturns \/ TickHandlersReturn \/ TimerReturns
  PROVE  UNCHANGED Down!vars
<1>1. at # "handler" /\ at' # "handler" /\ queue' = queue
  BY DEF PIC_RunQueue, QueueServed, CoreReturns, TickHandlersReturn, TimerReturns
<1>2. NowParts' = NowParts
  <2> DEFINE left == CPU_CycleLeft'
             rest == CPU_Cycles'
  <2>1. left + rest = CPU_CycleLeft + CPU_Cycles /\ left \in Int /\ rest \in Int
    <3>1. CASE PIC_RunQueue
      <4>1. left = CPU_CycleLeft + CPU_Cycles /\ rest = 0
        BY <3>1 DEF PIC_RunQueue
      <4> HIDE DEF left, rest
      <4>. QED
        BY <4>1, RefineReady
    <3>2. CASE QueueServed
      <4>1. rest \in Int
        BY <3>2, QueueServedStep DEF RefineInv, QueueInv, TypeOK
      <4>2. left = CPU_CycleLeft - rest /\ CPU_Cycles = 0
        BY <3>2 DEF QueueServed, RefineInv, QueueInv, ServiceAtRest
      <4> HIDE DEF left, rest
      <4>. QED
        BY <4>1, <4>2, RefineReady
    <3>3. CASE CoreReturns \/ TickHandlersReturn \/ TimerReturns
      <4>1. left = CPU_CycleLeft /\ rest = CPU_Cycles
        BY <3>3 DEF CoreReturns, TickHandlersReturn, TimerReturns, cpuVars
      <4> HIDE DEF left, rest
      <4>. QED
        BY <4>1, RefineReady
    <3>. QED
      BY <3>1, <3>2, <3>3
  <2> HIDE DEF left, rest
  <2>a. CPU_CycleLeft \in Int /\ CPU_Cycles \in Int /\ CPU_CycleMax \in Int
    BY RefineReady
  <2>2. PIC_TickIndexND(left, rest) = PIC_TickIndexND(CPU_CycleLeft, CPU_Cycles)
    BY <2>1, <2>a DEF PIC_TickIndexND
  <2>. QED
    BY <2>2 DEF left, rest, NowParts
<1>. QED
  BY <1>1, <1>2, BarIs DEF Down!vars

\* Nor is the turn of the millisecond.
LEMMA TurnUnseen ==
  ASSUME RefineInv, TIMER_AddTick
  PROVE  UNCHANGED Down!vars
<1>1. /\ at = "tick" /\ at' = "tickers"
      /\ queue' = [i \in 1 .. Len(queue) |-> [queue[i] EXCEPT !.index = @ - Tick]]
  BY DEF TIMER_AddTick
<1>2. NowParts' = NowParts - Tick /\ Tick \in Int
  <2> DEFINE left == CPU_CycleLeft'
             rest == CPU_Cycles'
  <2>1. left = CPU_CycleLeft + CPU_CycleMax + CPU_Cycles /\ rest = 0
    BY DEF TIMER_AddTick, Grant
  <2> HIDE DEF left, rest
  <2>2. /\ PIC_TickIndexND(left, rest) = PIC_TickIndexND(CPU_CycleLeft, CPU_Cycles) - CPU_CycleMax
        /\ PIC_TickIndexND(CPU_CycleLeft, CPU_Cycles) \in Int
    BY <2>1, RefineReady DEF PIC_TickIndexND
  <2>3. NowParts' = (PIC_TickIndexND(CPU_CycleLeft, CPU_Cycles) - CPU_CycleMax) * RESOLUTION
    BY <2>2 DEF left, rest, NowParts
  <2>. QED
    BY <2>2, <2>3, RefineReady DEF NowParts, Tick
<1>3. Seen(queue', NowParts') = Seen(queue, NowParts)
  BY <1>1, <1>2, SeenTurned, RefineReady
<1>. QED
  BY <1>1, <1>3, BarIs DEF Down!vars

\* Serving the first of the list is serving the first that has counted down.
LEMMA ServeSeen ==
  ASSUME RefineInv, ServeEvent
  PROVE  Down!Serve
<1>1. /\ at = "service" /\ at' = "handler" /\ queue # <<>> /\ queue' = Tail(queue)
      /\ serving' = queue[1] /\ srv_lag' = queue[1].index
      /\ queue[1].index <= index_nd * RESOLUTION /\ UNCHANGED <<CPU_Cycles, CPU_CycleLeft>>
  BY DEF ServeEvent, Due, cpuVars
<1>2. CPU_Cycles = 0 /\ index_nd = CPU_CycleMax - CPU_CycleLeft
  BY <1>1 DEF RefineInv, QueueInv, ServiceAtRest
<1>3. NowParts' = NowParts /\ NowParts = index_nd * RESOLUTION
  <2>1. PIC_TickIndexND(CPU_CycleLeft, CPU_Cycles) = index_nd
    BY <1>2, RefineReady DEF PIC_TickIndexND
  <2>. QED
    BY <1>1, <2>1 DEF NowParts, PIC_TickIndexND
<1>4. PICK s \in Seq(Togos) : s = Seen(queue, NowParts)
  BY RefineReady, SeenIs
<1>5. /\ Len(s) = Len(queue) /\ Len(queue) \in Nat /\ Len(queue) > 0
      /\ \A i \in 1 .. Len(queue) :
           /\ s[i] = [togo |-> queue[i].index - NowParts, event |-> queue[i].event,
                      value |-> queue[i].value]
           /\ s[i].togo = queue[i].index - NowParts
  BY <1>1, <1>4, RefineReady, SeenIs
<1>6. s # <<>> /\ s[1].togo <= 0
  <2>1. queue[1].index \in Int /\ 1 \in 1 .. Len(queue)
    BY <1>5, RefineReady, EntriesOfList
  <2>2. s[1].togo = queue[1].index - NowParts
    BY <1>5, <2>1, Zenon
  <2>4. s # <<>>
    BY <1>5
  <2>3. queue[1].index <= NowParts /\ NowParts \in Int
    BY <1>1, <1>3, RefineReady
  <2>. QED
    BY <2>1, <2>2, <2>3, <2>4
<1>7. Seen(queue', NowParts) = Tail(s)
  <2>1. /\ queue' \in Seq(Entries) /\ Len(queue') = Len(queue) - 1
        /\ \A i \in 1 .. Len(queue') : queue'[i] = queue[i + 1]
    BY <1>1, RefineReady, HeadTailProperties
  <2>2. PICK t \in Seq(Togos) : t = Seen(queue', NowParts)
    BY <2>1, RefineReady, SeenIs
  <2>3. /\ Len(t) = Len(queue) - 1
        /\ \A i \in 1 .. Len(queue) - 1 :
             t[i] = [togo |-> queue[i + 1].index - NowParts, event |-> queue[i + 1].event,
                     value |-> queue[i + 1].value]
    BY <2>1, <2>2, RefineReady, SeenIs
  <2>4. /\ Tail(s) \in Seq(Togos) /\ Len(Tail(s)) = Len(queue) - 1
        /\ \A i \in 1 .. Len(queue) - 1 : Tail(s)[i] = s[i + 1]
    BY <1>5, <1>6, HeadTailProperties
  <2>5. \A i \in 1 .. Len(queue) - 1 : Tail(s)[i] = t[i]
    <3> TAKE i \in 1 .. Len(queue) - 1
    <3>1. i + 1 \in 1 .. Len(queue)
      BY <1>5
    <3>. QED
      BY <1>5, <2>3, <2>4, <3>1
  <2>6. t = Tail(s)
    BY <2>3, <2>4, <2>5, SeqEqual
  <2>. QED
    BY <2>2, <2>6
<1>8. servedBar' = s[1]
  BY <1>1, <1>3, <1>5, BarIs
<1>9. servedBar = NoEntry /\ pendingBar = s /\ pendingBar' = Tail(s)
  BY <1>1, <1>3, <1>4, <1>7, ServedIs, BarIs
<1>. QED
  BY <1>6, <1>8, <1>9 DEF Down!Serve

\* What is in the list or waits is punctual for those who see it.
LEMMA PunctualSeen ==
  ASSUME RefineInv, RefineInv'
  PROVE  Down!Punctual(pendingBar')
<1> DEFINE q == queue'
           parts == NowParts'
<1>0. q \in Seq(Entries) /\ parts \in Int
  <2>1. CPU_CycleMax \in Int /\ RESOLUTION \in Int /\ CPU_CycleLeft' \in Int /\ CPU_Cycles' \in Int
    BY EventQueueAssumption DEF RefineInv, QueueInv, TypeOK
  <2>2. PIC_TickIndexND(CPU_CycleLeft', CPU_Cycles') \in Int
    BY <2>1 DEF PIC_TickIndexND
  <2>3. q \in Seq(Entries)
    BY DEF RefineInv, QueueInv, TypeOK
  <2>. QED
    BY <2>1, <2>2, <2>3 DEF NowParts
<1>1. \A i \in 1 .. Len(q) : parts - q[i].index < LateBound
  BY DEF RefineInv, PunctualInv, ServedOnTime, Lateness, LateBound, NowParts
<1>2. pendingBar' = Seen(q, parts)
  BY BarIs
<1> HIDE DEF q, parts
<1>3. Len(Seen(q, parts)) = Len(q) /\ \A i \in 1 .. Len(q) : Seen(q, parts)[i].togo = q[i].index - parts
  BY <1>0, SeenIs
<1>4. ASSUME NEW i \in 1 .. Len(q) PROVE Seen(q, parts)[i].togo > -(MaxOverrun + 1) * RESOLUTION
  <2>1. q[i].index \in Int /\ parts - q[i].index < LateBound
    BY <1>0, <1>1, EntriesOfList
  <2>2. -(MaxOverrun + 1) * RESOLUTION = -LateBound
    <3>1. MaxOverrun + 1 \in Int /\ RESOLUTION \in Int
      BY EventQueueAssumption
    <3>. QED
      BY <3>1 DEF LateBound
  <2>3. LateBound \in Int
    BY LateBoundIsNat
  <2>4. Seen(q, parts)[i].togo = q[i].index - parts
    BY <1>3
  <2>. QED
    BY <1>0, <2>1, <2>2, <2>3, <2>4
<1>5. \A i \in 1 .. Len(pendingBar') : (pendingBar')[i].togo > -(MaxOverrun + 1) * RESOLUTION
  BY <1>2, <1>3, <1>4
<1>. QED
  BY <1>5, Zenon DEF Down!Punctual

\* So many cycles later every event is so much nearer.
LEMMA PartsLater ==
  ASSUME CPU_CycleLeft \in Int, CPU_Cycles \in Int, NEW n \in Int
  PROVE  PartsAt(CPU_Cycles - n) = NowParts + n * RESOLUTION
<1>1. CPU_CycleMax \in Int /\ RESOLUTION \in Int
  BY EventQueueAssumption
<1>2. /\ PIC_TickIndexND(CPU_CycleLeft, CPU_Cycles - n)
         = PIC_TickIndexND(CPU_CycleLeft, CPU_Cycles) + n
      /\ PIC_TickIndexND(CPU_CycleLeft, CPU_Cycles) \in Int
  BY <1>1 DEF PIC_TickIndexND
<1>. QED
  BY <1>1, <1>2 DEF PartsAt, NowParts

\* The CPU is given, and executes, no more than a millisecond and an overrun.
LEMMA ExecuteSeen ==
  ASSUME RefineInv, RefineInv', Execute
  PROVE  \E cycles \in 1 .. CPU_CycleMax + MaxOverrun : Down!Elapse(cycles)
<1>1. at = "cpu" /\ at' # "handler" /\ queue' = queue /\ CPU_CycleLeft' = CPU_CycleLeft
  BY DEF Execute
<1>2. PICK n \in 1 .. CPU_Cycles + MaxOverrun : CPU_Cycles' = CPU_Cycles - n
  BY DEF Execute
<1>3. n \in 1 .. CPU_CycleMax + MaxOverrun
  <2>1. CPU_CycleLeft >= 0 /\ CPU_CycleLeft + CPU_Cycles <= CPU_CycleMax
    BY <1>1 DEF RefineInv, InMillisecond
  <2>. QED
    BY <2>1, RefineReady
<1>4. NowParts' = NowParts + n * RESOLUTION /\ n * RESOLUTION \in Int
  <2>1. NowParts' = PartsAt(CPU_Cycles - n)
    BY <1>1, <1>2 DEF NowParts, PartsAt, PIC_TickIndexND
  <2>2. n \in Int /\ n * RESOLUTION \in Int
    BY RefineReady
  <2>3. PartsAt(CPU_Cycles - n) = NowParts + n * RESOLUTION
    BY <2>2, PartsLater, RefineReady
  <2>. QED
    BY <2>1, <2>2, <2>3
<1>5. Seen(queue', NowParts') = Down!Nearer(Seen(queue, NowParts), n * RESOLUTION)
  BY <1>1, <1>4, SeenLater, RefineReady
<1>6. pendingBar' = Down!Nearer(pendingBar, n * RESOLUTION)
  BY <1>5, BarIs
<1>7. servedBar = NoEntry /\ servedBar' = NoEntry
  BY <1>1, ServedIs, BarIs
<1>8. Down!Elapse(n)
  BY <1>6, <1>7, PunctualSeen DEF Down!Elapse
<1>. QED
  BY <1>3, <1>8

\* A call of the machine, so many cycles later.
LEMMA MachineCallSeen ==
  ASSUME RefineInv, RefineInv', NEW n \in {0, 1}, DeviceCall(Delays, CPU_Cycles - n),
         at \in {"cpu", "tickers"}, at' = at
  PROVE  Down!MachineCalls
<1> DEFINE cycles == CPU_Cycles - n
<1>0. cycles \in Int /\ n \in Int /\ n * RESOLUTION \in Int
  BY RefineReady
<1>1. ~InEventService /\ serving = NoEntry
  BY DEF RefineInv, QueueInv, TypeOK
<1>2. free + Len(queue) + 0 = PIC_QUEUESIZE
  <2>1. free \in Nat /\ Len(queue) \in Nat
    BY RefineReady, LenProperties DEF QueueReady
  <2>2. free + Len(queue) + 0 = free + Len(queue)
    BY <2>1
  <2>3. free + Len(queue) + 0 = PIC_QUEUESIZE
    BY <1>1, <2>1 DEF RefineInv, QueueInv, EntriesConserved
  <2>. QED
    BY <2>3
<1>3. Down!Calls(Seen(queue, PartsAt(cycles)), 0, Delays, From(cycles), Seen(queue', PartsAt(cycles)))
  BY <1>0, <1>2, SeenCalls, RefineReady
<1>4. From(cycles) = 0
  BY <1>1 DEF From
<1>5. NowParts' = PartsAt(cycles)
  <2>1. Called(cycles)
    BY <1>0, DeviceCallDoes, RefineReady
  <2>. QED
    BY <1>0, <2>1, PartsStay, RefineReady
<1>6. PartsAt(cycles) = NowParts + n * RESOLUTION
  BY <1>0, PartsLater, RefineReady
<1>7. Seen(queue, PartsAt(cycles)) = Down!Nearer(pendingBar, n * RESOLUTION)
  BY <1>0, <1>6, SeenLater, BarIs, RefineReady
<1>8. Seen(queue', PartsAt(cycles)) = pendingBar'
  BY <1>5, BarIs
<1>9. Down!Calls(Down!Nearer(pendingBar, n * RESOLUTION), 0, Delays, 0, pendingBar')
  BY <1>3, <1>4, <1>7, <1>8
<1>10. servedBar = NoEntry /\ servedBar' = NoEntry
  BY ServedIs, BarIs
<1>. QED
  BY <1>9, <1>10, PunctualSeen DEF Down!MachineCalls

\* A call of the handler that runs counts from when its event was due.
LEMMA HandlerCallSeen ==
  ASSUME RefineInv, HandlerCalls
  PROVE  Down!HandlerCalls
<1>1. /\ at = "handler" /\ at' = "handler" /\ serving.event # Timer
      /\ DeviceCall(ServiceDelays, CPU_Cycles) /\ UNCHANGED <<serving, srv_lag>>
  BY DEF HandlerCalls
<1>2. InEventService /\ serving # NoEntry
  BY <1>1 DEF RefineInv, QueueInv, TypeOK
<1>3. free + Len(queue) + 1 = PIC_QUEUESIZE
  BY <1>2 DEF RefineInv, QueueInv, EntriesConserved
<1>4. Down!Calls(Seen(queue, PartsAt(CPU_Cycles)), 1, ServiceDelays, From(CPU_Cycles),
                 Seen(queue', PartsAt(CPU_Cycles)))
  BY <1>1, <1>3, SeenCalls, RefineReady
<1>5. NowParts' = NowParts
  BY <1>1, DeviceCallDoes, PartsStay, RefineReady
<1>6. From(CPU_Cycles) = servedBar.togo
  BY <1>1, <1>2, ServedIs, RefineReady DEF From
<1>7. Down!Calls(pendingBar, 1, ServiceDelays, servedBar.togo, pendingBar')
  BY <1>4, <1>5, <1>6, BarIs, RefineReady
<1>8. servedBar' = servedBar /\ servedBar # NoEntry /\ servedBar.event # Timer
  BY <1>1, <1>5, ServedIs, BarIs
<1>. QED
  BY <1>7, <1>8 DEF Down!HandlerCalls

LEMMA HandlerReturnSeen ==
  ASSUME RefineInv, HandlerReturns
  PROVE  Down!HandlerReturns
<1>1. /\ at = "handler" /\ at' = "service" /\ serving.event # Timer
      /\ UNCHANGED <<queue, CPU_Cycles, CPU_CycleLeft>>
  BY DEF HandlerReturns, cpuVars
<1>2. NowParts' = NowParts
  BY <1>1 DEF NowParts, PIC_TickIndexND
<1>3. pendingBar' = pendingBar
  BY <1>1, <1>2, BarIs
<1>4. servedBar' = NoEntry /\ servedBar # NoEntry /\ servedBar.event # Timer
  BY <1>1, ServedIs, BarIs
<1>. QED
  BY <1>3, <1>4 DEF Down!HandlerReturns

\* The timer adds itself a period after it was due.
LEMMA TimerSeen ==
  ASSUME RefineInv, TimerAgain
  PROVE  Down!TimerRuns
<1>1. /\ at = "handler" /\ at' = "timer" /\ serving.event = Timer
      /\ PIC_AddEvent(Timer, Period, 0, CPU_Cycles)
  BY DEF TimerAgain
<1>2. InEventService /\ serving # NoEntry
  BY <1>1 DEF RefineInv, QueueInv, TypeOK
<1>3. free + Len(queue) + 1 = PIC_QUEUESIZE
  BY <1>2 DEF RefineInv, QueueInv, EntriesConserved
<1>4. Timer \in Handlers \cup {Timer} /\ 0 \in Vals \cup {0} /\ Period \in Nat
  BY RefineReady
<1>5. IF Len(Seen(queue, PartsAt(CPU_Cycles))) + 1 = PIC_QUEUESIZE
      THEN Seen(queue', PartsAt(CPU_Cycles)) = Seen(queue, PartsAt(CPU_Cycles))
      ELSE Down!Joins(Seen(queue, PartsAt(CPU_Cycles)), Timer, Period + From(CPU_Cycles), 0,
                      Seen(queue', PartsAt(CPU_Cycles)))
  BY <1>1, <1>3, <1>4, SeenAdd, RefineReady
<1>6. NowParts' = NowParts
  BY <1>1, <1>4, AddDoes, PartsStay, RefineReady
<1>7. From(CPU_Cycles) = servedBar.togo /\ servedBar.togo \in Int
  BY <1>1, <1>2, ServedIs, RefineReady DEF From
<1>8. Period + From(CPU_Cycles) = servedBar.togo + Period
  BY <1>7, RefineReady
<1>9. pendingBar = Seen(queue, PartsAt(CPU_Cycles)) /\ pendingBar' = Seen(queue', PartsAt(CPU_Cycles))
  BY <1>6, BarIs, RefineReady
<1>10. IF Len(pendingBar) + 1 = PIC_QUEUESIZE THEN pendingBar' = pendingBar
       ELSE Down!Joins(pendingBar, Timer, servedBar.togo + Period, 0, pendingBar')
  BY <1>5, <1>8, <1>9
<1>11. servedBar' = NoEntry /\ servedBar # NoEntry /\ servedBar.event = Timer
  BY <1>1, ServedIs, BarIs
<1>. QED
  BY <1>10, <1>11 DEF Down!TimerRuns

LEMMA RefineStep ==
  ASSUME RefineInv, RefineInv', Next
  PROVE  Down!Next \/ UNCHANGED Down!vars
<1>1. CASE ExecuteIO
  <2>1. DeviceCall(Delays, CPU_Cycles - 1) /\ at = "cpu" /\ at' = at
    BY <1>1 DEF ExecuteIO
  <2>2. Down!MachineCalls
    BY <2>1, MachineCallSeen
  <2>. QED
    BY <2>2 DEF Down!Next
<1>2. CASE TickHandlerCalls
  <2>1. CPU_Cycles - 0 = CPU_Cycles
    BY RefineReady
  <2>2. DeviceCall(Delays, CPU_Cycles - 0) /\ at = "tickers" /\ at' = at
    BY <1>2, <2>1 DEF TickHandlerCalls
  <2>3. Down!MachineCalls
    BY <2>2, MachineCallSeen
  <2>. QED
    BY <2>3 DEF Down!Next
<1>3. CASE Execute
  BY <1>3, ExecuteSeen DEF Down!Next
<1>4. CASE ServeEvent \/ HandlerCalls \/ HandlerReturns \/ TimerAgain
  BY <1>4, ServeSeen, HandlerCallSeen, HandlerReturnSeen, TimerSeen DEF Down!Next
<1>5. CASE PIC_RunQueue \/ QueueServed \/ CoreReturns \/ TickHandlersReturn \/ TimerReturns
  BY <1>5, LoopUnseen
<1>6. CASE TIMER_AddTick
  BY <1>6, TurnUnseen
<1>. QED
  BY <1>1, <1>2, <1>3, <1>4, <1>5, <1>6 DEF Next, Returning

\* The queue, with its slices, its milliseconds and its pool, is one of
\* countdowns: every step is a step of Countdowns or changes nothing of it.
THEOREM QueueCountsDown == Spec => CountsDown
<1>1. Spec => []RefineInv
  BY Invariance, AlwaysPunctual, NeverPastMillisecond, PTL DEF RefineInv
<1>2. Init => Down!Init
  <2> SUFFICES ASSUME Init PROVE Down!Init
    OBVIOUS
  <2>1. /\ queue = <<[index |-> Period, event |-> Timer, value |-> 0]>>
        /\ CPU_Cycles = 0 /\ CPU_CycleLeft = CPU_CycleMax /\ at = "loop"
    BY DEF Init
  <2>2. PIC_TickIndexND(CPU_CycleLeft, CPU_Cycles) * RESOLUTION = 0 /\ Period - 0 = Period
    BY <2>1, EventQueueAssumption DEF PIC_TickIndexND
  <2>3. NowParts = 0
    BY <2>2 DEF NowParts
  <2>4. Seen(queue, 0) = <<[togo |-> Period, event |-> Timer, value |-> 0]>>
    BY <2>1, <2>2 DEF Seen
  <2>. QED
    BY <2>1, <2>3, <2>4, BarIs DEF Down!Init
<1>3. RefineInv /\ RefineInv' /\ [Next]_vars => [Down!Next]_(Down!vars)
  <2>1. ASSUME UNCHANGED vars PROVE UNCHANGED Down!vars
    BY <2>1 DEF vars, cpuVars, Down!vars, pendingBar, servedBar, Togo, PIC_TickIndexND
  <2>. QED
    BY <2>1, RefineStep
<1>. QED
  BY <1>1, <1>2, <1>3, PTL DEF Spec, CountsDown, Down!Spec
=============================================================================
