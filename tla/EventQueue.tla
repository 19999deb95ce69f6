----------------------------- MODULE EventQueue -----------------------------
(***************************************************************************)
(* src/patches/src/hardware/pic.cpp: the queue of timed events, the service *)
(* loop PIC_RunQueue, the millisecond tick TIMER_AddTick, and how the two   *)
(* share out the cycles of a millisecond to the CPU.                        *)
(*                                                                          *)
(* Time inside a millisecond is counted in cycles; an event's index is a    *)
(* real number of milliseconds in the code and a number of RESOLUTION-ths   *)
(* of a cycle here, counted from the start of the running millisecond.      *)
(***************************************************************************)
EXTENDS Integers, Sequences, SequencesExt

CONSTANTS
    PIC_QUEUESIZE,  \* entries of the pool
    CPU_CycleMax,   \* cycles of a millisecond
    RESOLUTION,     \* parts of a cycle that an index tells apart
    Handlers,       \* event handlers of devices
    Timer,          \* a handler that adds itself again, as MIXER_MixSingle does
    Period,         \* after this delay
    Vals,           \* values devices pass to their handlers
    Delays,         \* delays asked for by an instruction or a tick handler
    ServiceDelays,  \* delays asked for by an event handler
    MaxPending,     \* bound: events devices have in the queue at a time
    MaxOverrun,     \* bound: cycles an instruction takes past the slice
    TickWrap,       \* width of the millisecond counter
    NoEntry         \* no entry is being served

Tick == CPU_CycleMax * RESOLUTION

ASSUME EventQueueAssumption ==
    /\ PIC_QUEUESIZE \in Nat \ {0} /\ CPU_CycleMax \in Nat \ {0} /\ RESOLUTION \in Nat \ {0}
    /\ Period \in Nat \ {0} /\ MaxOverrun \in Nat /\ MaxPending \in Nat /\ TickWrap \in Nat \ {0}
    /\ Timer \notin Handlers
    /\ Delays \subseteq Nat /\ ServiceDelays \subseteq Nat

Entries == [index : Int, event : Handlers \cup {Timer}, value : Vals \cup {0}]

\* An event by what it still has to go.
Togos == [togo : Int, event : Handlers \cup {Timer}, value : Vals \cup {0}]

ASSUME NoEntryAssumption == NoEntry \notin Entries \cup Togos

VARIABLES
    queue,          \* pic_queue.next_entry and what it links to
    free,           \* how many entries pic_queue.free_entry links
    CPU_Cycles,     \* cycles of the running slice still to execute
    CPU_CycleLeft,  \* cycles of the millisecond not yet given out
    PIC_Ticks,      \* milliseconds
    serving,        \* the entry whose handler runs, outside list and pool
    InEventService, srv_lag,
    index_nd,       \* the cycle PIC_RunQueue serves up to
    at,             \* where the main loop is
    clock           \* cycles the CPU has executed (no variable of the code)

cpuVars == <<CPU_Cycles, CPU_CycleLeft>>
vars == <<queue, free, cpuVars, PIC_Ticks, serving, InEventService, srv_lag, index_nd, at, clock>>

----------------------------------------------------------------------------
(* The list. *)

\* Mutant: an entry goes before those of its own index.
PlaceBefore(q, index) ==
    CHOOSE i \in 1 .. Len(q) + 1 :
        /\ \A j \in 1 .. i - 1 : q[j].index < index
        /\ i = Len(q) + 1 \/ q[i].index >= index

\* AddEntry links an entry before the first one that is due later.
Place(q, index) ==
    CHOOSE i \in 1 .. Len(q) + 1 :
        /\ \A j \in 1 .. i - 1 : q[j].index <= index
        /\ i = Len(q) + 1 \/ q[i].index > index

Linked(q, entry) == InsertAt(q, Place(q, entry.index), entry)

\* PIC_TickIndexND: the cycle of the millisecond the CPU has reached.
PIC_TickIndexND(left, cycles) == CPU_CycleMax - left - cycles

\* PIC_MakeCycles: a conversion to an integer, so towards zero.
PIC_MakeCycles(parts) ==
    IF parts >= 0 THEN parts \div RESOLUTION ELSE -((-parts) \div RESOLUTION)

\* Mutant: events added by a handler count from now.
StampNow(delay, cycles) == delay + PIC_TickIndexND(CPU_CycleLeft, cycles) * RESOLUTION

\* The index of a new event: from the event being served, or from now.
Stamp(delay, cycles) ==
    IF InEventService THEN delay + srv_lag
    ELSE delay + PIC_TickIndexND(CPU_CycleLeft, cycles) * RESOLUTION

\* Mutant: the running slice is left as long as it was.
CutNever(head, cycles) == FALSE

\* The running slice is cut off if the first event is due inside it.
Cut(head, cycles) ==
    PIC_MakeCycles(head.index - PIC_TickIndexND(CPU_CycleLeft, cycles) * RESOLUTION) < cycles

\* PIC_AddEvent, with so many cycles of the slice still to execute.
PIC_AddEvent(event, delay, value, cycles) ==
    IF free = 0
    THEN UNCHANGED <<queue, free, CPU_CycleLeft>> /\ CPU_Cycles' = cycles
    ELSE LET q == Linked(queue, [index |-> Stamp(delay, cycles), event |-> event, value |-> value])
         IN  /\ queue' = q
             /\ free' = free - 1
             /\ IF Cut(q[1], cycles)
                THEN CPU_CycleLeft' = CPU_CycleLeft + cycles /\ CPU_Cycles' = 0
                ELSE CPU_CycleLeft' = CPU_CycleLeft /\ CPU_Cycles' = cycles

\* The entries a removal takes out of the list go back to the pool; those that
\* stay keep their order.
Unlink(gone, cycles) ==
    /\ \E n \in 0 .. Len(queue) : \E stays \in [1 .. n -> 1 .. Len(queue)] :
        /\ \A i, j \in 1 .. n : i < j => stays[i] < stays[j]
        /\ \A k \in 1 .. Len(queue) : queue[k] \notin gone <=> \E i \in 1 .. n : stays[i] = k
        /\ queue' = [i \in 1 .. n |-> queue[stays[i]]]
    /\ free' = free + Len(queue) - Len(queue')
    /\ CPU_Cycles' = cycles
    /\ UNCHANGED CPU_CycleLeft

EntriesOf(event) == {e \in ToSet(queue) : e.event = event}

PIC_RemoveEvents(event, cycles) == Unlink(EntriesOf(event), cycles)

\* Mutant: every handler's events of the value are removed.
RemoveByValue(event, value, cycles) == Unlink({e \in ToSet(queue) : e.value = value}, cycles)

PIC_RemoveSpecificEvents(event, value, cycles) ==
    Unlink({e \in EntriesOf(event) : e.value = value}, cycles)

\* What a device does to the queue in one call.
Pending == Len(SelectSeq(queue, LAMBDA e : e.event # Timer))

DeviceCall(delays, cycles) ==
    \E event \in Handlers :
        \/ /\ Pending < MaxPending
           /\ \E delay \in delays, value \in Vals : PIC_AddEvent(event, delay, value, cycles)
        \/ PIC_RemoveEvents(event, cycles)
        \/ \E value \in Vals : PIC_RemoveSpecificEvents(event, value, cycles)

----------------------------------------------------------------------------
(* The main loop. *)

\* A machine whose timer has just been started.
Init ==
    /\ queue = <<[index |-> Period, event |-> Timer, value |-> 0]>>
    /\ free = PIC_QUEUESIZE - 1
    /\ CPU_Cycles = 0 /\ CPU_CycleLeft = CPU_CycleMax
    /\ PIC_Ticks = 0
    /\ serving = NoEntry /\ InEventService = FALSE /\ srv_lag = 0 /\ index_nd = 0
    /\ at = "loop"
    /\ clock = 0

\* PIC_RunQueue up to its service loop; without cycles it returns false.
PIC_RunQueue ==
    /\ at = "loop"
    /\ CPU_CycleLeft' = CPU_CycleLeft + CPU_Cycles
    /\ CPU_Cycles' = 0
    /\ IF CPU_CycleLeft' > 0
       THEN /\ index_nd' = PIC_TickIndexND(CPU_CycleLeft', 0)
            /\ InEventService' = TRUE
            /\ at' = "service"
       ELSE UNCHANGED <<index_nd, InEventService>> /\ at' = "tick"
    /\ UNCHANGED <<queue, free, PIC_Ticks, serving, srv_lag, clock>>

Due == queue # <<>> /\ queue[1].index <= index_nd * RESOLUTION

ServeEvent ==
    /\ at = "service" /\ Due
    /\ serving' = queue[1]
    /\ queue' = Tail(queue)
    /\ srv_lag' = queue[1].index
    /\ at' = "handler"
    /\ UNCHANGED <<free, cpuVars, PIC_Ticks, InEventService, index_nd, clock>>

\* What a handler does to the queue while it runs.
HandlerCalls ==
    /\ at = "handler" /\ serving.event # Timer
    /\ DeviceCall(ServiceDelays, CPU_Cycles)
    /\ UNCHANGED <<PIC_Ticks, serving, InEventService, srv_lag, index_nd, at, clock>>

\* Mutant: the entry of a served event is not put back.
HandlerReturnsLeaks ==
    /\ at = "handler" /\ serving.event # Timer
    /\ serving' = NoEntry
    /\ at' = "service"
    /\ UNCHANGED <<queue, free, cpuVars, PIC_Ticks, InEventService, srv_lag, index_nd, clock>>

HandlerReturns ==
    /\ at = "handler" /\ serving.event # Timer
    /\ free' = free + 1
    /\ serving' = NoEntry
    /\ at' = "service"
    /\ UNCHANGED <<queue, cpuVars, PIC_Ticks, InEventService, srv_lag, index_nd, clock>>

\* The timer's handler adds itself before its entry is back in the pool.
TimerAgain ==
    /\ at = "handler" /\ serving.event = Timer
    /\ PIC_AddEvent(Timer, Period, 0, CPU_Cycles)
    /\ at' = "timer"
    /\ UNCHANGED <<PIC_Ticks, serving, InEventService, srv_lag, index_nd, clock>>

TimerReturns ==
    /\ at = "timer"
    /\ free' = free + 1
    /\ serving' = NoEntry
    /\ at' = "service"
    /\ UNCHANGED <<queue, cpuVars, PIC_Ticks, InEventService, srv_lag, index_nd, clock>>

\* Mutant: an event due in less than a cycle leaves the CPU no cycle at all.
SliceNoMinimum(head) == PIC_MakeCycles(head.index - index_nd * RESOLUTION)

\* The cycles until an event, and one at least.
Slice(head) ==
    LET cycles == PIC_MakeCycles(head.index - index_nd * RESOLUTION)
    IN  IF cycles = 0 THEN 1 ELSE cycles

\* The end of the service loop gives the CPU the cycles until the next event.
QueueServed ==
    /\ at = "service" /\ ~Due
    /\ InEventService' = FALSE
    /\ CPU_Cycles' = IF queue # <<>> /\ Slice(queue[1]) < CPU_CycleLeft
                     THEN Slice(queue[1]) ELSE CPU_CycleLeft
    /\ CPU_CycleLeft' = CPU_CycleLeft - CPU_Cycles'
    /\ at' = "cpu"
    /\ UNCHANGED <<queue, free, PIC_Ticks, serving, srv_lag, index_nd, clock>>

\* The CPU core executes; its last instruction may overrun the slice, and a
\* callback makes it return before the slice is over.
Execute ==
    /\ at = "cpu" /\ CPU_Cycles > 0
    /\ \E n \in 1 .. CPU_Cycles + MaxOverrun :
        /\ CPU_Cycles' = CPU_Cycles - n
        /\ clock' = (clock + n) % (TickWrap * CPU_CycleMax)
    /\ at' \in {"cpu", "loop"}
    /\ UNCHANGED <<queue, free, CPU_CycleLeft, PIC_Ticks, serving, InEventService, srv_lag,
                   index_nd>>

\* An instruction reaches a device.
ExecuteIO ==
    /\ at = "cpu" /\ CPU_Cycles > 0
    /\ DeviceCall(Delays, CPU_Cycles - 1)
    /\ clock' = (clock + 1) % (TickWrap * CPU_CycleMax)
    /\ UNCHANGED <<PIC_Ticks, serving, InEventService, srv_lag, index_nd, at>>

\* The core returns at the end of its slice.
CoreReturns ==
    /\ at = "cpu" /\ CPU_Cycles <= 0
    /\ at' = "loop"
    /\ UNCHANGED <<queue, free, cpuVars, PIC_Ticks, serving, InEventService, srv_lag,
                   index_nd, clock>>

\* Mutant: what the last slice overran by is forgotten.
GrantForgetsOverrun == CPU_CycleMax

\* The cycles a new millisecond starts with.
Grant == CPU_CycleLeft + CPU_CycleMax + CPU_Cycles

\* TIMER_AddTick up to its tick handlers.
TIMER_AddTick ==
    /\ at = "tick"
    /\ PIC_Ticks' = (PIC_Ticks + 1) % TickWrap
    /\ CPU_CycleLeft' = Grant
    /\ CPU_Cycles' = 0
    /\ queue' = [i \in 1 .. Len(queue) |-> [queue[i] EXCEPT !.index = @ - Tick]]
    /\ at' = "tickers"
    /\ UNCHANGED <<free, serving, InEventService, srv_lag, index_nd, clock>>

TickHandlerCalls ==
    /\ at = "tickers"
    /\ DeviceCall(Delays, CPU_Cycles)
    /\ UNCHANGED <<PIC_Ticks, serving, InEventService, srv_lag, index_nd, at, clock>>

TickHandlersReturn ==
    /\ at = "tickers"
    /\ at' = "loop"
    /\ UNCHANGED <<queue, free, cpuVars, PIC_Ticks, serving, InEventService, srv_lag,
                   index_nd, clock>>

Returning ==
    \/ PIC_RunQueue \/ ServeEvent \/ HandlerReturns \/ TimerAgain \/ TimerReturns
    \/ QueueServed \/ CoreReturns \/ TIMER_AddTick \/ TickHandlersReturn

Next ==
    \/ Returning \/ Execute \/ ExecuteIO
    \/ HandlerCalls \/ TickHandlerCalls

Spec == Init /\ [][Next]_vars

\* Handlers return and the CPU executes: neither waits for anybody.
FairSpec ==
    /\ Spec
    /\ WF_vars(Returning)
    /\ WF_vars(Execute \/ ExecuteIO)

----------------------------------------------------------------------------
(* Correctness *)

Phases == {"loop", "service", "handler", "timer", "cpu", "tick", "tickers"}

\* Every variable has its type, an entry is outside list and pool exactly
\* while its handler runs, and InEventService is what the loop is doing.
TypeOK ==
    /\ queue \in Seq(Entries)
    /\ free \in 0 .. PIC_QUEUESIZE
    /\ CPU_Cycles \in Int /\ CPU_CycleLeft \in Int
    /\ PIC_Ticks \in 0 .. TickWrap - 1
    /\ serving \in Entries \cup {NoEntry}
    /\ serving # NoEntry <=> at \in {"handler", "timer"}
    /\ InEventService \in BOOLEAN
    /\ InEventService <=> at \in {"service", "handler", "timer"}
    /\ srv_lag \in Int /\ index_nd \in Int
    /\ at \in Phases
    /\ clock \in 0 .. TickWrap * CPU_CycleMax - 1

\* Adding, removing, serving and dropping events in any order leaks no entry
\* of the pool and uses none twice.
EntriesConserved ==
    free + Len(queue) + (IF serving = NoEntry THEN 0 ELSE 1) = PIC_QUEUESIZE

\* No event is served before one that is due earlier.
QueueSorted == \A i, j \in 1 .. Len(queue) : i < j => queue[i].index <= queue[j].index

\* An event goes behind those due at the same time, so that equal events are
\* served in the order they were added, and moves nothing else.
NewcomerGoesBehind ==
    [][Len(queue') > Len(queue) =>
         \E i \in 1 .. Len(queue') :
            /\ RemoveAt(queue', i) = queue
            /\ \A j \in 1 .. Len(queue) :
                IF j < i THEN queue[j].index <= queue'[i].index
                ELSE queue[j].index > queue'[i].index]_vars

\* The CPU is never given cycles past the next event: whatever an instruction
\* adds, it runs on only until that is due, up to the cycle it is due in.
SliceEndsAtEvent ==
    at = "cpu" /\ CPU_Cycles > 1 /\ queue # <<>> =>
        queue[1].index >= (PIC_TickIndexND(CPU_CycleLeft, CPU_Cycles) + CPU_Cycles) * RESOLUTION

\* How many parts of a cycle ago something was due.
Lateness(index) == PIC_TickIndexND(CPU_CycleLeft, CPU_Cycles) * RESOLUTION - index

\* No event waits or is served later than what an instruction overruns its slice
\* by and a cycle: whatever is added while a slice runs, by an instruction, a
\* handler or a tick handler, and over the turn of the millisecond.
ServedOnTime ==
    /\ \A i \in 1 .. Len(queue) : Lateness(queue[i].index) < (MaxOverrun + 1) * RESOLUTION
    /\ serving # NoEntry => Lateness(srv_lag) < (MaxOverrun + 1) * RESOLUTION

\* What a device sees of an event: how long until it is served.
Togo(entry, index) ==
    [togo  |-> index - PIC_TickIndexND(CPU_CycleLeft, CPU_Cycles) * RESOLUTION,
     event |-> entry.event, value |-> entry.value]

\* The timer's entry, out until its handler has returned, is as good as returned
\* when it has added itself.
pendingBar == [i \in 1 .. Len(queue) |-> Togo(queue[i], queue[i].index)]
servedBar  == IF at = "handler" THEN Togo(serving, srv_lag) ELSE NoEntry

\* The queue is one of countdowns: cut and overrun slices, the turn of the
\* millisecond and the pool are invisible to the devices that use it.
Down == INSTANCE Countdowns WITH
    Size     <- PIC_QUEUESIZE,
    MaxSlice <- CPU_CycleMax + MaxOverrun,
    Nobody   <- NoEntry,
    pending  <- pendingBar,
    served   <- servedBar

CountsDown == Down!Spec

\* The millisecond counter and the cycle counter tell the time the CPU has
\* executed: cutting slices, overrunning them and starting milliseconds
\* neither loses cycles nor gives them twice.
TimeIsCycles ==
    (PIC_Ticks * CPU_CycleMax + PIC_TickIndexND(CPU_CycleLeft, CPU_Cycles) - clock)
        % (TickWrap * CPU_CycleMax) = 0

\* A timer that adds itself again does not drift: however late it is served,
\* it stays due at the multiples of its period.
NoDrift ==
    \A i \in 1 .. Len(queue) :
        queue[i].event = Timer => (PIC_Ticks * Tick + queue[i].index) % Period = 0

TimerPending == \E i \in 1 .. Len(queue) : queue[i].event = Timer

TimerAlive == TimerPending \/ (at = "handler" /\ serving.event = Timer)

\* Nothing but a pool without an entry left makes a timer end: no removal of
\* other events takes it along, and it is in the list again when it has run.
TimerKept == [][TimerAlive /\ ~TimerAlive' => free = 0]_vars

\* A timer in the list is served, whatever is served and added before it.
TimerFires == TimerPending ~> serving # NoEntry /\ serving.event = Timer

\* No chain of events and no slice keeps the main loop from the next millisecond.
LoopComesRound == []<>(at = "tick")
=============================================================================
