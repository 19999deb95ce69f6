----------------------------- MODULE Countdowns -----------------------------
(***************************************************************************)
(* What the event queue of src/patches/src/hardware/pic.cpp promises to the *)
(* devices that add events to it: each event counts down while the CPU      *)
(* executes and is served once it has, in the order of the countdowns and,  *)
(* among equals, of their adding.  There are no slices here, no millisecond *)
(* and no list of free entries.  EventQueue implements it.                  *)
(***************************************************************************)
EXTENDS Integers, Sequences, SequencesExt

CONSTANTS
    Size,           \* events at a time, the one being served among them
    RESOLUTION,     \* parts of a cycle
    Handlers,       \* event handlers of devices
    Timer, Period,  \* a handler that adds itself again after this delay
    Vals,           \* values devices pass to their handlers
    Delays,         \* delays asked for by an instruction or a tick handler
    ServiceDelays,  \* delays asked for by an event handler
    MaxSlice,       \* cycles executed at a time
    MaxOverrun,     \* cycles an instruction takes past what it was given
    Nobody          \* no event is being served

VARIABLES
    pending,    \* the events in the order in which they will be served
    served      \* the event whose handler runs

vars == <<pending, served>>

\* Everything is so many parts of a cycle nearer.
Nearer(q, parts) == [i \in 1 .. Len(q) |-> [q[i] EXCEPT !.togo = @ - parts]]

\* An event goes behind those with no more to go.
Joins(q, event, togo, value, r) ==
    \E i \in 1 .. Len(q) + 1 :
        /\ r = InsertAt(q, i, [togo |-> togo, event |-> event, value |-> value])
        /\ \A j \in 1 .. i - 1 : q[j].togo <= togo
        /\ \A j \in i .. Len(q) : q[j].togo > togo

\* Those that stay keep their order.
Leave(q, event, vals, r) ==
    \E n \in 0 .. Len(q) : \E stays \in [1 .. n -> 1 .. Len(q)] :
        /\ \A i, j \in 1 .. n : i < j => stays[i] < stays[j]
        /\ \A k \in 1 .. Len(q) :
            ~(q[k].event = event /\ q[k].value \in vals) <=> \E i \in 1 .. n : stays[i] = k
        /\ r = [i \in 1 .. n |-> q[stays[i]]]

\* What a device does to the events q; it may be refused for want of room only.
\* "from" is when the delay begins: now, or when the event served was due.
Calls(q, taken, delays, from, r) ==
    \E event \in Handlers :
        \/ \E delay \in delays, value \in Vals :
            IF Len(q) + taken = Size THEN r = q
            ELSE Joins(q, event, delay + from, value, r)
        \/ Leave(q, event, {0} \cup Vals, r)
        \/ \E value \in Vals : Leave(q, event, {value}, r)

----------------------------------------------------------------------------
Init ==
    /\ pending = <<[togo |-> Period, event |-> Timer, value |-> 0]>>
    /\ served = Nobody

\* No event is left more than an instruction's overrun and a cycle behind.
Punctual(q) == \A i \in 1 .. Len(q) : q[i].togo > -(MaxOverrun + 1) * RESOLUTION

\* The CPU executes.
Elapse(cycles) ==
    /\ served = Nobody
    /\ pending' = Nearer(pending, cycles * RESOLUTION)
    /\ Punctual(pending')
    /\ UNCHANGED served

\* An instruction, or a tick handler between two instructions, calls.
MachineCalls ==
    /\ served = Nobody
    /\ \E cycles \in {0, 1} : Calls(Nearer(pending, cycles * RESOLUTION), 0, Delays, 0, pending')
    /\ Punctual(pending')
    /\ UNCHANGED served

\* The first event is served, and not before it has counted down.
Serve ==
    /\ served = Nobody
    /\ pending # <<>> /\ pending[1].togo <= 0
    /\ served' = pending[1]
    /\ pending' = Tail(pending)

HandlerCalls ==
    /\ served # Nobody /\ served.event # Timer
    /\ Calls(pending, 1, ServiceDelays, served.togo, pending')
    /\ UNCHANGED served

HandlerReturns ==
    /\ served # Nobody /\ served.event # Timer
    /\ served' = Nobody
    /\ UNCHANGED pending

\* The timer comes again a period after it was due, however late it is served,
\* and is lost for want of room only.
TimerRuns ==
    /\ served # Nobody /\ served.event = Timer
    /\ IF Len(pending) + 1 = Size THEN pending' = pending
       ELSE Joins(pending, Timer, served.togo + Period, 0, pending')
    /\ served' = Nobody

Next ==
    \/ \E cycles \in 1 .. MaxSlice : Elapse(cycles)
    \/ MachineCalls \/ Serve \/ HandlerCalls \/ HandlerReturns \/ TimerRuns

Spec == Init /\ [][Next]_vars
=============================================================================
