----------------------------- MODULE FrameClock -----------------------------
(***************************************************************************)
(* One frame of the core: the driver of src/waterbox/dosbox-driver.cpp, which *)
(* takes the keys the host holds and switches to the machine's coroutine    *)
(* until the frame's tick target, and the machine's main loop of            *)
(* src/patches/src/dosbox.cpp, which reads the driver's virtual clock,      *)
(* delivers the keys and runs a millisecond for every tick that has passed. *)
(*                                                                         *)
(* Nothing runs in parallel: a coroutine keeps the CPU until it switches,   *)
(* and `where' is the place it continues from.  A key is down for the guest *)
(* while its mapper binding is active, so a press delivered again is not a  *)
(* second press.  ticksTarget is a double; here it counts parts of a        *)
(* millisecond.  The _Delay calls of the host's menus are left out, and so   *)
(* are an emulator_speed other than 100 and the estimate of automatic       *)
(* cycles, which sets the cycles of a millisecond and not their number.     *)
(***************************************************************************)
EXTENDS Integers

CONSTANTS
    Keys,
    Parts,              \* parts of a millisecond in ticksTarget
    FrameLengths,       \* the frame lengths, in parts, of the rates in use
    Delays,             \* what devices of the machine pass to _Delay
    Sleeps,             \* and increaseticks: 1, with automatic cycles also 2 to 4
    MaxRemain,          \* milliseconds increaseticks grants at most (20)
    TurboTicks,         \* and what it grants in fast forward (5)
    Turbo,              \* what the guest may set fast forward to
    MaxTicks            \* bound: the ticks a model runs for

ASSUME FrameClockAssumption ==
    /\ Parts \in Nat \ {0}
    /\ FrameLengths \subseteq Nat \ {0}
    /\ Delays \subseteq Nat \ {0} /\ Sleeps \subseteq Nat \ {0}
    /\ MaxRemain \in Nat \ {0} /\ TurboTicks \in Nat \ {0}
    /\ Turbo \subseteq BOOLEAN
    /\ MaxTicks \in Nat

VARIABLES
    at,             \* who has the CPU: "host", "driver" or "machine"
    ticksElapsed, ticksTarget,
    prevPressedKeys, pressedKeys, releasedKeys,
    where,          \* "running" a millisecond, "paused" at its end, "slept"
    ticksRemain, ticksLast, ticksLocked,
    guestKeys,      \* the keys whose bindings are active
    ms,             \* milliseconds run before fast forward was first on
    cut,            \* milliseconds increaseticks did not grant
    fast,           \* fast forward has been on
    polled,         \* GFX_Events has run in this frame
    missed          \* a frame whose keys changed ended without it

clockVars   == <<ticksElapsed, ticksTarget>>
keyVars     == <<prevPressedKeys, pressedKeys, releasedKeys>>
machineVars == <<ticksRemain, ticksLast, ms, cut, fast>>
pollVars    == <<guestKeys, ticksLocked, polled>>
vars == <<at, clockVars, keyVars, where, machineVars, pollVars, missed>>

----------------------------------------------------------------------------
(* The driver. *)

\* dosdrv_boot leaves the machine in the first _Delay it reaches, and then
\* sets the clock back to zero.
Init ==
    /\ at = "host" /\ where = "slept"
    /\ ticksElapsed = 0 /\ ticksTarget = 0
    /\ prevPressedKeys = {} /\ pressedKeys = {} /\ releasedKeys = {}
    /\ ticksRemain = 0 /\ ticksLast = 0 /\ ticksLocked = FALSE
    /\ guestKeys = {}
    /\ ms = 0 /\ cut = 0 /\ fast = FALSE
    /\ polled = FALSE /\ missed = FALSE

\* Mutant: presses of earlier frames are not cleared.
PressedEver(held) == pressedKeys \cup (held \ prevPressedKeys)

Pressed(held) == held \ prevPressedKeys

\* Mutant: only a key pressed in the last frame is released.
ReleasedIfNew(held) == pressedKeys \ held

Released(held) == prevPressedKeys \ held

\* (uint32_t)ticksTarget
Target == ticksTarget \div Parts

dosdrv_frame(held, length) ==
    /\ at = "host"
    /\ ticksTarget + length <= MaxTicks * Parts
    /\ pressedKeys' = Pressed(held)
    /\ releasedKeys' = Released(held)
    /\ prevPressedKeys' = held
    /\ ticksTarget' = ticksTarget + length
    /\ polled' = FALSE
    /\ at' = "driver"
    /\ UNCHANGED <<ticksElapsed, where, machineVars, guestKeys, ticksLocked, missed>>

\* Mutant: the loop runs on at the target.
BehindOrLevel == ticksElapsed <= Target

Behind == ticksElapsed < Target

\* co_switch(_emuCoroutine)
SwitchToMachine ==
    /\ at = "driver" /\ Behind
    /\ at' = "machine"
    /\ UNCHANGED <<clockVars, keyVars, where, machineVars, pollVars, missed>>

FrameReturns ==
    /\ at = "driver" /\ ~Behind
    /\ at' = "host"
    /\ missed' = (missed \/ (~polled /\ pressedKeys \cup releasedKeys # {}))
    /\ UNCHANGED <<clockVars, keyVars, where, machineVars, pollVars>>

----------------------------------------------------------------------------
(* The machine. *)

\* _Delay: the clock moves on and the driver has the CPU.
Delay(n) == ticksElapsed' = ticksElapsed + n /\ at' = "driver"

\* A device waits while the guest runs, as MIDI_RawOutByte does after a sysex.
DeviceWaits(n) ==
    /\ at = "machine" /\ where = "running"
    /\ Delay(n)
    /\ UNCHANGED <<ticksTarget, keyVars, where, machineVars, pollVars, missed>>

\* CONFIG -set turbo, in the guest (programs.cpp:974), reaches DOSBOX_UnlockSpeed2.
SetTurbo(on) ==
    /\ at = "machine" /\ where = "running"
    /\ ticksLocked' = on
    /\ UNCHANGED <<at, clockVars, keyVars, where, machineVars, guestKeys, polled, missed>>

\* PIC_RunQueue returns false: the cycles of the millisecond are used up.
MillisecondEnds ==
    /\ at = "machine" /\ where = "running"
    /\ where' = "paused"
    /\ UNCHANGED <<at, clockVars, keyVars, machineVars, pollVars, missed>>

\* The releases, delivered once, then the presses, at every call; a key press
\* stops fast forward (setting "stop turbo on key", on by default).
GFX_Events ==
    /\ guestKeys' = (guestKeys \ releasedKeys) \cup pressedKeys
    /\ releasedKeys' = {}
    /\ ticksLocked' = (ticksLocked /\ pressedKeys = {})
    /\ polled' = TRUE
    /\ UNCHANGED <<prevPressedKeys, pressedKeys, missed>>

\* A granted millisecond begins.
TIMER_AddTick ==
    /\ at = "machine" /\ where = "paused" /\ ticksRemain > 0
    /\ GFX_Events
    /\ ticksRemain' = ticksRemain - 1
    /\ ms' = IF fast THEN ms ELSE ms + 1
    /\ where' = "running"
    /\ UNCHANGED <<at, clockVars, ticksLast, cut, fast>>

\* increaseticks is called, with fast forward on or off.
IncreasesTicks(locked) ==
    /\ at = "machine" /\ where = "paused" /\ ticksRemain = 0
    /\ GFX_Events
    /\ ticksLocked' = locked

\* ticksLocked: a few milliseconds, whatever the clock says.
FastForward ==
    /\ IncreasesTicks(TRUE)
    /\ ticksRemain' = TurboTicks
    /\ ticksLast' = ticksElapsed
    /\ fast' = TRUE
    /\ at' = "driver"
    /\ UNCHANGED <<clockVars, where, ms, cut>>

\* Mutant: waiting does not move the clock.
SleepStandsStill ==
    /\ IncreasesTicks(FALSE) /\ ticksElapsed <= ticksLast
    /\ Delay(0)
    /\ where' = "slept"
    /\ UNCHANGED <<ticksTarget, machineVars>>

\* Mutant: the tick slept through counts as run.
SleepIsRun ==
    /\ IncreasesTicks(FALSE) /\ ticksElapsed <= ticksLast
    /\ \E n \in Sleeps : Delay(n)
    /\ where' = "slept"
    /\ ticksLast' = ticksElapsed'
    /\ UNCHANGED <<ticksTarget, ticksRemain, ms, cut, fast>>

\* No tick has passed: increaseticks waits for one.
Sleep ==
    /\ IncreasesTicks(FALSE) /\ ticksElapsed <= ticksLast
    /\ \E n \in Sleeps : Delay(n)
    /\ where' = "slept"
    /\ UNCHANGED <<ticksTarget, machineVars>>

Granted(passed) == IF passed > MaxRemain THEN MaxRemain ELSE passed

\* Ticks have passed: they are granted, up to the limit.
CatchUp ==
    /\ IncreasesTicks(FALSE) /\ ticksElapsed > ticksLast
    /\ LET passed == ticksElapsed - ticksLast
       IN  /\ ticksRemain' = Granted(passed)
           /\ cut' = cut + passed - Granted(passed)
    /\ ticksLast' = ticksElapsed
    /\ at' = "driver"
    /\ UNCHANGED <<clockVars, where, ms, fast>>

\* Back from the wait, Normal_Loop switches to the driver once more.
WakeUp ==
    /\ at = "machine" /\ where = "slept"
    /\ where' = "paused"
    /\ at' = "driver"
    /\ UNCHANGED <<clockVars, keyVars, machineVars, pollVars, missed>>

Driver == SwitchToMachine \/ FrameReturns

Machine ==
    \/ MillisecondEnds \/ TIMER_AddTick
    \/ FastForward \/ Sleep \/ CatchUp \/ WakeUp

Next ==
    \/ \E held \in SUBSET Keys, length \in FrameLengths : dosdrv_frame(held, length)
    \/ Driver \/ Machine
    \/ \E n \in Delays : DeviceWaits(n)
    \/ \E on \in Turbo : SetTurbo(on)

Spec == Init /\ [][Next]_vars

\* A coroutine that has the CPU goes on; the host need not call again.
FairSpec == Spec /\ WF_vars(Driver) /\ WF_vars(Machine)

----------------------------------------------------------------------------
(* Correctness *)

\* Every variable has its type.
TypeOK ==
    /\ at \in {"host", "driver", "machine"}
    /\ where \in {"running", "paused", "slept"}
    /\ ticksElapsed \in Nat /\ ticksTarget \in Nat
    /\ prevPressedKeys \subseteq Keys /\ pressedKeys \subseteq Keys
    /\ releasedKeys \subseteq Keys /\ guestKeys \subseteq Keys
    /\ ticksRemain \in 0 .. (IF TurboTicks > MaxRemain THEN TurboTicks ELSE MaxRemain)
    /\ ticksLast \in Nat /\ ms \in Nat /\ cut \in Nat /\ fast \in BOOLEAN
    /\ ticksLocked \in BOOLEAN /\ polled \in BOOLEAN /\ missed \in BOOLEAN

\* What a wait may add to the clock.
Waits == Sleeps \cup Delays

\* Frames do not drift: when a frame returns, the clock stands at the sum of
\* all frame lengths, or past it by less than one wait.
FrameOnTime ==
    at = "host" =>
        /\ Target <= ticksElapsed
        /\ ticksElapsed = Target \/ \E n \in Waits : ticksElapsed < Target + n

\* No millisecond is lost or run twice across the switches between driver and
\* machine: all ticks increaseticks has seen were run, are granted, or were
\* more than it grants at once.  Fast forward runs milliseconds without ticks.
NoTickLost == ~fast => ms + ticksRemain + cut = ticksLast /\ ticksLast <= ticksElapsed

\* The guest sees a key go down only while the host holds it, and never go up
\* while it does, however often a frame's keys are delivered.
NoGhostKeys ==
    [][/\ guestKeys' \ guestKeys \subseteq prevPressedKeys
       /\ (guestKeys \ guestKeys') \cap prevPressedKeys = {}]_vars

\* When a frame returns the guest's keys are the host's, as long as no frame
\* whose keys changed went by without GFX_Events.
KeysFollow == at = "host" /\ ~missed => guestKeys = prevPressedKeys

\* What is left to do until the machine has to sleep: the other coroutine, the
\* rest of the millisecond or of the wait, milliseconds granted, ticks to grant.
Work ==
    (IF at = "driver" THEN 1 ELSE 0)
    + (IF where = "running" THEN 1 ELSE IF where = "slept" THEN 2 ELSE 0)
    + 2 * ticksRemain
    + (IF ticksElapsed > ticksLast THEN 2 * MaxRemain + 2 ELSE 0)

\* No way round main loop and coroutines keeps a frame from its end: with fast
\* forward off every step of a frame returns to the host, moves the clock, which
\* has not reached the target, or leaves less to do until the clock has to move.
FrameNearer ==
    [][at # "host" /\ ~ticksLocked /\ ~ticksLocked' =>
         \/ at' = "host"
         \/ at = "machine" /\ ticksElapsed < Target /\ ticksElapsed' > ticksElapsed
         \/ ticksElapsed' = ticksElapsed /\ Work' < Work]_vars

\* Every frame returns to the host, once fast forward stays off: whatever
\* devices wait for, the machine comes to its sleep and moves the clock.
FramesReturn == <>[](~ticksLocked) => (at = "driver" ~> at = "host")

----------------------------------------------------------------------------
(* What the source says of itself and the code does not do.                 *)

\* waterbox-input.h:34 "1 = held": a key the host has let go is up when the
\* frame is over.
ReleaseArrives == at = "host" => guestKeys \subseteq prevPressedKeys

\* dosbox-driver.cpp:971 "run dosbox until this frame's tick target": every
\* frame gets there.
FrameEnds == at = "driver" ~> at = "host"
=============================================================================
