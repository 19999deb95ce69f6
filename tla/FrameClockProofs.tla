-------------------------- MODULE FrameClockProofs --------------------------
(***************************************************************************)
(* What FrameClock promises for any keys, frame lengths, device waits and    *)
(* limits of increaseticks: types, frames that do not drift and come nearer  *)
(* to their end, ticks that are not lost, and the guest's keys.             *)
(***************************************************************************)
EXTENDS FrameClock, TLAPS

\* The edges of a frame: a press is of a key the host holds, a release of one
\* it does not.
EdgesMatch ==
    /\ pressedKeys \subseteq prevPressedKeys
    /\ releasedKeys \cap prevPressedKeys = {}

\* The clock may be past the target by less than a wait; when the machine has
\* the CPU the clock is before the target, and when the host has it, it is not.
Punctual ==
    /\ ticksElapsed <= Target \/ \E n \in Waits : ticksElapsed < Target + n
    /\ at = "host" => Target <= ticksElapsed
    /\ at = "machine" => ticksElapsed < Target

\* The guest's keys are those of the host from the first GFX_Events of a frame
\* on, and those of the frame before until then.
KeysDelivered ==
    ~missed =>
        /\ at = "host" \/ polled => guestKeys = prevPressedKeys
        /\ ~(at = "host" \/ polled) =>
               guestKeys = (prevPressedKeys \ pressedKeys) \cup releasedKeys

FrameInv == TypeOK /\ EdgesMatch /\ NoTickLost /\ Punctual /\ KeysDelivered

----------------------------------------------------------------------------
(* The target. *)

\* Quotient and remainder.
LEMMA DivMod ==
    ASSUME NEW a \in Nat, NEW n \in Nat \ {0}
    PROVE  a \div n \in Nat /\ a % n \in 0 .. n - 1 /\ a = n * (a \div n) + (a % n)
OBVIOUS

\* ticksTarget in whole ticks does not fall when a frame is added.
LEMMA TargetGrows ==
    ASSUME NEW t \in Nat, NEW d \in Nat, NEW p \in Nat \ {0}
    PROVE  t \div p \in Nat /\ (t + d) \div p \in Nat /\ t \div p <= (t + d) \div p
<1> DEFINE u == t + d  q == t \div p  r == u \div p
<1>1. u \in Nat /\ t <= u  OBVIOUS
<1> HIDE DEF u
<1>2. q \in Nat /\ t % p \in 0 .. p - 1 /\ t = p * q + (t % p)  BY DivMod
<1>3. r \in Nat /\ u % p \in 0 .. p - 1 /\ u = p * r + (u % p)  BY <1>1, DivMod
<1> HIDE DEF q, r
<1>4. SUFFICES ASSUME q > r  PROVE FALSE  BY <1>2, <1>3 DEF q, r, u
<1>5. p * (q - r) >= p  BY <1>2, <1>3, <1>4
<1>6. p * q >= p * r + p  BY <1>2, <1>3, <1>5
<1> QED  BY <1>1, <1>2, <1>3, <1>6

\* The target is a number of ticks.
LEMMA TargetIsNat == TypeOK => Target \in Nat
  BY FrameClockAssumption, DivMod DEF TypeOK, Target

----------------------------------------------------------------------------
(* The inductive invariant. *)

\* Before the first frame nothing is due, held or granted.
LEMMA InitInv == Init => FrameInv
<1> SUFFICES ASSUME Init  PROVE FrameInv  OBVIOUS
<1>1. TypeOK
    <2> DEFINE most == IF TurboTicks > MaxRemain THEN TurboTicks ELSE MaxRemain
    <2>1. most \in Nat  BY FrameClockAssumption
    <2> HIDE DEF most
    <2>2. ticksRemain \in 0 .. most  BY <2>1 DEF Init
    <2> QED  BY <2>2 DEF Init, TypeOK, most
<1>2. EdgesMatch  BY DEF Init, EdgesMatch
<1>3. NoTickLost  BY DEF Init, NoTickLost
<1>4. ticksElapsed = 0 /\ at = "host" /\ ticksTarget = 0  BY DEF Init
<1>5. 0 \div Parts = 0  BY FrameClockAssumption
<1>6. Punctual
    <2>1. Target = 0  BY <1>4, <1>5 DEF Target
    <2> QED  BY <1>4, <2>1 DEF Punctual
<1>7. KeysDelivered  BY DEF Init, KeysDelivered
<1> QED  BY <1>1, <1>2, <1>3, <1>6, <1>7 DEF FrameInv

\* A new frame takes the edges and moves the target on.
LEMMA FrameStartInv ==
    ASSUME FrameInv, NEW held \in SUBSET Keys, NEW length \in FrameLengths,
           dosdrv_frame(held, length)
    PROVE  FrameInv'
<1> USE DEF FrameInv
<1>1. length \in Nat /\ ticksTarget \in Nat /\ ticksElapsed \in Nat
    BY FrameClockAssumption DEF TypeOK
<1>2. TypeOK'
    <2>1. ticksTarget' \in Nat  BY <1>1 DEF dosdrv_frame
    <2>2. pressedKeys' \subseteq Keys /\ releasedKeys' \subseteq Keys
          /\ prevPressedKeys' \subseteq Keys
        BY DEF dosdrv_frame, TypeOK, Pressed, Released
    <2> QED  BY <2>1, <2>2 DEF dosdrv_frame, TypeOK, machineVars
<1>3. EdgesMatch'  BY DEF dosdrv_frame, EdgesMatch, Pressed, Released
<1>4. NoTickLost'  BY DEF dosdrv_frame, NoTickLost, machineVars
<1>5. Target \in Nat /\ Target' \in Nat /\ Target <= Target'
    BY <1>1, FrameClockAssumption, TargetGrows DEF dosdrv_frame, Target
<1>6. Punctual'
    <2>1. ticksElapsed' = ticksElapsed /\ at' = "driver"  BY DEF dosdrv_frame
    <2>2. ASSUME NEW n \in Waits, ticksElapsed < Target + n
          PROVE  ticksElapsed < Target' + n
        <3>1. n \in Nat  BY FrameClockAssumption DEF Waits
        <3> DEFINE t == Target  u == Target'
        <3>2. t \in Nat /\ u \in Nat /\ t <= u /\ ticksElapsed < t + n
            BY <1>5, <2>2
        <3> HIDE DEF t, u
        <3>3. ticksElapsed < u + n  BY <1>1, <3>1, <3>2
        <3> QED  BY <3>3 DEF u
    <2>3. ticksElapsed <= Target => ticksElapsed <= Target'  BY <1>1, <1>5
    <2>4. Waits' = Waits  BY DEF Waits
    <2> QED  BY <2>1, <2>2, <2>3, <2>4 DEF Punctual
<1>7. KeysDelivered'
    BY DEF dosdrv_frame, KeysDelivered, Pressed, Released, TypeOK
<1> QED  BY <1>2, <1>3, <1>4, <1>6, <1>7

\* The switches between driver, machine and host.
LEMMA SwitchInv ==
    ASSUME FrameInv, SwitchToMachine \/ FrameReturns
    PROVE  FrameInv'
<1> USE DEF FrameInv, clockVars, keyVars, machineVars, pollVars
<1>1. TypeOK'  BY DEF SwitchToMachine, FrameReturns, TypeOK
<1>2. EdgesMatch'  BY DEF SwitchToMachine, FrameReturns, EdgesMatch
<1>3. NoTickLost'  BY DEF SwitchToMachine, FrameReturns, NoTickLost
<1>4. Target \in Nat /\ ticksElapsed \in Nat  BY TargetIsNat DEF TypeOK
<1>5. Target' = Target /\ ticksElapsed' = ticksElapsed
    BY DEF SwitchToMachine, FrameReturns, Target
<1>6. (at' = "host" => Target <= ticksElapsed) /\ (at' = "machine" => ticksElapsed < Target)
    BY <1>4 DEF SwitchToMachine, FrameReturns, Behind
<1>7. Punctual'  BY <1>5, <1>6 DEF Punctual, Waits
<1>8. KeysDelivered'
    BY DEF SwitchToMachine, FrameReturns, KeysDelivered, EdgesMatch, TypeOK
<1> QED  BY <1>1, <1>2, <1>3, <1>7, <1>8

\* A machine that gives up the CPU after a wait, or without one, was before
\* the target when it did.
LEMMA LeavesMachine ==
    ASSUME FrameInv, at = "machine", at' = "driver", UNCHANGED ticksTarget,
           NEW n \in Waits \cup {0}, ticksElapsed' = ticksElapsed + n
    PROVE  Punctual' /\ ticksElapsed' \in Nat
<1>1. Target \in Nat /\ ticksElapsed \in Nat /\ ticksElapsed < Target
    BY TargetIsNat DEF FrameInv, TypeOK, Punctual
<1>2. Target' = Target /\ Waits' = Waits  BY DEF Target, Waits
<1>3. n \in Nat  BY FrameClockAssumption DEF Waits
<1>4. CASE n = 0  BY <1>1, <1>2, <1>4 DEF Punctual
<1>5. CASE n \in Waits
    <2>1. ticksElapsed + n < Target + n  BY <1>1, <1>3
    <2> QED  BY <1>1, <1>2, <1>3, <1>5, <2>1 DEF Punctual
<1> QED  BY <1>4, <1>5, <1>1, <1>3

\* A machine that goes on has not changed the clock.
LEMMA StaysInMachine ==
    ASSUME FrameInv, UNCHANGED <<at, clockVars>>
    PROVE  Punctual'
  BY DEF FrameInv, Punctual, Target, Waits, clockVars

\* GFX_Events brings the guest's keys up to those of the host.
LEMMA EventsInv ==
    ASSUME FrameInv, GFX_Events, at = "machine"
    PROVE  /\ EdgesMatch' /\ KeysDelivered'
           /\ prevPressedKeys' \subseteq Keys /\ pressedKeys' \subseteq Keys
           /\ releasedKeys' \subseteq Keys /\ guestKeys' \subseteq Keys
           /\ ticksLocked' \in BOOLEAN /\ polled' \in BOOLEAN /\ missed' \in BOOLEAN
<1> USE DEF FrameInv, GFX_Events
<1>1. EdgesMatch'  BY DEF EdgesMatch
<1>2. KeysDelivered'  BY DEF EdgesMatch, KeysDelivered
<1>3. /\ prevPressedKeys' \subseteq Keys /\ pressedKeys' \subseteq Keys
      /\ releasedKeys' \subseteq Keys /\ guestKeys' \subseteq Keys
    BY DEF TypeOK
<1>4. ticksLocked' \in BOOLEAN /\ polled' \in BOOLEAN /\ missed' \in BOOLEAN
    BY DEF TypeOK
<1> QED  BY <1>1, <1>2, <1>3, <1>4

\* A device that waits takes the clock on by what it asked for.
LEMMA DeviceWaitsInv ==
    ASSUME FrameInv, NEW n \in Delays, DeviceWaits(n)
    PROVE  FrameInv'
<1> USE DEF FrameInv, clockVars, keyVars, machineVars, pollVars
<1>1. at = "machine" /\ at' = "driver" /\ ticksElapsed' = ticksElapsed + n
      /\ UNCHANGED <<ticksTarget, keyVars, where, machineVars, pollVars, missed>>
    BY DEF DeviceWaits, Delay
<1>2. n \in Waits \cup {0} /\ n \in Nat  BY FrameClockAssumption DEF Waits
<1>3. Punctual' /\ ticksElapsed' \in Nat  BY <1>1, <1>2, LeavesMachine
<1>4. TypeOK'  BY <1>1, <1>3 DEF TypeOK
<1>5. EdgesMatch'  BY <1>1 DEF EdgesMatch
<1>6. NoTickLost'  BY <1>1, <1>2 DEF NoTickLost, TypeOK
<1>7. KeysDelivered'  BY <1>1 DEF KeysDelivered
<1> QED  BY <1>3, <1>4, <1>5, <1>6, <1>7

\* The guest runs on: CONFIG sets turbo, or the cycles are used up.
LEMMA GuestRunsInv ==
    ASSUME FrameInv, MillisecondEnds \/ \E on \in Turbo : SetTurbo(on)
    PROVE  FrameInv'
<1> USE DEF FrameInv, clockVars, keyVars, machineVars, pollVars
<1>1. UNCHANGED <<at, clockVars, keyVars, machineVars, guestKeys, polled, missed>>
    BY DEF MillisecondEnds, SetTurbo
<1>2. Punctual'  BY <1>1, StaysInMachine
<1>3. where' \in {"running", "paused", "slept"} /\ ticksLocked' \in BOOLEAN
    BY FrameClockAssumption DEF MillisecondEnds, SetTurbo, TypeOK
<1>4. TypeOK'  BY <1>1, <1>3 DEF TypeOK
<1>5. EdgesMatch'  BY <1>1 DEF EdgesMatch
<1>6. NoTickLost'  BY <1>1 DEF NoTickLost
<1>7. KeysDelivered'  BY <1>1 DEF KeysDelivered
<1> QED  BY <1>2, <1>4, <1>5, <1>6, <1>7

\* A granted millisecond is begun.
LEMMA TickInv ==
    ASSUME FrameInv, TIMER_AddTick
    PROVE  FrameInv'
<1> USE DEF FrameInv
<1>1. /\ at = "machine" /\ GFX_Events /\ ticksRemain > 0 /\ where' = "running"
      /\ ticksRemain' = ticksRemain - 1 /\ ms' = (IF fast THEN ms ELSE ms + 1)
      /\ UNCHANGED <<at, clockVars, ticksLast, cut, fast>>
    BY DEF TIMER_AddTick
<1>2. EdgesMatch' /\ KeysDelivered'  BY <1>1, EventsInv
<1>3. Punctual'  BY <1>1, StaysInMachine
<1> DEFINE most == IF TurboTicks > MaxRemain THEN TurboTicks ELSE MaxRemain
<1>4. most \in Nat /\ ticksRemain \in 0 .. most /\ ms \in Nat /\ cut \in Nat
    BY FrameClockAssumption DEF TypeOK
<1> HIDE DEF most
<1>5. ticksRemain' \in 0 .. most /\ ms' \in Nat  BY <1>1, <1>4
<1>6. TypeOK'
    BY <1>1, <1>5, EventsInv DEF TypeOK, clockVars, most
<1>7. NoTickLost'
    BY <1>1, <1>4 DEF NoTickLost, clockVars
<1> QED  BY <1>2, <1>3, <1>6, <1>7

\* increaseticks gives the CPU back with a new grant, or waits for a tick.
LEMMA IncreaseTicksInv ==
    ASSUME FrameInv, FastForward \/ Sleep \/ CatchUp
    PROVE  FrameInv'
<1> USE DEF FrameInv
<1> DEFINE most == IF TurboTicks > MaxRemain THEN TurboTicks ELSE MaxRemain
<1>1. /\ at = "machine" /\ GFX_Events /\ ticksRemain = 0 /\ at' = "driver"
      /\ UNCHANGED <<ticksTarget, ms>> /\ (where' = where \/ where' = "slept")
    BY DEF FastForward, Sleep, CatchUp, IncreasesTicks, Delay, clockVars, machineVars
<1>2. EdgesMatch' /\ KeysDelivered'  BY <1>1, EventsInv
<1>3. /\ most \in Nat /\ TurboTicks \in 0 .. most /\ MaxRemain \in 0 .. most
      /\ MaxRemain \in Nat /\ ms \in Nat /\ cut \in Nat
      /\ ticksLast \in Nat /\ ticksElapsed \in Nat
    BY FrameClockAssumption DEF TypeOK
<1> HIDE DEF most
<1>4. ticksElapsed' = ticksElapsed \/ \E n \in Sleeps : ticksElapsed' = ticksElapsed + n
    BY DEF FastForward, Sleep, CatchUp, Delay, clockVars
<1>5. Punctual' /\ ticksElapsed' \in Nat
    <2>1. CASE ticksElapsed' = ticksElapsed
        <3>1. ticksElapsed' = ticksElapsed + 0 /\ 0 \in Waits \cup {0}  BY <2>1, <1>3
        <3> QED  BY <3>1, <1>1, LeavesMachine
    <2>2. ASSUME NEW n \in Sleeps, ticksElapsed' = ticksElapsed + n
          PROVE  Punctual' /\ ticksElapsed' \in Nat
        <3>1. n \in Waits \cup {0}  BY DEF Waits
        <3> QED  BY <2>2, <3>1, <1>1, LeavesMachine
    <2> QED  BY <1>4, <2>1, <2>2
<1>6. CASE CatchUp
    <2> DEFINE passed == ticksElapsed - ticksLast
    <2>1. passed \in Nat /\ ticksElapsed = ticksLast + passed
        BY <1>3, <1>6 DEF CatchUp
    <2>2. ticksRemain' = Granted(passed) /\ cut' = cut + passed - Granted(passed)
          /\ ticksLast' = ticksElapsed /\ ticksElapsed' = ticksElapsed
          /\ fast' = fast
        BY <1>6 DEF CatchUp, clockVars
    <2> HIDE DEF passed
    <2>3. Granted(passed) \in 0 .. most /\ Granted(passed) \in Nat /\ Granted(passed) <= passed
        BY <1>3, <2>1 DEF Granted
    <2>4. cut' \in Nat /\ ticksRemain' \in 0 .. most /\ ticksLast' \in Nat
        BY <1>3, <2>1, <2>2, <2>3
    <2>5. fast' \in BOOLEAN  BY <2>2 DEF TypeOK
    <2>6. TypeOK'  BY <1>1, <1>5, <2>4, <2>5, EventsInv DEF TypeOK, most
    <2>7. ~fast => ms + cut = ticksLast
        BY <1>1, <1>3 DEF NoTickLost
    <2>8. ms' + ticksRemain' + cut' = ms + cut + passed
        BY <1>1, <1>3, <2>1, <2>2, <2>3
    <2>9. NoTickLost'
        BY <1>3, <2>1, <2>2, <2>7, <2>8 DEF NoTickLost
    <2> QED  BY <1>2, <1>5, <2>6, <2>9
<1>7. CASE Sleep
    <2>1. UNCHANGED <<ticksRemain, ticksLast, cut, fast>>
          /\ \E n \in Sleeps : n \in Nat /\ ticksElapsed' = ticksElapsed + n
        BY <1>7, FrameClockAssumption DEF Sleep, Delay, machineVars
    <2>2. TypeOK'  BY <1>1, <1>5, <2>1, EventsInv DEF TypeOK
    <2>3. NoTickLost'  BY <1>1, <1>3, <2>1 DEF NoTickLost
    <2> QED  BY <1>2, <1>5, <2>2, <2>3
<1>8. CASE FastForward
    <2>1. ticksRemain' = TurboTicks /\ ticksLast' = ticksElapsed /\ cut' = cut
          /\ fast' = TRUE
        BY <1>8 DEF FastForward
    <2>2. TypeOK'  BY <1>1, <1>3, <1>5, <2>1, EventsInv DEF TypeOK, most
    <2>3. NoTickLost'  BY <2>1 DEF NoTickLost
    <2> QED  BY <1>2, <1>5, <2>2, <2>3
<1> QED  BY <1>6, <1>7, <1>8

\* Back from its wait, the machine gives up the CPU once more.
LEMMA WakeUpInv ==
    ASSUME FrameInv, WakeUp
    PROVE  FrameInv'
<1> USE DEF FrameInv, WakeUp, clockVars, keyVars, machineVars, pollVars
<1>1. ticksElapsed \in Nat  BY DEF TypeOK
<1>2. ticksElapsed' = ticksElapsed + 0 /\ 0 \in Waits \cup {0}  BY <1>1
<1>3. Punctual'  BY <1>2, LeavesMachine
<1>4. TypeOK'  BY DEF TypeOK
<1>5. EdgesMatch'  BY DEF EdgesMatch
<1>6. NoTickLost'  BY DEF NoTickLost
<1>7. KeysDelivered'  BY DEF KeysDelivered
<1> QED  BY <1>3, <1>4, <1>5, <1>6, <1>7

\* Every step keeps the invariant.
LEMMA NextInv == FrameInv /\ [Next]_vars => FrameInv'
<1> SUFFICES ASSUME FrameInv, [Next]_vars  PROVE FrameInv'  OBVIOUS
<1>1. CASE \E held \in SUBSET Keys, length \in FrameLengths : dosdrv_frame(held, length)
    BY <1>1, FrameStartInv
<1>2. CASE Driver  BY <1>2, SwitchInv DEF Driver
<1>3. CASE Machine
    BY <1>3, GuestRunsInv, TickInv, IncreaseTicksInv, WakeUpInv DEF Machine
<1>4. CASE \E n \in Delays : DeviceWaits(n)  BY <1>4, DeviceWaitsInv
<1>5. CASE \E on \in Turbo : SetTurbo(on)  BY <1>5, GuestRunsInv
<1>6. CASE UNCHANGED vars
    BY <1>6 DEF vars, clockVars, keyVars, machineVars, pollVars, FrameInv, TypeOK, EdgesMatch,
       NoTickLost, Punctual, KeysDelivered, Target, Waits
<1> QED  BY <1>1, <1>2, <1>3, <1>4, <1>5, <1>6 DEF Next

LEMMA Invariance == Spec => []FrameInv
  BY InitInv, NextInv, PTL DEF Spec

----------------------------------------------------------------------------
(* What follows. *)

\* Every variable has its type: ticksRemain never passes the limit of
\* increaseticks, and no counter runs below zero.
THEOREM TypeCorrect == Spec => []TypeOK
<1>1. FrameInv => TypeOK  BY DEF FrameInv
<1> QED  BY <1>1, Invariance, PTL

\* Ticks are run, granted or cut, and never lost across the two coroutines.
THEOREM TicksAccountedFor == Spec => []NoTickLost
<1>1. FrameInv => NoTickLost  BY DEF FrameInv
<1> QED  BY <1>1, Invariance, PTL

\* Frames do not drift: dosdrv_frame returns within one wait of its target.
THEOREM FramesOnTime == Spec => []FrameOnTime
<1>1. ASSUME FrameInv  PROVE FrameOnTime
    <2>1. Target \in Nat /\ ticksElapsed \in Nat  BY <1>1, TargetIsNat DEF FrameInv, TypeOK
    <2>2. at = "host" => Target <= ticksElapsed  BY <1>1 DEF FrameInv, Punctual
    <2>3. ticksElapsed <= Target \/ \E n \in Waits : ticksElapsed < Target + n
        BY <1>1 DEF FrameInv, Punctual
    <2>4. ticksElapsed <= Target /\ Target <= ticksElapsed => ticksElapsed = Target
        BY <2>1
    <2> QED  BY <2>2, <2>3, <2>4 DEF FrameOnTime
<1> QED  BY <1>1, Invariance, PTL

\* A frame whose key changes GFX_Events delivered leaves the guest with the
\* host's keys.
THEOREM KeysArrive == Spec => []KeysFollow
<1>1. FrameInv => KeysFollow  BY DEF FrameInv, KeysDelivered, KeysFollow
<1> QED  BY <1>1, Invariance, PTL

\* No key goes down that the host does not hold, or up while the host does.
THEOREM GhostKeysNever == Spec => NoGhostKeys
<1> DEFINE Step ==
        /\ guestKeys' \ guestKeys \subseteq prevPressedKeys
        /\ (guestKeys \ guestKeys') \cap prevPressedKeys = {}
<1>1. ASSUME FrameInv, [Next]_vars  PROVE [Step]_vars
    <2>1. CASE GFX_Events
        BY <1>1, <2>1 DEF GFX_Events, FrameInv, EdgesMatch
    <2>2. GFX_Events \/ guestKeys' = guestKeys
        BY <1>1 DEF Next, Driver, Machine, dosdrv_frame, SwitchToMachine, FrameReturns,
           DeviceWaits, SetTurbo, MillisecondEnds, TIMER_AddTick, IncreasesTicks, FastForward,
           Sleep, CatchUp, WakeUp, vars, pollVars
    <2> QED  BY <2>1, <2>2
<1> QED  BY <1>1, Invariance, PTL DEF Spec, NoGhostKeys

----------------------------------------------------------------------------
(* What a frame has left to do. *)

LEMMA RemainIsNat == TypeOK => ticksRemain \in Nat /\ MaxRemain \in Nat
  BY FrameClockAssumption DEF TypeOK

LEMMA WorkIsNat == TypeOK => Work \in Nat
<1> SUFFICES ASSUME TypeOK  PROVE Work \in Nat  OBVIOUS
<1>1. MaxRemain \in Nat /\ ticksRemain \in Nat  BY RemainIsNat
<1> QED  BY <1>1 DEF Work, TypeOK

\* The steps of the main loop that leave the clock alone.
LEMMA LoopNearer ==
    ASSUME FrameInv, MillisecondEnds \/ TIMER_AddTick \/ CatchUp \/ WakeUp
    PROVE  ticksElapsed' = ticksElapsed /\ Work' < Work
<1>1. /\ ticksElapsed \in Nat /\ ticksLast \in Nat /\ ticksRemain \in Nat
      /\ MaxRemain \in Nat \ {0}
    BY RemainIsNat, FrameClockAssumption DEF FrameInv, TypeOK
<1>2. CASE MillisecondEnds
    BY <1>1, <1>2 DEF MillisecondEnds, Work, clockVars, machineVars
<1>3. CASE TIMER_AddTick
    BY <1>1, <1>3 DEF TIMER_AddTick, Work, clockVars
<1>4. CASE CatchUp
    <2>1. /\ at = "machine" /\ where = "paused" /\ ticksRemain = 0 /\ ticksElapsed > ticksLast
          /\ ticksRemain' = Granted(ticksElapsed - ticksLast) /\ ticksLast' = ticksElapsed
          /\ at' = "driver" /\ ticksElapsed' = ticksElapsed /\ where' = where
        BY <1>4 DEF CatchUp, IncreasesTicks, clockVars
    <2>2. Granted(ticksElapsed - ticksLast) \in 0 .. MaxRemain
        BY <1>1, <2>1 DEF Granted
    <2> DEFINE granted == Granted(ticksElapsed - ticksLast)
    <2>3. Work = 2 * MaxRemain + 2  BY <1>1, <2>1 DEF Work
    <2>4. Work' = 1 + 2 * granted
        <3>1. granted \in Nat /\ ticksRemain' = granted  BY <1>1, <2>1, <2>2
        <3> HIDE DEF granted
        <3> QED  BY <1>1, <2>1, <3>1 DEF Work
    <2> QED  BY <1>1, <2>1, <2>2, <2>3, <2>4
<1>5. CASE WakeUp
    BY <1>1, <1>5 DEF WakeUp, Work, clockVars, machineVars
<1> QED  BY <1>2, <1>3, <1>4, <1>5

\* A wait is a tick at least, and the machine waits only before the target.
LEMMA WaitNearer ==
    ASSUME FrameInv, Sleep \/ \E n \in Delays : DeviceWaits(n)
    PROVE  at = "machine" /\ ticksElapsed < Target /\ ticksElapsed' > ticksElapsed
<1>1. at = "machine" /\ \E n \in Waits : ticksElapsed' = ticksElapsed + n
    BY DEF Sleep, DeviceWaits, Delay, Waits, IncreasesTicks
<1>2. \A n \in Waits : n \in Nat \ {0}  BY FrameClockAssumption DEF Waits
<1>3. ticksElapsed \in Nat  BY DEF FrameInv, TypeOK
<1>4. ticksElapsed < Target  BY <1>1 DEF FrameInv, Punctual
<1> QED  BY <1>1, <1>2, <1>3, <1>4

\* What a fair choice of coroutines turns into a frame that returns: outside fast
\* forward each step is one of finitely many that are left of the frame.
THEOREM FrameComesNearer == Spec => FrameNearer
<1> DEFINE Nearer ==
        at # "host" /\ ~ticksLocked /\ ~ticksLocked' =>
            \/ at' = "host"
            \/ at = "machine" /\ ticksElapsed < Target /\ ticksElapsed' > ticksElapsed
            \/ ticksElapsed' = ticksElapsed /\ Work' < Work
<1>1. ASSUME FrameInv, [Next]_vars  PROVE [Nearer]_vars
    <2> SUFFICES ASSUME Next, at # "host", ~ticksLocked, ~ticksLocked', vars' # vars
                 PROVE  Nearer
        BY <1>1
    <2>1. CASE SwitchToMachine
        <3>1. /\ at = "driver" /\ at' = "machine"
              /\ UNCHANGED <<ticksElapsed, ticksLast, ticksRemain, where>>
            BY <2>1 DEF SwitchToMachine, clockVars, machineVars
        <3>2. Work = Work' + 1 /\ Work \in Nat /\ Work' \in Nat
            <4>1. Work \in Nat  BY <1>1, WorkIsNat DEF FrameInv
            <4>2. MaxRemain \in Nat /\ ticksRemain \in Nat  BY <1>1, RemainIsNat DEF FrameInv
            <4> QED  BY <3>1, <4>1, <4>2 DEF Work
        <3>3. \A v, w \in Nat : w = v + 1 => v < w  OBVIOUS
        <3>4. Work' < Work  BY <3>2, <3>3, Zenon
        <3>5. ticksElapsed' = ticksElapsed  BY <3>1
        <3> QED  BY <3>4, <3>5, Zenon
    <2>2. CASE FrameReturns  BY <2>2 DEF FrameReturns
    <2>3. CASE FastForward  BY <2>3 DEF FastForward, IncreasesTicks
    <2>4. CASE MillisecondEnds \/ TIMER_AddTick \/ CatchUp \/ WakeUp
        BY <1>1, <2>4, LoopNearer
    <2>5. CASE Sleep \/ \E n \in Delays : DeviceWaits(n)  BY <1>1, <2>5, WaitNearer
    <2>6. ASSUME NEW on \in Turbo, SetTurbo(on)  PROVE FALSE
        <3>1. on \in BOOLEAN /\ ticksLocked \in BOOLEAN
            BY <1>1, FrameClockAssumption DEF FrameInv, TypeOK
        <3>2. ticksLocked' = ticksLocked  BY <2>6, <3>1, Zenon DEF SetTurbo
        <3> QED  BY <2>6, <3>2 DEF SetTurbo, vars, pollVars
    <2>7. ASSUME NEW held \in SUBSET Keys, NEW length \in FrameLengths,
                 dosdrv_frame(held, length)
          PROVE  FALSE
        BY <2>7 DEF dosdrv_frame
    <2> HIDE DEF Nearer
    <2> QED  BY <2>1, <2>2, <2>3, <2>4, <2>5, <2>6, <2>7, Zenon DEF Next, Driver, Machine
<1>2. FrameNearer <=> [][Nearer]_vars  BY DEF FrameNearer
<1> HIDE DEF Nearer
<1> QED  BY <1>1, <1>2, Invariance, PTL DEF Spec

=============================================================================
