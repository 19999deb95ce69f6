------------------------------ MODULE Pointer ------------------------------
(***************************************************************************)
(* src/waterbox/dosbox-driver.cpp: the mouse part of dosdrv_frame, the      *)
(* pointer port, and its reader in the guest (guest-tools/chimabs). One     *)
(* axis is modelled: the other is the same code, and only the low bit of X  *)
(* carries the mark.                                                        *)
(*                                                                          *)
(* A pointer is in three places: the driver's at (a fraction of the screen  *)
(* in MOUSE_ABS_STEPS), the INT 33h cursor mouse.x (a pixel, which the guest *)
(* may move, and of a range it may change, behind the driver's back), and    *)
(* the guest's own, which knows only what it was told: a motion packet, or a *)
(* value read off a port.                                                   *)
(***************************************************************************)
EXTENDS Integers

CONSTANTS
    MOUSE_ABS_STEPS,  \* steps of Mouse Position across the screen
    CLIENT_FRAMES,    \* frames a reader of the port counts as there
    Ranges,           \* widths of the INT 33h range, in pixels
    Lows,             \* its lowest pixel, where the guest sets the range
    Speeds,           \* Mouse Speed, in pixels
    Positions,        \* Mouse Position
    MaxMoves          \* bound: speeds taken between two placements

ASSUME PointerAssumption ==
    /\ MOUSE_ABS_STEPS \in Nat \ {0} /\ CLIENT_FRAMES \in Nat /\ MaxMoves \in Nat
    /\ Ranges \subseteq Nat \ {0} /\ Lows \subseteq Int /\ Speeds \subseteq Nat
    /\ Positions \subseteq 0 .. MOUSE_ABS_STEPS - 1

MOUSE_ABS_MAX == MOUSE_ABS_STEPS - 1

VARIABLES
    at,               \* atX
    x,                \* mouse.x
    min_x, range,     \* mouse.min_x, and mouse.max_x - mouse.min_x + 1
    movedSincePlaced, placeMark,
    g_pointerWire,    \* the port's position and mark
    g_pointerRead,
    since,            \* g_frameCount - g_lastPointerRead, up to CLIENT_FRAMES + 1
    vmware_mouse,     \* a driver has asked VMware's port for absolute mode
    motion,           \* a motion packet waits for the guest (mouse.ps2x)
    last,             \* the value the reader acted on last
    spot, displaced,  \* where the reader put the guest's pointer, and whether a
                      \* packet has moved it since
    frame,            \* the last frame: was the pointer placed, with a reader
                      \* there, and has that read it since
    moves, untouched, \* speeds taken since the last placement, and whether the guest
                      \* has left range and cursor alone since (no variables of the code)
    flips, astray     \* turns of the mark since the reader last read, and whether a
                      \* placement went by it (no variables of the code)

portVars == <<movedSincePlaced, placeMark, g_pointerWire>>
rangeVars == <<min_x, range>>
clientVars == <<g_pointerRead, since>>
guestVars == <<last, spot, displaced>>
ghostVars == <<moves, untouched, flips, astray>>
pointerVars == <<at, x, rangeVars, portVars, clientVars, vmware_mouse, motion, guestVars,
                 frame, ghostVars>>

Wires == [position : 0 .. MOUSE_ABS_MAX, mark : 0 .. 1]

\* The low bit of a position gives way to the mark.
Even(position) == position - (position % 2)

----------------------------------------------------------------------------
(* Fractions of the screen and pixels; integer division rounds to zero. *)

Quotient(n, d) == IF n >= 0 THEN n \div d ELSE -((-n) \div d)

Pixel(position) == (position * range) \div MOUSE_ABS_STEPS

\* Mutant: the pixels of a speed are taken for steps of the position.
StepsUnscaled(speed) == speed

Steps(speed) == Quotient(speed * MOUSE_ABS_STEPS, range)

Clamp(value, top) == IF value < 0 THEN 0 ELSE IF value > top THEN top ELSE value

\* The pixels of a range, the one of them nearest to a value, and those of all.
PixelsOf(low, r) == low .. low + r - 1
Within(value, low, r) == low + Clamp(value - low, r - 1)
Pixels == UNION {PixelsOf(low, r) : low \in Lows \cup {0}, r \in Ranges}

PointerInit ==
    /\ min_x = 0 /\ range \in Ranges
    /\ at = MOUSE_ABS_STEPS \div 2 /\ x = range \div 2
    /\ movedSincePlaced = FALSE /\ placeMark = 0
    /\ g_pointerWire = [position |-> MOUSE_ABS_STEPS \div 2, mark |-> 0]
    /\ g_pointerRead = FALSE /\ since = 0
    /\ vmware_mouse = FALSE
    /\ motion = FALSE
    /\ last = [position |-> -1, mark |-> 0] /\ spot = -1 /\ displaced = FALSE
    /\ frame = [placed |-> FALSE, client |-> FALSE, read |-> FALSE]
    /\ moves = 0 /\ untouched = FALSE /\ flips = 0 /\ astray = FALSE

----------------------------------------------------------------------------
(* dosdrv_frame. *)

\* The frame after CLIENT_FRAMES without a read has no reader.
Elapsed == IF since > CLIENT_FRAMES THEN since ELSE since + 1
PointerClient == g_pointerRead /\ Elapsed <= CLIENT_FRAMES

\* Mutant: a pointer placed again on the same spot writes the same value.
PlaceUnmarked(position) ==
    /\ movedSincePlaced' = FALSE
    /\ g_pointerWire' = [position |-> Even(position), mark |-> placeMark]
    /\ UNCHANGED <<placeMark, flips>>

\* The port says where the pointer is placed; the mark turns over when a speed
\* has moved it since it was last placed.
Place(position) ==
    /\ movedSincePlaced' = FALSE
    /\ placeMark' = IF movedSincePlaced THEN 1 - placeMark ELSE placeMark
    /\ flips' = IF movedSincePlaced /\ flips < 2 THEN flips + 1 ELSE flips
    /\ g_pointerWire' = [position |-> Even(position), mark |-> placeMark']

\* A pointer placed while a reader is there sends a packet without motion, and
\* so does every movement of a guest in VMware's absolute mode.
MouseMoves(pixels, placed) ==
    motion' = (pixels # 0 /\ ~(vmware_mouse \/ (placed /\ PointerClient)))

\* A guest takes its packet before the next frame: the bound on motion.
NewFrame(placed) ==
    /\ ~motion
    /\ since' = Elapsed /\ UNCHANGED g_pointerRead
    /\ frame' = [placed |-> placed, client |-> PointerClient, read |-> FALSE]
    /\ UNCHANGED <<rangeVars, vmware_mouse, guestVars, astray>>

\* Mouse Set Position is held: the pointer is put at Mouse Position.
PlacedFrame(position) ==
    /\ NewFrame(TRUE)
    /\ at' = position
    /\ x' = min_x + Pixel(position)
    /\ MouseMoves(Pixel(position) - Pixel(at), TRUE)
    /\ Place(position)
    /\ moves' = 0 /\ untouched' = TRUE

\* It is not: Mouse Speed moves the pointer.
SpeedFrame(speed) ==
    /\ speed # 0 => moves < MaxMoves
    /\ NewFrame(FALSE)
    /\ at' = Clamp(at + Steps(speed), MOUSE_ABS_MAX)
    /\ x' = Within(x + speed, min_x, range)
    /\ MouseMoves(speed, FALSE)
    /\ movedSincePlaced' = (movedSincePlaced \/ speed # 0)
    /\ moves' = IF speed # 0 THEN moves + 1 ELSE moves
    /\ UNCHANGED <<placeMark, g_pointerWire, untouched, flips>>

----------------------------------------------------------------------------
(* The guest, while a frame runs. *)

\* What the guest's INT 10h and INT 33h calls leave alone.
OnlyCursor == UNCHANGED <<at, portVars, clientVars, vmware_mouse, motion, guestVars, frame, moves, flips, astray>>

\* Mouse_AfterNewVideoMode: the mode's range, under a cursor that stays where it
\* is, on the screen or off it. An SVGA mode keeps the range it finds.
NewVideoMode(r) ==
    /\ min_x' = 0 /\ range' = r
    /\ untouched' = FALSE
    /\ UNCHANGED x /\ OnlyCursor

\* Mouse_Reset, of the guest's driver: the mode's range, the cursor in its middle.
Mouse_Reset(r) ==
    /\ min_x' = 0 /\ range' = r /\ x' = r \div 2
    /\ untouched' = FALSE
    /\ OnlyCursor

\* INT 33h function 07h clips the cursor to the range it sets; the same function
\* of a PC-98's driver, 10h, leaves it where it is.
SetRange(low, r) ==
    /\ min_x' = low /\ range' = r /\ x' \in {Within(x, low, r), x}
    /\ untouched' = FALSE
    /\ OnlyCursor

\* INT 33h function 04h.
SetCursor(pixel) ==
    /\ x' = pixel
    /\ untouched' = (untouched /\ pixel = x)
    /\ UNCHANGED rangeVars /\ OnlyCursor

VMwareCommand ==
    /\ vmware_mouse' = ~vmware_mouse
    /\ UNCHANGED <<at, x, rangeVars, portVars, clientVars, motion, guestVars, frame, ghostVars>>

\* The guest's driver takes a packet and moves its pointer.
TakePacket ==
    /\ motion
    /\ motion' = FALSE /\ displaced' = TRUE
    /\ astray' = (astray \/ frame.placed)
    /\ UNCHANGED <<at, x, rangeVars, portVars, clientVars, vmware_mouse, last, spot, frame,
                   moves, untouched, flips>>

\* The reader acts on a value it did not read the last time.
ReaderActs ==
    IF g_pointerWire # last
    THEN last' = g_pointerWire /\ spot' = g_pointerWire.position /\ displaced' = FALSE
    ELSE UNCHANGED guestVars

\* ChimeraPointerRead, and the reader's loop around it.
ChimeraPointerRead ==
    /\ g_pointerRead' = TRUE /\ since' = 0
    /\ frame' = [frame EXCEPT !.read = TRUE]
    /\ ReaderActs
    /\ flips' = 0
    /\ astray' = IF g_pointerWire # last THEN FALSE ELSE astray \/ flips > 1
    /\ UNCHANGED <<at, x, rangeVars, portVars, vmware_mouse, motion, moves, untouched>>

PointerNext ==
    \/ \E position \in Positions : PlacedFrame(position)
    \/ \E speed \in Speeds \cup {-s : s \in Speeds} \cup {0} : SpeedFrame(speed)
    \/ \E r \in Ranges : NewVideoMode(r) \/ Mouse_Reset(r) \/ \E low \in Lows : SetRange(low, r)
    \/ \E pixel \in PixelsOf(min_x, range) : SetCursor(pixel)
    \/ VMwareCommand \/ TakePacket \/ ChimeraPointerRead

PointerSpec == PointerInit /\ [][PointerNext]_pointerVars

----------------------------------------------------------------------------
(* Correctness *)

PointerTypeOK ==
    /\ min_x \in Lows \cup {0} /\ range \in Ranges
    /\ at \in 0 .. MOUSE_ABS_MAX /\ x \in Pixels
    /\ movedSincePlaced \in BOOLEAN /\ placeMark \in 0 .. 1 /\ g_pointerWire \in Wires
    /\ g_pointerRead \in BOOLEAN /\ since \in 0 .. CLIENT_FRAMES + 1
    /\ vmware_mouse \in BOOLEAN
    /\ motion \in BOOLEAN /\ displaced \in BOOLEAN
    /\ last.position \in -1 .. MOUSE_ABS_MAX /\ spot \in -1 .. MOUSE_ABS_MAX
    /\ frame \in [placed : BOOLEAN, client : BOOLEAN, read : BOOLEAN]
    /\ moves \in 0 .. MaxMoves /\ untouched \in BOOLEAN /\ flips \in 0 .. 2 /\ astray \in BOOLEAN

\* A pointer placed for a reader is where it was put once the reader has read.
PlacedIsRead ==
    frame.placed /\ frame.client /\ frame.read => ~displaced /\ spot = Even(at)

\* So it is, even on the spot it was placed before and whatever moved it since,
\* with two exceptions: a reader that slept through two placements after a
\* movement reads a value it knows, and the packet of a placement made before
\* the reader was there may be taken after its first read.
PlacedIsFollowed == ~astray => PlacedIsRead

CursorInRange == x \in PixelsOf(min_x, range)

Distance == (x - min_x) * MOUSE_ABS_STEPS - at * range

\* The fraction kept by the driver and the pixel of the INT 33h cursor are
\* moved apart from each other, and clipped at their own edges: as long as the
\* guest sets neither range nor cursor, the cursor is on the screen and the two
\* stay within a pixel, and a step more for each speed since they were placed.
DriftIsBounded ==
    untouched => /\ CursorInRange
                 /\ Distance <= MOUSE_ABS_STEPS + moves * range
                 /\ -Distance <= MOUSE_ABS_STEPS + moves * range
=============================================================================
