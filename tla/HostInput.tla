----------------------------- MODULE HostInput -----------------------------
(***************************************************************************)
(* src/waterbox/waterbox.cpp and dosbox-driver.cpp: how the levels a host   *)
(* sets between frames become the machine's input. FrameAdvance folds them  *)
(* into the input block (g_input, which the host may also write itself),    *)
(* turns a mouse button into edges, steps the floppy selector, and hands    *)
(* the block to dosdrv_frame.                                               *)
(***************************************************************************)
EXTENDS Integers

CONSTANTS
    Keys,            \* keys of the keyboard
    Sticks,          \* directions and buttons of the joystick
    MaxFloppies      \* bound: floppy images a project mounts

Levels == Keys \cup Sticks
Others == {"left", "prev", "next", "swap"}
Buttons == Levels \cup Others

ASSUME HostInputAssumption == MaxFloppies \in Nat /\ Levels \cap Others = {} /\ Keys \cap Sticks = {}

VARIABLES
    g_buttons, g_prevButtons,   \* levels, now and at the last FrameAdvance
    level,                      \* g_input.keys and g_input.joy1
    leftPressed, leftReleased,  \* g_input.mouse, edges of the left button
    insertFloppyDisk,           \* g_input.insertFloppyDisk, -1 for none
    g_joystick1Enabled, g_mouseEnabled, g_floppyCount,
    g_pendingFloppy, g_insertedFloppy,
    held,                       \* keys and sticks the machine is told are held
    mouse_buttons,              \* the machine's left button
    currentDisk,                \* the image in drive A
    written,                    \* levels that are up for the host's write to the
                                \* block alone (no variable of the code)
    forgotten                   \* the guest reset its driver while the button was held,
                                \* and the host has not moved it since (no variable of
                                \* the code)

blockVars == <<level, leftPressed, leftReleased, insertFloppyDisk>>
settings == <<g_joystick1Enabled, g_mouseEnabled, g_floppyCount>>
selectorVars == <<g_pendingFloppy, g_insertedFloppy>>
machineVars == <<held, mouse_buttons, currentDisk>>
inputVars == <<g_buttons, g_prevButtons, blockVars, settings, selectorVars, machineVars, written, forgotten>>

InputInit ==
    /\ g_buttons = [b \in Buttons |-> FALSE] /\ g_prevButtons = g_buttons
    /\ level = [l \in Levels |-> FALSE] /\ held = {} /\ written = {}
    /\ leftPressed = FALSE /\ leftReleased = FALSE /\ mouse_buttons = FALSE /\ forgotten = FALSE
    /\ insertFloppyDisk = -1
    /\ g_joystick1Enabled \in BOOLEAN /\ g_mouseEnabled \in BOOLEAN
    /\ g_floppyCount \in 0 .. MaxFloppies
    /\ g_pendingFloppy = 0 /\ g_insertedFloppy = 0 /\ currentDisk = 0

----------------------------------------------------------------------------
(* The host, between frames. *)

SetButton(b) ==
    /\ g_buttons' = [g_buttons EXCEPT ![b] = ~@]
    /\ UNCHANGED <<g_prevButtons, blockVars, settings, selectorVars, machineVars, written, forgotten>>

\* The host writes a level into the block it got from GetInputBuffer.
WriteLevel(l) ==
    /\ level' = [level EXCEPT ![l] = ~@]
    /\ written' = IF level'[l] THEN written \cup {l} ELSE written \ {l}
    /\ UNCHANGED <<g_buttons, g_prevButtons, leftPressed, leftReleased, insertFloppyDisk,
                   settings, selectorVars, machineVars, forgotten>>

----------------------------------------------------------------------------
(* FrameAdvance. *)

Rose(b) == g_buttons[b] /\ ~g_prevButtons[b]
Fell(b) == ~g_buttons[b] /\ g_prevButtons[b]

Plugged(l) == l \in Keys \/ g_joystick1Enabled

\* A button that is down sets its level, one that has just come up clears it,
\* and any other leaves what the host wrote.
Folded(l) ==
    IF ~Plugged(l) THEN level[l]
    ELSE g_buttons[l] \/ (level[l] /\ ~g_prevButtons[l])

\* Mutant: the selector walks past the last image.
StepNoWrap(pending, by) == IF g_floppyCount <= 1 \/ pending + by < 0 THEN 0 ELSE pending + by

\* The selector wraps; a drive of one image or none has nothing to select.
Step(pending, by) == IF g_floppyCount <= 1 THEN 0 ELSE (pending + by) % g_floppyCount

Selected ==
    LET back == IF Rose("prev") THEN Step(g_pendingFloppy, -1) ELSE g_pendingFloppy
    IN  IF Rose("next") THEN Step(back, 1) ELSE back

\* DriveManager::CycleDisks: positions count from 1, and one past the last
\* image is the first; a drive of one image or none is left alone.
CycleDisks(position) ==
    IF g_floppyCount <= 1 THEN currentDisk
    ELSE IF position > g_floppyCount THEN 0 ELSE position - 1

\* Mutant: the edges of a frame stay in the block.
OneShotsKept(pressed, released) == leftPressed' = pressed /\ leftReleased' = released /\ insertFloppyDisk' = -1

\* The fields of the block a frame consumes.
OneShots(pressed, released) == leftPressed' = FALSE /\ leftReleased' = FALSE /\ insertFloppyDisk' = -1

FrameAdvance ==
    LET pressed == leftPressed \/ (g_mouseEnabled /\ Rose("left"))
        released == leftReleased \/ (g_mouseEnabled /\ Fell("left"))
        insert == IF Rose("swap") THEN Selected ELSE insertFloppyDisk
    IN  /\ level' = [l \in Levels |-> Folded(l)]
        /\ written' = {l \in written : Plugged(l) => ~g_buttons[l] /\ ~g_prevButtons[l]}
        /\ g_pendingFloppy' = Selected
        /\ g_insertedFloppy' = IF Rose("swap") THEN Selected ELSE g_insertedFloppy
        /\ g_prevButtons' = g_buttons
        /\ held' = {l \in Levels : Plugged(l) /\ level'[l]}
        /\ currentDisk' = IF insert >= 0 THEN CycleDisks(insert + 1) ELSE currentDisk
        /\ mouse_buttons' = ((mouse_buttons \/ pressed) /\ ~released)
        /\ forgotten' = (forgotten /\ ~pressed /\ ~released)
        /\ OneShots(pressed, released)
        /\ UNCHANGED <<g_buttons, settings>>

----------------------------------------------------------------------------
(* The guest, while a frame runs. *)

\* Mouse_Reset, of the guest's driver: no button is held, whatever the host's is.
ForgetButtons ==
    /\ mouse_buttons' = FALSE
    /\ forgotten' = (forgotten \/ mouse_buttons)
    /\ UNCHANGED <<g_buttons, g_prevButtons, blockVars, settings, selectorVars, held, currentDisk, written>>

InputNext ==
    \/ \E b \in Buttons : SetButton(b)
    \/ \E l \in Levels : WriteLevel(l)
    \/ FrameAdvance \/ ForgetButtons

InputSpec == InputInit /\ [][InputNext]_inputVars

----------------------------------------------------------------------------
(* Correctness *)

Images == 0 .. (IF g_floppyCount = 0 THEN 0 ELSE g_floppyCount - 1)

InputTypeOK ==
    /\ g_buttons \in [Buttons -> BOOLEAN] /\ g_prevButtons \in [Buttons -> BOOLEAN]
    /\ level \in [Levels -> BOOLEAN]
    /\ leftPressed \in BOOLEAN /\ leftReleased \in BOOLEAN /\ insertFloppyDisk \in Images \cup {-1}
    /\ g_joystick1Enabled \in BOOLEAN /\ g_mouseEnabled \in BOOLEAN
    /\ g_floppyCount \in 0 .. MaxFloppies
    /\ g_pendingFloppy \in Images /\ g_insertedFloppy \in Images /\ currentDisk \in Images
    /\ held \subseteq Levels /\ written \subseteq Levels
    /\ mouse_buttons \in BOOLEAN /\ forgotten \in BOOLEAN

\* A level in the block is the button's, or was written there by the host after
\* the button was last down, and the machine is told of every plugged button
\* held: no key stays down that nobody holds, and none held is missed.
LevelsFollow ==
    \A l \in Levels :
        /\ level[l] => l \in written \/ (g_prevButtons[l] /\ Plugged(l))
        /\ g_prevButtons[l] /\ Plugged(l) => l \in held

HostHolds == g_mouseEnabled /\ g_prevButtons["left"]

\* However buttons come and go between frames, the machine's mouse button is
\* where the last frame saw the host's, each edge told once; only a guest that
\* resets its driver while the button is held has it up until the host moves it.
ClicksAgree == mouse_buttons = (HostHolds /\ ~forgotten)

\* What the machine holds is what the host's buttons and writes say.
InputFollows == LevelsFollow /\ ClicksAgree

\* The image said to be inserted is the one drive A reads, whatever the
\* selector was stepped by and however often it went round.
InsertedIsInDrive == g_insertedFloppy = currentDisk
=============================================================================
