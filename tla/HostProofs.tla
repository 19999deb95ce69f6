----------------------------- MODULE HostProofs -----------------------------
(***************************************************************************)
(* Theorems about the adapter between host and machine: HostInput, for any  *)
(* keys, sticks and number of images; Pointer, for any screen, range and    *)
(* reader; Picture, for any number of rows and any contents; and MCHost, in *)
(* which each has its turn.                                                 *)
(***************************************************************************)
EXTENDS MCHost, TLAPS

\* Between frames the block carries nothing that a frame consumes.
BlockAtRest == leftPressed = FALSE /\ leftReleased = FALSE /\ insertFloppyDisk = -1

InputInv == InputTypeOK /\ BlockAtRest /\ LevelsFollow /\ ClicksAgree /\ InsertedIsInDrive

LEMMA InputInitInv == InputInit => InputInv
<1> SUFFICES ASSUME InputInit PROVE InputInv
  OBVIOUS
<1>1. MaxFloppies \in Nat /\ g_floppyCount \in 0 .. MaxFloppies /\ 0 \in Images
  BY HostInputAssumption DEF InputInit, Images
<1>2. InputTypeOK
  BY <1>1 DEF InputInit, InputTypeOK
<1>3. LevelsFollow
  <2>1. \A l \in Levels : l \in Buttons /\ g_prevButtons[l] = FALSE /\ level[l] = FALSE
    BY DEF InputInit, Buttons
  <2>. QED
    BY <2>1, Zenon DEF LevelsFollow
<1>4. ClicksAgree
  <2>1. "left" \in Buttons
    BY DEF Buttons, Others
  <2>2. g_prevButtons["left"] = FALSE /\ mouse_buttons = FALSE
    BY <2>1 DEF InputInit
  <2>. QED
    BY <2>2, Zenon DEF ClicksAgree, HostHolds
<1>. QED
  BY <1>2, <1>3, <1>4 DEF InputInit, InputInv, BlockAtRest, InsertedIsInDrive

\* A step of the selector ends on an image, or on nothing where there is none.
LEMMA StepStays ==
  ASSUME g_floppyCount \in Nat, NEW pending \in Int, NEW by \in Int
  PROVE  Step(pending, by) \in Images
<1>1. CASE g_floppyCount <= 1
  <2>1. Step(pending, by) = 0 /\ 0 \in Images
    BY <1>1 DEF Step, Images
  <2>. QED
    BY <2>1
<1>2. CASE ~(g_floppyCount <= 1)
  <2> DEFINE p == pending + by
  <2>1. p \in Int /\ g_floppyCount \in Nat \ {0}
    BY <1>2
  <2>2. Step(pending, by) = p % g_floppyCount
    BY <1>2 DEF Step
  <2> HIDE DEF p
  <2>3. p % g_floppyCount \in 0 .. (g_floppyCount - 1)
    BY <2>1
  <2>4. Images = 0 .. (g_floppyCount - 1)
    BY <2>1, Zenon DEF Images
  <2>. QED
    BY <2>2, <2>3, <2>4
<1>. QED
  BY <1>1, <1>2

LEMMA ImagesAreInts == g_floppyCount \in Nat => Images \subseteq Int
BY DEF Images

LEMMA SelectedStays ==
  ASSUME g_floppyCount \in Nat, g_pendingFloppy \in Images
  PROVE  Selected \in Images
<1> DEFINE back == IF Rose("prev") THEN Step(g_pendingFloppy, -1) ELSE g_pendingFloppy
<1>1. Step(g_pendingFloppy, -1) \in Images
  BY ImagesAreInts, StepStays
<1>2. back \in Images
  BY <1>1
<1>3. Selected = IF Rose("next") THEN Step(back, 1) ELSE back
  BY DEF Selected
<1> HIDE DEF back
<1>4. Step(back, 1) \in Images
  BY <1>2, ImagesAreInts, StepStays
<1>. QED
  BY <1>2, <1>3, <1>4

\* The manager's position of an image, counted from one, brings that image.
LEMMA CycledTo ==
  ASSUME g_floppyCount \in Nat, currentDisk \in Images, NEW image \in Images
  PROVE  CycleDisks(image + 1) = image
<1>1. CASE g_floppyCount <= 1
  <2>1. currentDisk = 0 /\ image = 0
    BY <1>1 DEF Images
  <2>. QED
    BY <1>1, <2>1 DEF CycleDisks
<1>2. CASE ~(g_floppyCount <= 1)
  <2>1. Images = 0 .. (g_floppyCount - 1)
    BY <1>2 DEF Images
  <2>2. image \in Int /\ image + 1 <= g_floppyCount /\ (image + 1) - 1 = image
    BY <2>1
  <2>. QED
    BY <1>2, <2>2 DEF CycleDisks
<1>. QED
  BY <1>1, <1>2

LEMMA SetButtonStep ==
  ASSUME InputInv, NEW b \in Buttons, SetButton(b) PROVE InputInv'
<1>1. g_buttons' \in [Buttons -> BOOLEAN]
  BY DEF SetButton, InputInv, InputTypeOK
<1>2. UNCHANGED <<g_prevButtons, level, leftPressed, leftReleased, insertFloppyDisk,
                  g_joystick1Enabled, g_mouseEnabled, g_floppyCount, g_pendingFloppy,
                  g_insertedFloppy, held, mouse_buttons, currentDisk, written, forgotten>>
  BY DEF SetButton, blockVars, settings, selectorVars, machineVars
<1>. QED
  BY <1>1, <1>2 DEF InputInv, InputTypeOK, BlockAtRest, LevelsFollow, ClicksAgree,
                    HostHolds, InsertedIsInDrive, Plugged, Images

LEMMA WriteLevelStep ==
  ASSUME InputInv, NEW l \in Levels, WriteLevel(l) PROVE InputInv'
<1>1. UNCHANGED <<g_buttons, g_prevButtons, leftPressed, leftReleased, insertFloppyDisk,
                  g_joystick1Enabled, g_mouseEnabled, g_floppyCount, g_pendingFloppy,
                  g_insertedFloppy, held, mouse_buttons, currentDisk, forgotten>>
  BY DEF WriteLevel, settings, selectorVars, machineVars
<1>2. /\ level' \in [Levels -> BOOLEAN] /\ written' \subseteq Levels
      /\ \A k \in Levels \ {l} : level'[k] = level[k] /\ (k \in written => k \in written')
      /\ (level'[l] => l \in written')
  BY DEF WriteLevel, InputInv, InputTypeOK
<1>3. LevelsFollow'
  <2> SUFFICES ASSUME NEW k \in Levels
               PROVE  /\ level'[k] => k \in written' \/ (g_prevButtons[k] /\ Plugged(k))
                      /\ g_prevButtons[k] /\ Plugged(k) => k \in held
    BY <1>1 DEF LevelsFollow, Plugged
  <2>1. /\ level[k] => k \in written \/ (g_prevButtons[k] /\ Plugged(k))
        /\ g_prevButtons[k] /\ Plugged(k) => k \in held
    BY DEF InputInv, LevelsFollow
  <2>. QED
    BY <1>2, <2>1
<1>. QED
  BY <1>1, <1>2, <1>3 DEF InputInv, InputTypeOK, BlockAtRest, ClicksAgree, HostHolds,
                          InsertedIsInDrive, Images

\* A frame: levels.
LEMMA FrameLevels ==
  ASSUME InputInv, FrameAdvance
  PROVE  /\ level' \in [Levels -> BOOLEAN] /\ held' \subseteq Levels /\ written' \subseteq Levels
         /\ LevelsFollow'
<1>1. /\ level' = [l \in Levels |-> Folded(l)]
      /\ written' = {l \in written : Plugged(l) => ~g_buttons[l] /\ ~g_prevButtons[l]}
      /\ g_prevButtons' = g_buttons
      /\ held' = {l \in Levels : Plugged(l) /\ level'[l]}
      /\ g_joystick1Enabled' = g_joystick1Enabled
  BY DEF FrameAdvance, settings
<1>2. \A l \in Levels : /\ l \in Buttons /\ g_buttons[l] \in BOOLEAN /\ level[l] \in BOOLEAN
                        /\ Folded(l) \in BOOLEAN
  BY DEF InputInv, InputTypeOK, Buttons, Folded
<1>3. LevelsFollow'
  <2> SUFFICES ASSUME NEW l \in Levels
               PROVE  /\ level'[l] => l \in written' \/ (g_buttons[l] /\ Plugged(l))
                      /\ g_buttons[l] /\ Plugged(l) => l \in held'
    BY <1>1 DEF LevelsFollow, Plugged
  <2>1. level'[l] = Folded(l)
    BY <1>1
  <2>2. level[l] => l \in written \/ (g_prevButtons[l] /\ Plugged(l))
    BY DEF InputInv, LevelsFollow
  <2>3. l \in held' <=> Plugged(l) /\ Folded(l)
    BY <1>1, <2>1
  <2>4. l \in written' <=> l \in written /\ (Plugged(l) => ~g_buttons[l] /\ ~g_prevButtons[l])
    BY <1>1
  <2>5. CASE Plugged(l)
    <3>1. Folded(l) <=> g_buttons[l] \/ (level[l] /\ ~g_prevButtons[l])
      BY <2>5 DEF Folded
    <3>. QED
      BY <2>1, <2>2, <2>3, <2>4, <2>5, <3>1, Zenon
  <2>6. CASE ~Plugged(l)
    <3>1. Folded(l) = level[l]
      BY <2>6 DEF Folded
    <3>. QED
      BY <2>1, <2>2, <2>4, <2>6, <3>1, Zenon
  <2>. QED
    BY <2>5, <2>6
<1>4. level' \in [Levels -> BOOLEAN]
  BY <1>1, <1>2
<1>5. held' \subseteq Levels /\ written' \subseteq Levels
  BY <1>1 DEF InputInv, InputTypeOK
<1>. QED
  BY <1>3, <1>4, <1>5

\* A frame: the mouse button.
LEMMA FrameClicks ==
  ASSUME InputInv, FrameAdvance
  PROVE  mouse_buttons' \in BOOLEAN /\ forgotten' \in BOOLEAN /\ ClicksAgree'
<1>1. "left" \in Buttons
  BY DEF Buttons, Others
<1>2. g_buttons["left"] \in BOOLEAN /\ g_prevButtons["left"] \in BOOLEAN
      /\ mouse_buttons \in BOOLEAN /\ g_mouseEnabled \in BOOLEAN /\ forgotten \in BOOLEAN
  BY <1>1 DEF InputInv, InputTypeOK
<1>3. mouse_buttons = (g_mouseEnabled /\ g_prevButtons["left"] /\ ~forgotten)
      /\ leftPressed = FALSE /\ leftReleased = FALSE
  BY DEF InputInv, ClicksAgree, HostHolds, BlockAtRest
<1> DEFINE pressed == leftPressed \/ (g_mouseEnabled /\ Rose("left"))
           released == leftReleased \/ (g_mouseEnabled /\ Fell("left"))
<1>4. /\ mouse_buttons' = ((mouse_buttons \/ pressed) /\ ~released)
      /\ forgotten' = (forgotten /\ ~pressed /\ ~released)
      /\ g_prevButtons' = g_buttons /\ g_mouseEnabled' = g_mouseEnabled
  BY DEF FrameAdvance, settings
<1>5. mouse_buttons' = (g_mouseEnabled /\ g_buttons["left"] /\ ~forgotten')
  BY <1>2, <1>3, <1>4 DEF Rose, Fell
<1>. QED
  BY <1>4, <1>5 DEF ClicksAgree, HostHolds

\* The guest's reset of its driver.
LEMMA ForgetStep == ASSUME InputInv, ForgetButtons PROVE InputInv'
<1>1. UNCHANGED <<g_buttons, g_prevButtons, level, leftPressed, leftReleased, insertFloppyDisk,
                  g_joystick1Enabled, g_mouseEnabled, g_floppyCount, g_pendingFloppy,
                  g_insertedFloppy, held, currentDisk, written>>
  BY DEF ForgetButtons, blockVars, settings, selectorVars
<1>2. mouse_buttons' = FALSE /\ forgotten' = (forgotten \/ mouse_buttons)
  BY DEF ForgetButtons
<1>3. ClicksAgree'
  <2>1. mouse_buttons = (HostHolds /\ ~forgotten) /\ HostHolds' = HostHolds
    BY <1>1 DEF InputInv, ClicksAgree, HostHolds
  <2>. QED
    BY <1>2, <2>1, Zenon DEF ClicksAgree
<1>4. LevelsFollow' /\ Images' = Images
  BY <1>1 DEF InputInv, LevelsFollow, Plugged, Images
<1>5. mouse_buttons' \in BOOLEAN /\ forgotten' \in BOOLEAN
  BY <1>2
<1>. QED
  BY <1>1, <1>3, <1>4, <1>5 DEF InputInv, InputTypeOK, BlockAtRest, InsertedIsInDrive

\* A frame: the selector and the drive.
LEMMA FrameDisk ==
  ASSUME InputInv, FrameAdvance
  PROVE  /\ g_pendingFloppy' \in Images /\ g_insertedFloppy' \in Images /\ currentDisk' \in Images
         /\ InsertedIsInDrive'
<1>1. /\ g_floppyCount \in Nat /\ g_pendingFloppy \in Images /\ g_insertedFloppy \in Images
      /\ currentDisk \in Images /\ g_insertedFloppy = currentDisk /\ insertFloppyDisk = -1
  BY HostInputAssumption DEF InputInv, InputTypeOK, InsertedIsInDrive, BlockAtRest
<1>2. Selected \in Images
  BY <1>1, SelectedStays
<1>3. CycleDisks(Selected + 1) = Selected /\ Selected >= 0
  <2>1. Selected >= 0
    BY <1>1, <1>2 DEF Images
  <2>. QED
    BY <1>1, <1>2, <2>1, CycledTo
<1> DEFINE insert == IF Rose("swap") THEN Selected ELSE insertFloppyDisk
<1>4. /\ g_pendingFloppy' = Selected
      /\ g_insertedFloppy' = IF Rose("swap") THEN Selected ELSE g_insertedFloppy
      /\ currentDisk' = IF insert >= 0 THEN CycleDisks(insert + 1) ELSE currentDisk
  BY DEF FrameAdvance
<1>5. CASE Rose("swap")
  <2>1. insert = Selected
    BY <1>5
  <2>. QED
    BY <1>2, <1>3, <1>4, <1>5, <2>1 DEF InsertedIsInDrive
<1>6. CASE ~Rose("swap")
  <2>1. ~(insert >= 0)
    BY <1>1, <1>6
  <2>. QED
    BY <1>1, <1>2, <1>4, <1>6, <2>1 DEF InsertedIsInDrive
<1>. QED
  BY <1>5, <1>6

LEMMA FrameStep ==
  ASSUME InputInv, FrameAdvance PROVE InputInv'
<1>1. /\ g_prevButtons' = g_buttons /\ g_buttons' = g_buttons
      /\ g_joystick1Enabled' = g_joystick1Enabled /\ g_mouseEnabled' = g_mouseEnabled
      /\ g_floppyCount' = g_floppyCount
      /\ leftPressed' = FALSE /\ leftReleased' = FALSE /\ insertFloppyDisk' = -1
  BY DEF FrameAdvance, settings, OneShots
<1>2. Images' = Images
  BY <1>1 DEF Images
<1>3. InputTypeOK'
  BY <1>1, <1>2, FrameLevels, FrameClicks, FrameDisk DEF InputInv, InputTypeOK
<1>. QED
  BY <1>1, <1>3, FrameLevels, FrameClicks, FrameDisk DEF InputInv, BlockAtRest

LEMMA InputNextInv == InputInv /\ [InputNext]_inputVars => InputInv'
<1> SUFFICES ASSUME InputInv, [InputNext]_inputVars PROVE InputInv'
  OBVIOUS
<1>1. ASSUME NEW b \in Buttons, SetButton(b) PROVE InputInv'
  BY <1>1, SetButtonStep
<1>2. ASSUME NEW l \in Levels, WriteLevel(l) PROVE InputInv'
  BY <1>2, WriteLevelStep
<1>3. CASE UNCHANGED inputVars
  <2>1. UNCHANGED <<g_buttons, g_prevButtons, level, leftPressed, leftReleased, insertFloppyDisk,
                    g_joystick1Enabled, g_mouseEnabled, g_floppyCount, g_pendingFloppy,
                    g_insertedFloppy, held, mouse_buttons, currentDisk, written, forgotten>>
    BY <1>3 DEF inputVars, blockVars, settings, selectorVars, machineVars
  <2>. QED
    BY <2>1 DEF InputInv, InputTypeOK, BlockAtRest, LevelsFollow, ClicksAgree,
                HostHolds, InsertedIsInDrive, Plugged, Images
<1>. QED
  BY <1>1, <1>2, <1>3, FrameStep, ForgetStep DEF InputNext

\* The inductive invariant of the input block holds in every behaviour.
THEOREM InputInvariance == InputSpec => []InputInv
<1>. QED
  BY InputInitInv, InputNextInv, PTL DEF InputSpec

\* The machine holds what the host holds or wrote, and its mouse button is where
\* the last frame saw the host's unless the guest's reset has let it go: no level
\* sticks, no edge is told twice, and the next edge mends what a reset forgot.
THEOREM MachineFollowsHost == InputSpec => []InputFollows
<1>1. InputInv => InputFollows
  BY DEF InputInv, InputFollows
<1>. QED
  BY <1>1, InputInvariance, PTL

\* The image said to be inserted is the one in drive A, for any number of images
\* and any walk of the selector.
THEOREM SaidIsInserted == InputSpec => []InsertedIsInDrive
<1>1. InputInv => InsertedIsInDrive
  BY DEF InputInv
<1>. QED
  BY <1>1, InputInvariance, PTL

----------------------------------------------------------------------------
(* The pointer: its types. *)

LEMMA PointerConstants ==
  /\ MOUSE_ABS_STEPS \in Nat \ {0} /\ MaxMoves \in Nat /\ CLIENT_FRAMES \in Nat
  /\ \A r \in Ranges : r \in Nat \ {0}
  /\ \A p \in Positions : p \in 0 .. MOUSE_ABS_STEPS - 1
  /\ \A s \in Speeds : s \in Nat
  /\ \A low \in Lows \cup {0} : low \in Int
  BY PointerAssumption

\* A quotient, and what is left over.
LEMMA Divided ==
  ASSUME NEW a \in Nat, NEW n \in Nat \ {0}
  PROVE  a \div n \in Nat /\ a % n \in 0 .. n - 1 /\ a = n * (a \div n) + (a % n)
  OBVIOUS

\* The pixel of a position is one of the range, less than a pixel before it.
LEMMA PixelIn ==
  ASSUME range \in Ranges, NEW p \in 0 .. MOUSE_ABS_STEPS - 1
  PROVE  /\ Pixel(p) \in 0 .. range - 1
         /\ Pixel(p) * MOUSE_ABS_STEPS <= p * range
         /\ p * range < Pixel(p) * MOUSE_ABS_STEPS + MOUSE_ABS_STEPS
<1> DEFINE S == MOUSE_ABS_STEPS
           q == (p * range) \div S
           r == (p * range) % S
<1>1. S \in Nat \ {0} /\ range \in Nat \ {0} /\ p \in Nat /\ p + 1 <= S
  BY PointerConstants
<1>2. p * range \in Nat
  BY <1>1
<1>3. q \in Nat /\ r \in 0 .. S - 1 /\ p * range = S * q + r
  BY <1>1, <1>2, Divided
<1>4. Pixel(p) = q
  BY DEF Pixel
<1> HIDE DEF q, r, S
<1>5. q * S <= p * range /\ p * range < q * S + S
  BY <1>1, <1>3
<1>6. q <= range - 1
  <2> SUFFICES ASSUME q >= range PROVE FALSE
    BY <1>1, <1>3
  <2>1. q * S >= range * S
    BY <1>1, <1>3
  <2>2. p * range + range <= S * range
    <3>1. (p + 1) * range <= S * range
      BY <1>1
    <3>. QED
      BY <3>1, <1>1
  <2>. QED
    BY <1>1, <1>3, <1>5, <2>1, <2>2
<1>. QED
  BY <1>1, <1>3, <1>4, <1>5, <1>6 DEF S

LEMMA Clamped ==
  ASSUME NEW v \in Int, NEW top \in Nat PROVE Clamp(v, top) \in 0 .. top
  BY DEF Clamp

LEMMA WithinRange ==
  ASSUME NEW v \in Int, NEW low \in Int, NEW r \in Nat \ {0}
  PROVE  Within(v, low, r) \in PixelsOf(low, r)
<1>1. Clamp(v - low, r - 1) \in 0 .. r - 1
  BY Clamped
<1>. QED
  BY <1>1 DEF Within, PixelsOf

LEMMA RangesArePixels ==
  /\ \A low \in Lows \cup {0}, r \in Ranges : PixelsOf(low, r) \subseteq Pixels
  /\ \A pixel \in Pixels : pixel \in Int
<1>1. ASSUME NEW low \in Lows \cup {0}, NEW r \in Ranges, NEW pixel \in PixelsOf(low, r)
      PROVE  pixel \in Int
  BY PointerConstants DEF PixelsOf
<1>2. ASSUME NEW low \in Lows \cup {0}, NEW r \in Ranges PROVE PixelsOf(low, r) \subseteq Pixels
  BY DEF Pixels
<1>. QED
  BY <1>1, <1>2 DEF Pixels

\* Division towards zero leaves less than the divisor over.
LEMMA QuotientIs ==
  ASSUME NEW a \in Int, NEW n \in Nat \ {0}
  PROVE  /\ Quotient(a, n) \in Int
         /\ a - Quotient(a, n) * n < n /\ Quotient(a, n) * n - a < n
<1>1. CASE a >= 0
  <2> DEFINE q == a \div n
             r == a % n
  <2>0. a \in Nat
    BY <1>1
  <2>1. q \in Nat /\ r \in 0 .. n - 1 /\ a = n * q + r
    BY <2>0, Divided
  <2>2. Quotient(a, n) = q
    BY <1>1 DEF Quotient
  <2> HIDE DEF q, r
  <2>. QED
    BY <2>1, <2>2
<1>2. CASE a < 0
  <2> DEFINE b == -a
             q == b \div n
             r == b % n
  <2>0. b \in Nat /\ a = -b
    BY <1>2
  <2> HIDE DEF b
  <2>1. q \in Nat /\ r \in 0 .. n - 1 /\ b = n * q + r
    BY <2>0, Divided
  <2>2. Quotient(a, n) = -q
    BY <1>2 DEF Quotient, b
  <2> HIDE DEF q, r
  <2>3. (-q) * n = -(n * q)
    BY <2>1
  <2>. QED
    BY <2>0, <2>1, <2>2, <2>3
<1>. QED
  BY <1>1, <1>2

LEMMA PointerInitType == PointerInit => PointerTypeOK
<1> SUFFICES ASSUME PointerInit PROVE PointerTypeOK
  OBVIOUS
<1> DEFINE S == MOUSE_ABS_STEPS
<1>0. min_x = 0 /\ min_x \in Lows \cup {0}
  BY DEF PointerInit
<1>1. S \in Nat \ {0} /\ range \in Ranges /\ range \in Nat \ {0} /\ CLIENT_FRAMES \in Nat /\ MaxMoves \in Nat
  BY PointerConstants DEF PointerInit
<1>2. S \div 2 \in 0 .. S - 1 /\ range \div 2 \in 0 .. range - 1
  BY <1>1
<1> HIDE DEF S
<1>3. at \in 0 .. MOUSE_ABS_MAX /\ x \in Pixels
  <2>1. x \in PixelsOf(0, range)
    BY <1>1, <1>2 DEF PointerInit, PixelsOf
  <2>2. at \in 0 .. MOUSE_ABS_MAX
    BY <1>2 DEF PointerInit, MOUSE_ABS_MAX, S
  <2>. QED
    BY <1>1, <2>1, <2>2, RangesArePixels
<1>4. g_pointerWire \in Wires
  BY <1>2 DEF PointerInit, MOUSE_ABS_MAX, S, Wires
<1>5. since \in 0 .. CLIENT_FRAMES + 1 /\ moves \in 0 .. MaxMoves
  BY <1>1 DEF PointerInit
<1>6. last.position \in -1 .. MOUSE_ABS_MAX /\ spot \in -1 .. MOUSE_ABS_MAX
  BY <1>1 DEF PointerInit, MOUSE_ABS_MAX, S
<1>7. frame \in [placed : BOOLEAN, client : BOOLEAN, read : BOOLEAN]
  BY DEF PointerInit
<1>8. placeMark \in 0 .. 1 /\ flips \in 0 .. 2
  BY DEF PointerInit
<1>9. /\ movedSincePlaced \in BOOLEAN /\ g_pointerRead \in BOOLEAN /\ vmware_mouse \in BOOLEAN
      /\ motion \in BOOLEAN /\ displaced \in BOOLEAN /\ untouched \in BOOLEAN /\ astray \in BOOLEAN
  BY DEF PointerInit
<1>. QED
  BY <1>0, <1>1, <1>3, <1>4, <1>5, <1>6, <1>7, <1>8, <1>9, Zenon DEF PointerTypeOK

\* A frame counts on to the one after the last in which a reader is there.
LEMMA NewFrameType ==
  ASSUME PointerTypeOK, NEW placed \in BOOLEAN, NewFrame(placed)
  PROVE  /\ since' \in 0 .. CLIENT_FRAMES + 1 /\ g_pointerRead' \in BOOLEAN
         /\ frame' \in [placed : BOOLEAN, client : BOOLEAN, read : BOOLEAN]
         /\ frame'.placed = placed /\ frame'.read = FALSE
<1>1. since \in 0 .. CLIENT_FRAMES + 1 /\ g_pointerRead \in BOOLEAN /\ CLIENT_FRAMES \in Nat
  BY PointerConstants DEF PointerTypeOK
<1>2. Elapsed \in 0 .. CLIENT_FRAMES + 1 /\ PointerClient \in BOOLEAN
  BY <1>1 DEF Elapsed, PointerClient
<1>3. /\ since' = Elapsed /\ g_pointerRead' = g_pointerRead
      /\ frame' = [placed |-> placed, client |-> PointerClient, read |-> FALSE]
  BY DEF NewFrame
<1>. QED
  BY <1>1, <1>2, <1>3

LEMMA PlacedFrameType ==
  ASSUME PointerTypeOK, NEW p \in Positions, PlacedFrame(p) PROVE PointerTypeOK'
<1>0. p \in 0 .. MOUSE_ABS_STEPS - 1 /\ range \in Ranges /\ MaxMoves \in Nat
  BY PointerConstants DEF PointerTypeOK
<1>1. at' \in 0 .. MOUSE_ABS_MAX /\ x' \in Pixels
  <2>1. min_x \in Lows \cup {0} /\ min_x \in Int /\ range \in Nat \ {0}
    BY <1>0, PointerConstants DEF PointerTypeOK
  <2>2. x' \in PixelsOf(min_x, range)
    BY <1>0, <2>1, PixelIn DEF PlacedFrame, PixelsOf
  <2>. QED
    BY <1>0, <2>1, <2>2, RangesArePixels DEF PlacedFrame, MOUSE_ABS_MAX
<1>2. placeMark' \in 0 .. 1 /\ flips' \in 0 .. 2 /\ movedSincePlaced' \in BOOLEAN
  <2>1. placeMark \in 0 .. 1 /\ flips \in 0 .. 2
    BY DEF PointerTypeOK
  <2>2. /\ movedSincePlaced' = FALSE
        /\ placeMark' = IF movedSincePlaced THEN 1 - placeMark ELSE placeMark
        /\ flips' = IF movedSincePlaced /\ flips < 2 THEN flips + 1 ELSE flips
    BY DEF PlacedFrame, Place
  <2>3. placeMark' \in {1 - placeMark, placeMark}
    BY <2>2, Zenon
  <2>4. flips' = flips \/ (flips < 2 /\ flips' = flips + 1)
    BY <2>2, Zenon
  <2>5. placeMark' \in 0 .. 1
    BY <2>1, <2>3
  <2>6. flips' \in 0 .. 2
    BY <2>1, <2>4
  <2>. QED
    BY <2>2, <2>5, <2>6
<1>3. Even(p) \in 0 .. MOUSE_ABS_MAX
  <2>1. p \in Nat /\ p <= MOUSE_ABS_MAX /\ MOUSE_ABS_MAX \in Int
    BY <1>0, PointerConstants DEF MOUSE_ABS_MAX
  <2>2. p \div 2 \in Nat /\ p % 2 \in 0 .. 1 /\ p = 2 * (p \div 2) + (p % 2)
    BY <2>1
  <2>. QED
    BY <2>1, <2>2 DEF Even
<1>4. g_pointerWire' \in Wires
  BY <1>2, <1>3 DEF PlacedFrame, Place, Wires
<1>5. motion' \in BOOLEAN
  BY DEF PlacedFrame, MouseMoves
<1>6. moves' \in 0 .. MaxMoves /\ untouched' \in BOOLEAN
  BY <1>0 DEF PlacedFrame
<1>7. /\ since' \in 0 .. CLIENT_FRAMES + 1 /\ g_pointerRead' \in BOOLEAN
      /\ frame' \in [placed : BOOLEAN, client : BOOLEAN, read : BOOLEAN]
  BY NewFrameType DEF PlacedFrame
<1>8. UNCHANGED <<min_x, range, vmware_mouse, guestVars, astray>>
  BY DEF PlacedFrame, NewFrame, rangeVars
<1>. QED
  BY <1>1, <1>2, <1>4, <1>5, <1>6, <1>7, <1>8 DEF PointerTypeOK, guestVars

\* The speeds a frame may have.
SpeedRange == Speeds \cup {-s : s \in Speeds} \cup {0}

LEMMA SpeedIsInt == \A speed \in SpeedRange : speed \in Int
  BY PointerConstants DEF SpeedRange

LEMMA SpeedFrameType ==
  ASSUME PointerTypeOK, NEW speed \in Int, SpeedFrame(speed) PROVE PointerTypeOK'
<1>0. /\ range \in Ranges /\ range \in Nat \ {0} /\ MaxMoves \in Nat
      /\ MOUSE_ABS_STEPS \in Nat \ {0} /\ at \in Int /\ x \in Int /\ moves \in 0 .. MaxMoves
      /\ min_x \in Lows \cup {0} /\ min_x \in Int
  BY PointerConstants, RangesArePixels DEF PointerTypeOK
<1>1. Steps(speed) \in Int
  <2>1. speed * MOUSE_ABS_STEPS \in Int
    BY <1>0
  <2>. QED
    BY <1>0, <2>1, QuotientIs DEF Steps
<1>2. at' \in 0 .. MOUSE_ABS_MAX
  <2>1. MOUSE_ABS_MAX \in Nat /\ at + Steps(speed) \in Int
    BY <1>0, <1>1 DEF MOUSE_ABS_MAX
  <2>. QED
    BY <2>1, Clamped DEF SpeedFrame
<1>3. x' \in Pixels
  <2>1. x + speed \in Int /\ x' = Within(x + speed, min_x, range)
    BY <1>0 DEF SpeedFrame
  <2>2. x' \in PixelsOf(min_x, range)
    BY <1>0, <2>1, WithinRange
  <2>. QED
    BY <1>0, <2>2, RangesArePixels
<1>4. moves' \in 0 .. MaxMoves
  BY <1>0 DEF SpeedFrame
<1>5. motion' \in BOOLEAN /\ movedSincePlaced' \in BOOLEAN
  BY DEF SpeedFrame, MouseMoves, PointerTypeOK
<1>6. UNCHANGED <<placeMark, g_pointerWire, untouched, flips>>
  BY DEF SpeedFrame
<1>7. /\ since' \in 0 .. CLIENT_FRAMES + 1 /\ g_pointerRead' \in BOOLEAN
      /\ frame' \in [placed : BOOLEAN, client : BOOLEAN, read : BOOLEAN]
  BY NewFrameType DEF SpeedFrame
<1>8. UNCHANGED <<min_x, range, vmware_mouse, guestVars, astray>>
  BY DEF SpeedFrame, NewFrame, rangeVars
<1>. QED
  BY <1>2, <1>3, <1>4, <1>5, <1>6, <1>7, <1>8 DEF PointerTypeOK, guestVars

\* The guest's calls of INT 10h and INT 33h.
CursorCall ==
    \/ \E r \in Ranges : NewVideoMode(r) \/ Mouse_Reset(r) \/ \E low \in Lows : SetRange(low, r)
    \/ \E pixel \in PixelsOf(min_x, range) : SetCursor(pixel)

LEMMA CursorCallType == ASSUME PointerTypeOK, CursorCall PROVE PointerTypeOK'
<1>0. /\ min_x \in Lows \cup {0} /\ range \in Ranges /\ x \in Pixels /\ x \in Int
      /\ untouched \in BOOLEAN
  BY RangesArePixels DEF PointerTypeOK
<1>1. OnlyCursor
  BY DEF CursorCall, NewVideoMode, Mouse_Reset, SetRange, SetCursor
<1>2. /\ min_x' \in Lows \cup {0} /\ range' \in Ranges /\ x' \in Pixels /\ untouched' \in BOOLEAN
  <2>1. ASSUME NEW r \in Ranges, NewVideoMode(r) PROVE <1>2!1
    BY <1>0, <2>1 DEF NewVideoMode
  <2>2. ASSUME NEW r \in Ranges, Mouse_Reset(r) PROVE <1>2!1
    <3>1. r \in Nat \ {0}
      BY PointerConstants
    <3>2. x' \in PixelsOf(0, r)
      BY <2>2, <3>1 DEF Mouse_Reset, PixelsOf
    <3>. QED
      BY <2>2, <3>2, RangesArePixels DEF Mouse_Reset
  <2>3. ASSUME NEW r \in Ranges, NEW low \in Lows, SetRange(low, r) PROVE <1>2!1
    <3>1. Within(x, low, r) \in PixelsOf(low, r)
      BY <1>0, PointerConstants, WithinRange
    <3>2. x' \in Pixels
      BY <1>0, <2>3, <3>1, RangesArePixels DEF SetRange
    <3>. QED
      BY <2>3, <3>2 DEF SetRange
  <2>4. ASSUME NEW pixel \in PixelsOf(min_x, range), SetCursor(pixel) PROVE <1>2!1
    BY <1>0, <2>4, RangesArePixels DEF SetCursor, rangeVars
  <2>. QED
    BY <2>1, <2>2, <2>3, <2>4 DEF CursorCall
<1>. QED
  BY <1>1, <1>2 DEF OnlyCursor, PointerTypeOK, portVars, clientVars, guestVars

LEMMA GuestType ==
  ASSUME PointerTypeOK, VMwareCommand \/ TakePacket \/ ChimeraPointerRead
  PROVE  PointerTypeOK'
<1>2. CASE VMwareCommand
  BY <1>2 DEF VMwareCommand, PointerTypeOK, portVars, clientVars, rangeVars, guestVars, ghostVars
<1>3. CASE TakePacket
  BY <1>3 DEF TakePacket, PointerTypeOK, portVars, clientVars, rangeVars
<1>4. CASE ChimeraPointerRead
  <2>1. /\ last' \in {g_pointerWire, last} /\ spot' \in {g_pointerWire.position, spot}
        /\ displaced' \in {FALSE, displaced}
    BY <1>4 DEF ChimeraPointerRead, ReaderActs, guestVars
  <2>2. g_pointerWire.position \in 0 .. MOUSE_ABS_MAX /\ MOUSE_ABS_MAX \in Int
    BY PointerConstants DEF PointerTypeOK, Wires, MOUSE_ABS_MAX
  <2>3. last'.position \in -1 .. MOUSE_ABS_MAX /\ spot' \in -1 .. MOUSE_ABS_MAX /\ displaced' \in BOOLEAN
    <3>1. g_pointerWire.position \in -1 .. MOUSE_ABS_MAX
      BY <2>2
    <3>2. /\ last.position \in -1 .. MOUSE_ABS_MAX /\ spot \in -1 .. MOUSE_ABS_MAX
          /\ displaced \in BOOLEAN
      BY DEF PointerTypeOK
    <3>3. last'.position \in -1 .. MOUSE_ABS_MAX
      <4>1. CASE last' = g_pointerWire
        BY <3>1, <4>1, Zenon
      <4>2. CASE last' = last
        BY <3>2, <4>2, Zenon
      <4>. QED
        BY <2>1, <4>1, <4>2
    <3>. QED
      BY <2>1, <3>1, <3>2, <3>3
  <2>4. since' \in 0 .. CLIENT_FRAMES + 1 /\ flips' \in 0 .. 2 /\ g_pointerRead' \in BOOLEAN
    BY <1>4, PointerConstants DEF ChimeraPointerRead
  <2>5. frame' \in [placed : BOOLEAN, client : BOOLEAN, read : BOOLEAN]
    BY <1>4 DEF ChimeraPointerRead, PointerTypeOK
  <2>6. astray' \in BOOLEAN
    BY <1>4 DEF ChimeraPointerRead, PointerTypeOK
  <2>7. UNCHANGED <<at, x, rangeVars, portVars, vmware_mouse, motion, moves, untouched>>
    BY <1>4 DEF ChimeraPointerRead
  <2>. QED
    BY <2>3, <2>4, <2>5, <2>6, <2>7 DEF PointerTypeOK, portVars, rangeVars
<1>. QED
  BY <1>2, <1>3, <1>4

LEMMA PointerNextIs ==
  PointerNext <=> \/ \E p \in Positions : PlacedFrame(p)
                  \/ \E speed \in SpeedRange : SpeedFrame(speed)
                  \/ CursorCall
                  \/ VMwareCommand \/ TakePacket \/ ChimeraPointerRead
  BY DEF PointerNext, SpeedRange, CursorCall

LEMMA PointerStepType == PointerTypeOK /\ [PointerNext]_pointerVars => PointerTypeOK'
<1>1. PointerTypeOK /\ UNCHANGED pointerVars => PointerTypeOK'
  BY DEF PointerTypeOK, pointerVars, portVars, clientVars, rangeVars, guestVars, ghostVars
<1>. QED
  BY <1>1, PlacedFrameType, SpeedFrameType, SpeedIsInt, CursorCallType, GuestType, PointerNextIs

THEOREM PointerTyped == PointerSpec => []PointerTypeOK
<1>. QED
  BY PointerInitType, PointerStepType, PTL DEF PointerSpec

----------------------------------------------------------------------------
(* The fraction and the pixel. *)

\* A value clipped to a range, and its multiple clipped to that of the range.
LEMMA ClampTimes ==
  ASSUME NEW v \in Int, NEW top \in Nat, NEW n \in Nat \ {0}
  PROVE  Clamp(v, top) * n = Clamp(v * n, top * n)
<1>1. CASE v < 0
  <2>1. v * n < 0
    BY <1>1
  <2>. QED
    BY <1>1, <2>1 DEF Clamp
<1>2. CASE v > top
  <2>1. (v - top) * n > 0
    BY <1>2
  <2>2. v * n > top * n /\ ~(v * n < 0) /\ v * n \in Int /\ top * n \in Int
    BY <1>2, <2>1
  <2>. QED
    BY <1>2, <2>2 DEF Clamp
<1>3. CASE v >= 0 /\ v <= top
  <2>1. (top - v) * n >= 0 /\ v * n >= 0
    BY <1>3
  <2>2. v * n <= top * n /\ v * n \in Int /\ top * n \in Int
    BY <1>3, <2>1
  <2>. QED
    BY <1>3, <2>1, <2>2 DEF Clamp
<1>. QED
  BY <1>1, <1>2, <1>3

\* Two values moved by as much, give or take less than R, and clipped each at its
\* own end of a line of length P, come no further apart than R more.
LEMMA ClippedApart ==
  ASSUME NEW P \in Int, NEW R \in Nat \ {0}, NEW S \in Nat \ {0}, S <= P, R <= P,
         NEW u \in 0 .. P - S, NEW v \in 0 .. P - R, NEW bound \in Nat, S <= bound,
         u - v <= bound, v - u <= bound,
         NEW a \in Int, NEW b \in Int, a - b < R, b - a < R
  PROVE  /\ Clamp(u + a, P - S) - Clamp(v + b, P - R) <= bound + R
         /\ Clamp(v + b, P - R) - Clamp(u + a, P - S) <= bound + R
  BY DEF Clamp

DriftInv == PointerTypeOK /\ DriftIsBounded

LEMMA SpeedDrifts ==
  ASSUME DriftInv, NEW speed \in Int, SpeedFrame(speed) PROVE DriftIsBounded'
<1> SUFFICES ASSUME untouched PROVE DriftIsBounded'
  BY DEF DriftIsBounded, SpeedFrame
<1> DEFINE S == MOUSE_ABS_STEPS
           R == range
           P == R * S
           q == Steps(speed)
           off == x - min_x
<1>0. /\ R \in Nat \ {0} /\ S \in Nat \ {0} /\ at \in 0 .. S - 1 /\ off \in 0 .. R - 1
      /\ x \in Int /\ min_x \in Int
      /\ moves \in Nat /\ range' = range /\ min_x' = min_x /\ untouched' = untouched
  <2>1. CursorInRange
    BY DEF DriftInv, DriftIsBounded
  <2>2. /\ R \in Nat \ {0} /\ S \in Nat \ {0} /\ at \in 0 .. S - 1 /\ x \in Int /\ min_x \in Int
        /\ moves \in Nat
    BY PointerConstants, RangesArePixels DEF DriftInv, PointerTypeOK, MOUSE_ABS_MAX
  <2>. QED
    BY <2>1, <2>2 DEF CursorInRange, PixelsOf, SpeedFrame, NewFrame, rangeVars
<1>a. x' - min_x = Clamp(off + speed, R - 1) /\ CursorInRange'
  <2>1. x' = Within(x + speed, min_x, range) /\ x + speed \in Int
    BY <1>0 DEF SpeedFrame
  <2>2. (x + speed) - min_x = off + speed
    BY <1>0
  <2>3. x' = min_x + Clamp(off + speed, R - 1) /\ Clamp(off + speed, R - 1) \in 0 .. R - 1
    <3>1. off + speed \in Int /\ R - 1 \in Nat
      BY <1>0
    <3>. QED
      BY <2>1, <2>2, <3>1, Clamped DEF Within
  <2> HIDE DEF off
  <2>4. x' - min_x = Clamp(off + speed, R - 1)
    BY <1>0, <2>3
  <2>. QED
    BY <1>0, <2>1, <2>4, WithinRange DEF CursorInRange
<1>b. Distance = off * S - at * R
  BY DEF Distance
<1> HIDE DEF off
<1>1. CASE speed = 0
  <2>1. q = 0
    BY <1>0, <1>1 DEF Steps, Quotient
  <2>2. at' = at /\ x' - min_x = off /\ moves' = moves
    BY <1>0, <1>1, <1>a, <2>1 DEF SpeedFrame, Clamp, MOUSE_ABS_MAX
  <2>3. Distance' = Distance
    BY <1>0, <1>b, <2>2 DEF Distance
  <2>. QED
    BY <1>0, <1>a, <2>2, <2>3 DEF DriftInv, DriftIsBounded
<1>2. CASE speed # 0
  <2> DEFINE u == off * S
             v == at * R
             a == speed * S
             b == q * R
             m == moves * R
  <2>1. /\ moves' = moves + 1
        /\ at' = Clamp(at + q, S - 1) /\ x' - min_x = Clamp(off + speed, R - 1)
    BY <1>2, <1>a DEF SpeedFrame, MOUSE_ABS_MAX
  <2>2. a \in Int
    BY <1>0
  <2>3. q \in Int /\ a - b < R /\ b - a < R
    <3>1. q = Quotient(a, R)
      BY DEF Steps
    <3> HIDE DEF a, q
    <3>. QED
      BY <1>0, <2>2, <3>1, QuotientIs
  <2> HIDE DEF q
  <2>4. /\ u \in Int /\ v \in Int /\ b \in Int /\ m \in Nat /\ P \in Int
        /\ u >= 0 /\ v >= 0 /\ u <= P - S /\ v <= P - R /\ S <= P /\ R <= P
    <3>1. u \in Nat /\ v \in Nat /\ b \in Int /\ m \in Nat /\ P \in Nat
      BY <1>0, <2>3
    <3>2. (R - 1 - off) * S >= 0 /\ (S - 1 - at) * R >= 0
      BY <1>0
    <3>3. (R - 1 - off) * S = P - S - u /\ (S - 1 - at) * R = P - R - v
      BY <1>0
    <3>4. (R - 1) * S >= 0 /\ (S - 1) * R >= 0
      BY <1>0
    <3>5. (R - 1) * S = P - S /\ (S - 1) * R = P - R
      BY <1>0
    <3> HIDE DEF u, v, b, m, P
    <3>. QED
      BY <1>0, <3>1, <3>2, <3>3, <3>4, <3>5
  <2>5. u - v <= S + m /\ v - u <= S + m
    <3>1. Distance <= S + m /\ -Distance <= S + m /\ Distance = u - v
      BY <1>b DEF DriftInv, DriftIsBounded
    <3> HIDE DEF u, v, m
    <3>. QED
      BY <1>0, <2>4, <3>1
  <2>6. (x' - min_x) * S = Clamp(u + a, P - S)
    <3>1. Clamp(off + speed, R - 1) * S = Clamp((off + speed) * S, (R - 1) * S)
      BY <1>0, ClampTimes
    <3>2. (off + speed) * S = u + a /\ (R - 1) * S = P - S
      BY <1>0
    <3>. QED
      BY <2>1, <3>1, <3>2
  <2>7. at' * R = Clamp(v + b, P - R)
    <3>1. Clamp(at + q, S - 1) * R = Clamp((at + q) * R, (S - 1) * R)
      BY <1>0, <2>3, ClampTimes
    <3>2. (at + q) * R = v + b /\ (S - 1) * R = P - R
      BY <1>0, <2>3
    <3>. QED
      BY <2>1, <3>1, <3>2
  <2> DEFINE fine == (x' - min_x) * S
             coarse == at' * R
             bound == S + m
             further == moves' * R
  <2>8. fine \in Int /\ coarse \in Int /\ further = m + R
    <3>1. x' - min_x \in Int /\ at' \in Int
      BY <2>1, <1>0, <2>3 DEF Clamp
    <3>. QED
      BY <1>0, <2>1, <3>1
  <2> HIDE DEF fine, coarse, u, v, a, b, m, P, S, R, further
  <2>9. bound \in Nat /\ S <= bound
    BY <1>0, <2>4
  <2>a. fine = Clamp(u + a, P - S) /\ coarse = Clamp(v + b, P - R)
    BY <2>6, <2>7 DEF fine, coarse
  <2> HIDE DEF bound
  <2>b. u \in 0 .. P - S /\ v \in 0 .. P - R
    BY <1>0, <2>4
  <2>b1. u - v <= bound /\ v - u <= bound
    BY <2>5 DEF bound
  <2>c. fine - coarse <= bound + R /\ coarse - fine <= bound + R
    BY <1>0, <2>2, <2>3, <2>4, <2>9, <2>a, <2>b, <2>b1, ClippedApart
  <2>d. fine - coarse <= S + further /\ -(fine - coarse) <= S + further
    BY <1>0, <2>4, <2>8, <2>c DEF bound
  <2>e. Distance' = fine - coarse
    BY <1>0 DEF Distance, fine, coarse, S, R
  <2>. QED
    BY <1>0, <1>a, <2>d, <2>e DEF DriftIsBounded, further, S, R
<1>. QED
  BY <1>1, <1>2

LEMMA PlacedDrifts ==
  ASSUME DriftInv, NEW p \in Positions, PlacedFrame(p) PROVE DriftIsBounded'
<1> DEFINE fine == Pixel(p) * MOUSE_ABS_STEPS
           coarse == p * range
           further == moves' * range
<1>0. /\ p \in 0 .. MOUSE_ABS_STEPS - 1 /\ range \in Ranges /\ range \in Nat \ {0}
      /\ MOUSE_ABS_STEPS \in Nat \ {0} /\ min_x \in Int
  BY PointerConstants DEF DriftInv, PointerTypeOK
<1>1. at' = p /\ x' = min_x + Pixel(p) /\ range' = range /\ min_x' = min_x /\ moves' = 0
  BY DEF PlacedFrame, NewFrame, rangeVars
<1>2. Pixel(p) \in 0 .. range - 1 /\ fine <= coarse /\ coarse < fine + MOUSE_ABS_STEPS
  BY <1>0, PixelIn
<1>3. fine \in Int /\ coarse \in Int /\ further = 0
  BY <1>0, <1>1, <1>2
<1>4. Distance' = fine - coarse /\ CursorInRange'
  <2>1. Pixel(p) \in Int /\ x' - min_x' = Pixel(p)
    BY <1>0, <1>1, <1>2
  <2>2. Distance' = fine - coarse
    BY <1>1, <2>1 DEF Distance
  <2>3. CursorInRange'
    BY <1>0, <1>1, <1>2 DEF CursorInRange, PixelsOf
  <2>. QED
    BY <2>2, <2>3
<1> HIDE DEF fine, coarse, further
<1>5. fine - coarse <= MOUSE_ABS_STEPS + further /\ -(fine - coarse) <= MOUSE_ABS_STEPS + further
  BY <1>0, <1>2, <1>3
<1>. QED
  BY <1>1, <1>4, <1>5 DEF DriftIsBounded, further

\* Where range, cursor and fraction stay, so does their distance.
LEMMA DriftKept ==
  ASSUME DriftIsBounded, UNCHANGED <<at, x, min_x, range, moves, untouched>> PROVE DriftIsBounded'
<1> DEFINE d == Distance
           m == moves * range
           in == CursorInRange
<1>1. d' = d /\ m' = m /\ in' = in
  BY DEF Distance, CursorInRange, PixelsOf
<1> HIDE DEF d, m, in
<1>2. /\ DriftIsBounded => (untouched => in /\ d <= MOUSE_ABS_STEPS + m /\ -d <= MOUSE_ABS_STEPS + m)
      /\ (untouched' => in' /\ d' <= MOUSE_ABS_STEPS + m' /\ -(d') <= MOUSE_ABS_STEPS + m') => DriftIsBounded'
  BY DEF DriftIsBounded, d, m, in
<1>. QED
  BY <1>1, <1>2

LEMMA CursorCallDrifts == ASSUME DriftInv, CursorCall PROVE DriftIsBounded'
<1>1. CASE untouched'
  <2>1. PICK pixel \in PixelsOf(min_x, range) : SetCursor(pixel)
    BY <1>1 DEF CursorCall, NewVideoMode, Mouse_Reset, SetRange
  <2>2. UNCHANGED <<at, x, min_x, range, moves, untouched>>
    BY <1>1, <2>1 DEF SetCursor, OnlyCursor, rangeVars, DriftInv, PointerTypeOK
  <2>. QED
    BY <2>2, DriftKept DEF DriftInv
<1>2. CASE ~untouched'
  BY <1>2 DEF DriftIsBounded
<1>. QED
  BY <1>1, <1>2

LEMMA DriftStep == DriftInv /\ [PointerNext]_pointerVars => DriftInv'
<1> SUFFICES ASSUME DriftInv, [PointerNext]_pointerVars PROVE DriftInv'
  OBVIOUS
<1>1. PointerTypeOK'
  BY PointerStepType DEF DriftInv
<1>2. CASE VMwareCommand \/ TakePacket \/ ChimeraPointerRead \/ UNCHANGED pointerVars
  <2>1. UNCHANGED <<at, x, min_x, range, moves, untouched>>
    BY <1>2 DEF VMwareCommand, TakePacket, ChimeraPointerRead, pointerVars, rangeVars, ghostVars
  <2>. QED
    BY <1>1, <2>1, DriftKept DEF DriftInv
<1>3. ASSUME NEW speed \in SpeedRange, SpeedFrame(speed) PROVE DriftIsBounded'
  BY <1>3, SpeedIsInt, SpeedDrifts
<1>4. ASSUME NEW p \in Positions, PlacedFrame(p) PROVE DriftIsBounded'
  BY <1>4, PlacedDrifts
<1>5. DriftIsBounded'
  BY <1>2, <1>3, <1>4, CursorCallDrifts, PointerNextIs DEF DriftInv
<1>. QED
  BY <1>1, <1>5 DEF DriftInv

LEMMA DriftInit == PointerInit => DriftInv
  BY PointerInitType DEF DriftInv, DriftIsBounded, PointerInit

\* The pointer stays on the screen as long as the guest lets it: the fraction is
\* always one of the screen, and the cursor, wherever a new range, a new mode or
\* the guest's own call left it, is in its range again from the next placement
\* until the guest's next call.
THEOREM PointerOnScreen ==
  PointerSpec => [](at \in 0 .. MOUSE_ABS_MAX /\ x \in Pixels /\ (untouched => CursorInRange))
<1>1. DriftInv => at \in 0 .. MOUSE_ABS_MAX /\ x \in Pixels /\ (untouched => CursorInRange)
  BY DEF DriftInv, PointerTypeOK, DriftIsBounded
<1>. QED
  BY <1>1, DriftInit, DriftStep, PTL DEF PointerSpec

\* However the pointer is placed and moved, as long as the guest sets neither
\* range nor cursor the driver's fraction and the guest's pixel stay within a
\* pixel and a step more for each speed.
THEOREM FractionKeepsToPixel == PointerSpec => []DriftIsBounded
<1>1. DriftInv => DriftIsBounded
  BY DEF DriftInv
<1>. QED
  BY <1>1, DriftInit, DriftStep, PTL DEF PointerSpec

----------------------------------------------------------------------------
(* The reader of the port. *)

\* What the mark tells: it has turned over as often as it was counted to, the
\* reader is where the value it read last says, and a packet that moved its
\* pointer since is one the next placement turns the mark over for.
MarkInv ==
    /\ PointerTypeOK
    /\ last.mark \in 0 .. 1
    /\ g_pointerWire.mark = placeMark
    /\ spot = last.position
    /\ flips = 0 => placeMark = last.mark
    /\ flips = 1 => placeMark # last.mark
    /\ motion /\ ~frame.placed => movedSincePlaced
    /\ frame.placed => ~movedSincePlaced /\ g_pointerWire.position = Even(at)
    /\ displaced /\ ~astray => movedSincePlaced \/ flips > 0
    /\ PlacedIsFollowed

LEMMA PlacedMark ==
  ASSUME MarkInv, NEW p \in Positions, PlacedFrame(p) PROVE MarkInv'
<1>1. PointerTypeOK'
  BY PlacedFrameType DEF MarkInv
<1>2. frame'.placed = TRUE /\ frame'.read = FALSE
  BY NewFrameType DEF PlacedFrame, MarkInv
<1>3. /\ movedSincePlaced' = FALSE /\ at' = p
      /\ placeMark' = IF movedSincePlaced THEN 1 - placeMark ELSE placeMark
      /\ flips' = IF movedSincePlaced /\ flips < 2 THEN flips + 1 ELSE flips
      /\ g_pointerWire' = [position |-> Even(p), mark |-> placeMark']
  BY DEF PlacedFrame, Place
<1>4. last' = last /\ spot' = spot /\ displaced' = displaced /\ astray' = astray
  BY DEF PlacedFrame, NewFrame, guestVars
<1>5. placeMark \in 0 .. 1 /\ last.mark \in 0 .. 1 /\ flips \in 0 .. 2
  BY DEF MarkInv, PointerTypeOK
<1>6. /\ g_pointerWire'.mark = placeMark' /\ g_pointerWire'.position = Even(at')
  BY <1>3
<1>7. (flips' = 0 => placeMark' = last.mark) /\ (flips' = 1 => placeMark' # last.mark)
  BY <1>3, <1>5 DEF MarkInv
<1>8. displaced /\ ~astray => flips' > 0
  BY <1>3, <1>5 DEF MarkInv
<1>9. PlacedIsFollowed'
  BY <1>2 DEF PlacedIsFollowed, PlacedIsRead
<1>. QED
  BY <1>1, <1>2, <1>3, <1>4, <1>5, <1>6, <1>7, <1>8, <1>9 DEF MarkInv, Even

LEMMA SpeedMark ==
  ASSUME MarkInv, NEW speed \in Int, SpeedFrame(speed) PROVE MarkInv'
<1>1. PointerTypeOK'
  BY SpeedFrameType DEF MarkInv
<1>2. frame'.placed = FALSE
  BY NewFrameType DEF SpeedFrame, MarkInv
<1>3. /\ movedSincePlaced' = (movedSincePlaced \/ speed # 0)
      /\ motion' => speed # 0
      /\ UNCHANGED <<placeMark, g_pointerWire, flips>>
  BY DEF SpeedFrame, MouseMoves
<1>4. last' = last /\ spot' = spot /\ displaced' = displaced /\ astray' = astray
  BY DEF SpeedFrame, NewFrame, guestVars
<1>5. PlacedIsFollowed'
  BY <1>2 DEF PlacedIsFollowed, PlacedIsRead
<1>. QED
  BY <1>1, <1>2, <1>3, <1>4, <1>5 DEF MarkInv

LEMMA ReadMark == ASSUME MarkInv, ChimeraPointerRead PROVE MarkInv'
<1>1. PointerTypeOK'
  BY GuestType DEF MarkInv
<1>2. /\ UNCHANGED <<at, movedSincePlaced, placeMark, g_pointerWire, motion>>
      /\ flips' = 0
      /\ astray' = IF g_pointerWire # last THEN FALSE ELSE astray \/ flips > 1
      /\ frame'.placed = frame.placed
  BY DEF ChimeraPointerRead, portVars, MarkInv, PointerTypeOK
<1>3. placeMark \in 0 .. 1 /\ last.mark \in 0 .. 1 /\ flips \in 0 .. 2
      /\ g_pointerWire.mark = placeMark
  BY DEF MarkInv, PointerTypeOK
<1>4. /\ last'.mark = placeMark /\ spot' = last'.position
      /\ frame.placed => last'.position = Even(at)
      /\ displaced' /\ ~astray' => movedSincePlaced
  <2>1. CASE g_pointerWire # last
    <3>1. last' = g_pointerWire /\ spot' = g_pointerWire.position /\ displaced' = FALSE
      BY <2>1 DEF ChimeraPointerRead, ReaderActs
    <3>. QED
      BY <3>1, <1>3 DEF MarkInv
  <2>2. CASE g_pointerWire = last
    <3>1. last' = last /\ spot' = spot /\ displaced' = displaced
      BY <2>2 DEF ChimeraPointerRead, ReaderActs, guestVars
    <3>2. last.mark = placeMark /\ flips # 1
      BY <2>2, <1>3 DEF MarkInv
    <3>3. astray' = (astray \/ flips > 1)
      BY <1>2, <2>2
    <3>4. ASSUME displaced', ~astray' PROVE movedSincePlaced
      <4>1. displaced /\ ~astray /\ ~(flips > 1)
        BY <3>1, <3>3, <3>4, Zenon
      <4>2. movedSincePlaced \/ flips > 0
        BY <4>1, Zenon DEF MarkInv
      <4>3. ~(flips > 0)
        BY <1>3, <3>2, <4>1
      <4>. QED
        BY <4>2, <4>3
    <3>5. displaced' /\ ~astray' => movedSincePlaced
      BY <3>4
    <3>. QED
      BY <2>2, <3>1, <3>2, <3>5 DEF MarkInv
  <2>. QED
    BY <2>1, <2>2
<1>5. PlacedIsFollowed'
  <2>1. SUFFICES ASSUME ~astray', frame'.placed PROVE ~displaced' /\ spot' = Even(at)'
    BY DEF PlacedIsFollowed, PlacedIsRead
  <2>2. ~movedSincePlaced
    BY <1>2, <2>1 DEF MarkInv
  <2>3. ~displaced' /\ spot' = Even(at)
    BY <1>2, <1>4, <2>1, <2>2
  <2>. QED
    BY <1>2, <2>3 DEF Even
<1>. QED
  BY <1>1, <1>2, <1>3, <1>4, <1>5 DEF MarkInv, Even

LEMMA GuestMark ==
  ASSUME MarkInv, CursorCall \/ VMwareCommand \/ TakePacket PROVE MarkInv'
<1>1. PointerTypeOK'
  BY CursorCallType, GuestType DEF MarkInv
<1>a. CursorCall => OnlyCursor
  BY DEF CursorCall, NewVideoMode, Mouse_Reset, SetRange, SetCursor
<1>2. UNCHANGED <<at, movedSincePlaced, placeMark, g_pointerWire, last, spot, flips, frame>>
  BY <1>a DEF OnlyCursor, VMwareCommand, TakePacket, portVars, guestVars, ghostVars
<1>3. CASE TakePacket
  <2>1. motion /\ motion' = FALSE /\ displaced' = TRUE /\ astray' = (astray \/ frame.placed)
    BY <1>3 DEF TakePacket
  <2>2. ~astray' => movedSincePlaced /\ ~frame.placed
    BY <2>1 DEF MarkInv
  <2>3. PlacedIsFollowed'
    BY <1>2, <2>2 DEF PlacedIsFollowed, PlacedIsRead
  <2>. QED
    BY <1>1, <1>2, <2>1, <2>2, <2>3 DEF MarkInv, Even
<1>4. CASE ~TakePacket
  <2>1. UNCHANGED <<motion, displaced, astray>>
    BY <1>4, <1>a DEF OnlyCursor, VMwareCommand, guestVars, ghostVars
  <2>2. PlacedIsFollowed'
    BY <1>2, <2>1 DEF PlacedIsFollowed, PlacedIsRead, MarkInv, Even
  <2>. QED
    BY <1>1, <1>2, <2>1, <2>2 DEF MarkInv, Even
<1>. QED
  BY <1>3, <1>4

LEMMA MarkInit == PointerInit => MarkInv
<1> SUFFICES ASSUME PointerInit PROVE MarkInv
  OBVIOUS
<1>1. last.mark = 0 /\ last.position = spot /\ g_pointerWire.mark = placeMark /\ placeMark = 0
  BY DEF PointerInit
<1>2. ~frame.placed /\ ~motion /\ ~displaced /\ flips = 0
  BY DEF PointerInit
<1>. QED
  BY <1>1, <1>2, PointerInitType DEF MarkInv, PlacedIsFollowed, PlacedIsRead

LEMMA MarkStep == MarkInv /\ [PointerNext]_pointerVars => MarkInv'
<1> SUFFICES ASSUME MarkInv, [PointerNext]_pointerVars PROVE MarkInv'
  OBVIOUS
<1>1. CASE UNCHANGED pointerVars
  BY <1>1, PointerStepType DEF pointerVars, portVars, clientVars, guestVars, ghostVars, MarkInv,
     PlacedIsFollowed, PlacedIsRead, Even
<1>2. ASSUME NEW speed \in SpeedRange, SpeedFrame(speed) PROVE MarkInv'
  BY <1>2, SpeedIsInt, SpeedMark
<1>3. CASE PointerNext
  BY <1>2, <1>3, PlacedMark, ReadMark, GuestMark, PointerNextIs
<1>. QED
  BY <1>1, <1>3

\* For any screen, ranges and reader: a pointer placed for a reader is where it
\* was put once that has read, unless it slept through two turns of the mark or
\* a packet of a placement reached it afterwards.
THEOREM ReaderFollows == PointerSpec => []PlacedIsFollowed
<1>1. MarkInv => PlacedIsFollowed
  BY DEF MarkInv
<1>. QED
  BY <1>1, MarkInit, MarkStep, PTL DEF PointerSpec

----------------------------------------------------------------------------
(* The picture. *)

\* The frame that is open, and the rows it has drawn.
FrameInv ==
    /\ updating => lines_done < lines_total
    /\ updating <=> drawLine # "empty"
    /\ drawLine = "clear" => clearCache
    /\ latched => beam = lines_total

\* The rows RENDER has: what the cache holds is what the surface shows, of every
\* row unless all are still to be drawn, and then of those that have been.
RowsInv ==
    ~cut => \A row \in Rows :
        ~clearCache \/ (drawLine = "clear" /\ row < lines_done) => surface[row] = cache[row]

\* The host has what the surface shows, unless a frame has yet to end or rows
\* have been drawn behind its back.
HostInv == ~cut /\ render /\ ~clearCache /\ (updating => ~outWrite) => videoBuffer = surface

\* A frame in which nothing but the beam acts.
QuietInv ==
    quiet >= 1 =>
        /\ ~killed
        /\ updating <=> lines_done < lines_total
        /\ clearCache => drawLine = "clear"
        /\ ~vga_render_on_demand => lines_done = beam
        /\ latched /\ vga_render_on_demand => lines_done = lines_total
        /\ \A row \in Rows : row < lines_done => cache[row] = shown

\* The frames after it have nothing left to draw.
CaughtUp ==
    quiet >= 2 =>
        /\ ~clearCache /\ (updating => ~outWrite)
        /\ \A row \in Rows : cache[row] = shown

\* Frames that wait for changes are left out: they may end without a row drawn.
PictureInv ==
    /\ PictureTypeOK
    /\ ~vga_render_wait_for_changes => FrameInv /\ RowsInv /\ HostInv /\ QuietInv /\ CaughtUp

LEMMA PictureConstants ==
  /\ lines_total \in Nat \ {0} /\ Blank \notin Contents
  /\ \A row \in Rows : row \in Nat /\ row < lines_total
  BY PictureAssumption DEF Rows

LEMMA PictureInitInv == PictureInit => PictureInv
<1> SUFFICES ASSUME PictureInit PROVE PictureInv
  OBVIOUS
<1>1. PictureTypeOK
  <2>1. surface \in [Rows -> Contents \cup {Blank}] /\ videoBuffer \in [Rows -> Contents \cup {Blank}]
    BY DEF PictureInit, All
  <2>2. beam \in 0 .. lines_total /\ lines_done \in 0 .. lines_total /\ hsync_events \in Nat /\ quiet \in 0 .. 3
    BY PictureConstants DEF PictureInit
  <2>. QED
    BY <2>1, <2>2 DEF PictureInit, ChooseRenderOnDemand, PictureTypeOK
<1>2. FrameInv
  BY PictureConstants DEF PictureInit, FrameInv
<1>3. RowsInv /\ HostInv
  BY PictureConstants DEF PictureInit, RowsInv, HostInv
<1>4. QuietInv /\ CaughtUp
  BY PictureConstants DEF PictureInit, QuietInv, CaughtUp
<1>. QED
  BY <1>1, <1>2, <1>3, <1>4 DEF PictureInv

\* The rows after lines have been drawn: those of them the frame has passed show
\* what the guest shows, unless it draws nothing.
LEMMA DrawnRows ==
  ASSUME PictureTypeOK, NEW to \in lines_done .. lines_total
  PROVE  /\ With(cache, to) \in [Rows -> Contents]
         /\ With(surface, to) \in [Rows -> Contents \cup {Blank}]
         /\ Drawn(to) \subseteq Rows
         /\ \A row \in Rows : row \in Drawn(to) =>
              With(cache, to)[row] = shown /\ With(surface, to)[row] = shown
         /\ \A row \in Rows : row \notin Drawn(to) =>
              With(cache, to)[row] = cache[row] /\ With(surface, to)[row] = surface[row]
         /\ Drawn(to) = {} => With(cache, to) = cache /\ With(surface, to) = surface
         /\ Wrote(to) \in BOOLEAN
         /\ ~Wrote(to) => Drawn(to) = {} /\ ~outWrite
<1>1. lines_done \in Nat /\ to \in Nat /\ to <= lines_total /\ Drawn(to) \subseteq Rows
  BY PictureConstants DEF PictureTypeOK, Drawn, Rows
<1>. QED
  BY <1>1 DEF PictureTypeOK, With, Wrote

\* The types after lines have been drawn.
LEMMA DrawLinesType ==
  ASSUME PictureTypeOK, NEW to \in lines_done .. lines_total, DrawLines(to)
  PROVE  /\ lines_done' \in 0 .. lines_total /\ hsync_events' \in Nat
         /\ cache' \in [Rows -> Contents] /\ surface' \in [Rows -> Contents \cup {Blank}]
         /\ videoBuffer' \in [Rows -> Contents \cup {Blank}]
         /\ outWrite' \in BOOLEAN /\ clearCache' \in BOOLEAN /\ updating' \in BOOLEAN
         /\ drawLine' \in {"empty", "clear", "lines"}
         /\ MustComplete(to) \in BOOLEAN
<1>0. lines_done \in 0 .. lines_total /\ hsync_events \in Nat /\ lines_total \in Nat
  BY PictureConstants DEF PictureTypeOK
<1>1. to \in 0 .. lines_total /\ hsync_events + (to - lines_done) \in Nat
  BY <1>0
<1>2. lines_done' = to /\ hsync_events' = hsync_events + (to - lines_done)
  BY DEF DrawLines
<1>3. cache' \in [Rows -> Contents] /\ surface' \in [Rows -> Contents \cup {Blank}] /\ outWrite' \in BOOLEAN
  BY DrawnRows DEF DrawLines
<1>4. videoBuffer' \in {With(surface, to), videoBuffer}
  BY DEF DrawLines, Copied
<1>5. clearCache' \in BOOLEAN /\ updating' \in BOOLEAN /\ drawLine' \in {"empty", "clear", "lines"}
  BY DEF DrawLines, Cleared, PictureTypeOK
<1>6. MustComplete(to) \in BOOLEAN
  BY DEF MustComplete, PictureTypeOK
<1>. QED
  BY <1>1, <1>2, <1>3, <1>4, <1>5, <1>6, DrawnRows DEF PictureTypeOK

\* Drawing keeps what is known of the open frame.
LEMMA DrawLinesFrame ==
  ASSUME PictureTypeOK, FrameInv, NEW to \in lines_done .. lines_total, DrawLines(to),
         latched' => beam' = lines_total
  PROVE  FrameInv'
<1> DEFINE whole == to = lines_total /\ to > lines_done
<1>0. lines_done \in Nat /\ lines_total \in Nat \ {0} /\ to \in Nat /\ lines_done <= to /\ to <= lines_total
  BY PictureConstants DEF PictureTypeOK
<1>1. /\ lines_done' = to
      /\ whole => drawLine' = "empty" /\ ~updating'
      /\ ~whole => clearCache' = clearCache /\ drawLine' = drawLine /\ (updating' <=> updating)
  BY DEF DrawLines
<1>2. CASE whole
  BY <1>0, <1>1, <1>2 DEF FrameInv
<1>3. CASE ~whole
  <2>1. updating => to < lines_total
    BY <1>0, <1>3 DEF FrameInv
  <2>. QED
    BY <1>0, <1>1, <1>3, <2>1 DEF FrameInv
<1>. QED
  BY <1>2, <1>3

\* Drawing keeps what is known of cache, surface and buffer.
LEMMA DrawLinesRows ==
  ASSUME PictureTypeOK, FrameInv, RowsInv, HostInv, NEW to \in lines_done .. lines_total,
         DrawLines(to), UNCHANGED <<cut, render>>
  PROVE  RowsInv' /\ HostInv'
<1> DEFINE whole == to = lines_total /\ to > lines_done
<1>0. lines_done \in Nat /\ lines_total \in Nat \ {0} /\ to \in Nat /\ lines_done <= to /\ to <= lines_total
  BY PictureConstants DEF PictureTypeOK
<1>1. /\ lines_done' = to /\ cache' = With(cache, to) /\ surface' = With(surface, to)
      /\ outWrite' = Wrote(to)
      /\ whole => /\ videoBuffer' = Copied(to) /\ clearCache' = Cleared(FALSE)
                  /\ drawLine' = "empty" /\ ~updating'
      /\ ~whole => videoBuffer' = videoBuffer /\ clearCache' = clearCache /\ drawLine' = drawLine
      /\ ~whole => (updating' <=> updating)
  BY DEF DrawLines
<1>2. /\ \A row \in Rows : row \in Drawn(to) => cache'[row] = shown /\ surface'[row] = shown
      /\ \A row \in Rows : row \notin Drawn(to) => cache'[row] = cache[row] /\ surface'[row] = surface[row]
      /\ Drawn(to) = {} => cache' = cache /\ surface' = surface
      /\ ~Wrote(to) => Drawn(to) = {} /\ ~outWrite
      /\ Drawn(to) \subseteq Rows
  BY <1>1, DrawnRows
<1>3. drawLine = "clear" => Drawn(to) = lines_done .. to - 1
  BY DEF Drawn
<1>4. ~updating => Drawn(to) = {} /\ Cleared(FALSE) = clearCache /\ Copied(to) = videoBuffer
  BY Zenon DEF Drawn, FrameInv, Cleared, Copied, PictureTypeOK
<1>a. ~updating => drawLine = "empty"
  BY DEF FrameInv
<1>b. drawLine = "empty" => Drawn(to) = {}
  BY DEF Drawn
<1> HIDE DEF whole
<1>5. RowsInv'
  <2> SUFFICES ASSUME ~cut, NEW row \in Rows,
                      ~clearCache' \/ (drawLine' = "clear" /\ row < lines_done')
               PROVE  surface'[row] = cache'[row]
    BY DEF RowsInv
  <2>1. CASE row \in Drawn(to)
    BY <1>2, <2>1
  <2>2. CASE row \notin Drawn(to)
    <3>1. SUFFICES surface[row] = cache[row]
      BY <1>2, <2>2
    <3>2. CASE ~clearCache
      BY <3>2 DEF RowsInv
    <3>3. CASE clearCache
      <4>1. drawLine = "clear" /\ row < to
        <5>1. CASE whole
          <6>1. clearCache' = Cleared(FALSE) /\ to = lines_total /\ drawLine' = "empty"
            BY <1>1, <5>1 DEF whole
          <6>2. drawLine = "clear"
            BY <3>3, <6>1 DEF Cleared
          <6>. QED
            BY <6>1, <6>2, PictureConstants
        <5>2. CASE ~whole
          BY <1>1, <3>3, <5>2
        <5>. QED
          BY <5>1, <5>2
      <4>2. row < lines_done
        <5>1. row \in Nat /\ row \notin lines_done .. to - 1
          BY <1>3, <2>2, <4>1, PictureConstants
        <5>. QED
          BY <1>0, <4>1, <5>1
      <4>. QED
        BY <4>1, <4>2 DEF RowsInv
    <3>. QED
      BY <3>2, <3>3
  <2>. QED
    BY <2>1, <2>2
<1>6. HostInv'
  <2> SUFFICES ASSUME ~cut, render, ~clearCache', updating' => ~outWrite'
               PROVE  videoBuffer' = surface'
    BY DEF HostInv
  <2>1. CASE ~updating
    <3>1. surface' = surface /\ videoBuffer' = videoBuffer /\ clearCache' = clearCache
      BY <1>1, <1>2, <1>4, <1>a, <1>b, <2>1
    <3>. QED
      BY <2>1, <3>1 DEF HostInv
  <2>2. CASE updating /\ whole
    <3>1. videoBuffer' = IF Wrote(to) THEN surface' ELSE videoBuffer
      BY <1>1, <2>2 DEF Copied
    <3>2. CASE Wrote(to)
      BY <3>1, <3>2
    <3>3. CASE ~Wrote(to)
      <4>1. Drawn(to) = {} /\ ~outWrite /\ surface' = surface /\ videoBuffer' = videoBuffer
        BY <1>2, <3>1, <3>3
      <4>2. drawLine # "clear"
        <5>1. lines_done \in lines_done .. to - 1
          BY <1>0, <2>2 DEF whole
        <5>. QED
          BY <1>3, <4>1, <5>1
      <4>3. ~clearCache
        BY <1>1, <2>2, <4>2 DEF Cleared
      <4>. QED
        BY <4>1, <4>3 DEF HostInv
    <3>. QED
      BY <3>2, <3>3
  <2>3. CASE updating /\ ~whole
    <3>1. updating' /\ ~Wrote(to) /\ clearCache' = clearCache /\ videoBuffer' = videoBuffer
      BY <1>1, <2>3
    <3>2. Drawn(to) = {} /\ ~outWrite /\ surface' = surface
      BY <1>2, <3>1
    <3>. QED
      BY <3>1, <3>2 DEF HostInv
  <2>. QED
    BY <2>1, <2>2, <2>3
<1>. QED
  BY <1>5, <1>6

\* Drawing in a quiet frame.
LEMMA DrawLinesQuiet ==
  ASSUME PictureTypeOK, FrameInv, QuietInv, CaughtUp, NEW to \in lines_done .. lines_total,
         DrawLines(to), UNCHANGED <<shown, quiet>>, quiet >= 1
  PROVE  /\ updating' <=> to < lines_total
         /\ clearCache' => drawLine' = "clear"
         /\ \A row \in Rows : row < to => cache'[row] = shown
         /\ CaughtUp'
<1> DEFINE whole == to = lines_total /\ to > lines_done
<1>0. lines_done \in Nat /\ lines_total \in Nat \ {0} /\ to \in Nat /\ lines_done <= to /\ to <= lines_total
      /\ updating \in BOOLEAN
  BY PictureConstants DEF PictureTypeOK
<1>1. /\ cache' = With(cache, to) /\ surface' = With(surface, to) /\ outWrite' = Wrote(to)
      /\ whole => clearCache' = Cleared(FALSE) /\ ~updating'
      /\ ~whole => clearCache' = clearCache /\ drawLine' = drawLine /\ (updating' <=> updating)
  BY DEF DrawLines
<1>2. /\ \A row \in Rows : row \in Drawn(to) => cache'[row] = shown
      /\ \A row \in Rows : row \notin Drawn(to) => cache'[row] = cache[row]
      /\ Drawn(to) = {} => Wrote(to) = outWrite
  BY <1>1, DrawnRows DEF Wrote, PictureTypeOK
<1>3. /\ updating <=> lines_done < lines_total
      /\ clearCache => drawLine = "clear"
      /\ \A row \in Rows : row < lines_done => cache[row] = shown
  BY DEF QuietInv
<1>4. updating' <=> to < lines_total
  <2>1. CASE whole
    BY <1>0, <1>1, <2>1
  <2>2. CASE ~whole
    <3>1. lines_done < lines_total <=> to < lines_total
      BY <1>0, <2>2
    <3>. QED
      BY <1>1, <1>3, <2>2, <3>1
  <2>. QED
    BY <2>1, <2>2
<1>5. whole => ~clearCache'
  <2>1. whole => updating
    BY <1>0, <1>3
  <2>. QED
    BY <1>1, <1>3, <2>1 DEF Cleared
<1>6. clearCache' => drawLine' = "clear"
  BY <1>1, <1>3, <1>5
<1>7. ASSUME NEW row \in Rows, row < to PROVE cache'[row] = shown
  <2>1. row \in Nat
    BY PictureConstants
  <2>2. CASE row < lines_done
    BY <1>2, <1>3, <2>2
  <2>3. CASE ~(row < lines_done)
    <3>1. row \in lines_done .. to - 1 /\ drawLine # "empty"
      BY <1>0, <1>3, <1>7, <2>1, <2>3 DEF FrameInv
    <3>2. drawLine \in {"clear", "lines"}
      BY <3>1 DEF PictureTypeOK
    <3>3. row \in Drawn(to) \/ cache[row] = shown
      BY <3>1, <3>2 DEF Drawn
    <3>. QED
      BY <1>2, <3>3
  <2>. QED
    BY <2>2, <2>3
<1> HIDE DEF whole
<1>8. CaughtUp'
  <2> SUFFICES ASSUME quiet >= 2
               PROVE  /\ ~clearCache' /\ (updating' => ~outWrite')
                      /\ \A row \in Rows : cache'[row] = shown
    BY DEF CaughtUp
  <2>1. ~clearCache /\ (updating => ~outWrite) /\ \A row \in Rows : cache[row] = shown
    BY DEF CaughtUp
  <2>2. drawLine # "clear"
    BY <2>1 DEF FrameInv
  <2>3. Drawn(to) = {}
    <3>1. Drawn(to) \subseteq Rows
      BY DrawnRows
    <3>. QED
      BY <2>1, <2>2, <3>1 DEF Drawn
  <2>4. \A row \in Rows : cache'[row] = shown
    BY <1>2, <2>1, <2>3
  <2>5. ~clearCache'
    BY <1>1, <1>5, <2>1
  <2>6. updating' => ~outWrite'
    BY <1>1, <1>2, <2>1, <2>3
  <2>. QED
    BY <2>4, <2>5, <2>6
<1>. QED
  BY <1>4, <1>6, <1>7, <1>8

LEMMA SingleLineStep == ASSUME PictureInv, VGA_DrawSingleLine PROVE PictureInv'
<1> DEFINE draws == ~vga_render_on_demand /\ ~killed /\ lines_done < lines_total
<1>0. /\ PictureTypeOK /\ lines_total \in Nat \ {0} /\ beam \in Nat /\ lines_done \in Nat
      /\ lines_done <= lines_total
  BY PictureConstants DEF PictureInv, PictureTypeOK
<1>1. /\ beam < lines_total /\ beam' = beam + 1
      /\ UNCHANGED <<settingVars, shown, latched, killed, must_draw_again, render, quiet, cut>>
      /\ draws => DrawLines(lines_done + 1) /\ must_complete_frame' = MustComplete(lines_done + 1)
      /\ ~draws => UNCHANGED <<lines_done, hsync_events, rowVars, frameVars, videoBuffer, must_complete_frame>>
  BY DEF VGA_DrawSingleLine
<1> HIDE DEF draws
<1>2. beam' \in 0 .. lines_total
  BY <1>0, <1>1
<1>3. CASE draws
  <2>1. lines_done + 1 \in lines_done .. lines_total
    BY <1>0, <1>3 DEF draws
  <2>2. DrawLines(lines_done + 1) /\ must_complete_frame' = MustComplete(lines_done + 1)
    BY <1>1, <1>3
  <2>3. PictureTypeOK'
    BY <1>0, <1>1, <1>2, <2>1, <2>2, DrawLinesType DEF PictureTypeOK, settingVars
  <2>4. ASSUME ~vga_render_wait_for_changes
        PROVE  FrameInv' /\ RowsInv' /\ HostInv' /\ QuietInv' /\ CaughtUp'
    <3>1. FrameInv /\ RowsInv /\ HostInv /\ QuietInv /\ CaughtUp
      BY <2>4 DEF PictureInv
    <3>2. ~latched'
      BY <1>0, <1>1, <3>1 DEF FrameInv
    <3>3. FrameInv' /\ RowsInv' /\ HostInv'
      BY <1>0, <1>1, <2>1, <2>2, <3>1, <3>2, DrawLinesFrame, DrawLinesRows
    <3>4. ASSUME quiet >= 1
          PROVE  /\ updating' <=> lines_done + 1 < lines_total
                 /\ clearCache' => drawLine' = "clear"
                 /\ \A row \in Rows : row < lines_done + 1 => cache'[row] = shown
                 /\ CaughtUp'
      BY <1>0, <1>1, <2>1, <2>2, <3>1, <3>4, DrawLinesQuiet
    <3>5. lines_done' = lines_done + 1
      BY <2>2 DEF DrawLines
    <3>6. quiet >= 1 => QuietInv' /\ CaughtUp'
      BY <1>1, <1>3, <3>1, <3>2, <3>4, <3>5 DEF QuietInv, settingVars, draws
    <3>7. quiet \in 0 .. 3 /\ quiet' = quiet
      BY <1>0, <1>1 DEF PictureTypeOK
    <3>8. ~(quiet >= 1) => QuietInv' /\ CaughtUp'
      BY <3>7 DEF QuietInv, CaughtUp
    <3>. QED
      BY <3>3, <3>6, <3>8
  <2>. QED
    BY <1>1, <2>3, <2>4 DEF PictureInv, settingVars
<1>4. CASE ~draws
  <2>1. UNCHANGED <<lines_done, hsync_events, rowVars, frameVars, videoBuffer, must_complete_frame>>
    BY <1>1, <1>4
  <2>2. PictureTypeOK'
    BY <1>0, <1>1, <1>2, <2>1 DEF PictureTypeOK, settingVars, rowVars, frameVars
  <2>3. ASSUME ~vga_render_wait_for_changes
        PROVE  FrameInv' /\ RowsInv' /\ HostInv' /\ QuietInv' /\ CaughtUp'
    <3>1. FrameInv /\ RowsInv /\ HostInv /\ QuietInv /\ CaughtUp
      BY <2>3 DEF PictureInv
    <3>2. ~latched
      BY <1>0, <1>1, <3>1 DEF FrameInv
    <3>3. FrameInv' /\ RowsInv' /\ HostInv' /\ CaughtUp'
      BY <1>1, <2>1, <3>1, <3>2 DEF FrameInv, RowsInv, HostInv, CaughtUp, rowVars, frameVars
    <3>4. quiet >= 1 => vga_render_on_demand
      BY <1>0, <1>1, <1>4, <3>1 DEF QuietInv, draws
    <3>5. QuietInv'
      BY <1>1, <2>1, <3>1, <3>2, <3>4 DEF QuietInv, rowVars, frameVars, settingVars
    <3>. QED
      BY <3>3, <3>5
  <2>. QED
    BY <1>1, <2>2, <2>3 DEF PictureInv, settingVars
<1>. QED
  BY <1>3, <1>4

LEMMA CompleteFrameStep == ASSUME PictureInv, OnDemandCompleteFrame PROVE PictureInv'
<1> DEFINE complete == vga_render_on_demand /\ (must_complete_frame \/ ~vga_render_wait_for_changes)
           to == IF complete THEN lines_total ELSE lines_done
<1>0. /\ PictureTypeOK /\ lines_total \in Nat \ {0} /\ lines_done \in Nat
      /\ lines_done <= lines_total
  BY PictureConstants DEF PictureInv, PictureTypeOK
<1>1. /\ beam = lines_total /\ latched' = TRUE /\ DrawLines(to)
      /\ must_complete_frame' = (MustComplete(to) \/ must_draw_again)
      /\ must_draw_again' = FALSE
      /\ UNCHANGED <<settingVars, shown, beam, killed, render, quiet, cut>> /\ ~latched
  BY DEF OnDemandCompleteFrame
<1>2. to \in lines_done .. lines_total /\ lines_done' = to
  BY <1>0, <1>1 DEF DrawLines
<1>3. ~vga_render_wait_for_changes => to = IF vga_render_on_demand THEN lines_total ELSE lines_done
  OBVIOUS
<1> HIDE DEF to
<1>4. PictureTypeOK'
  BY <1>0, <1>1, <1>2, DrawLinesType DEF PictureTypeOK, settingVars
<1>5. ASSUME ~vga_render_wait_for_changes, FrameInv, RowsInv, HostInv
      PROVE  FrameInv' /\ RowsInv' /\ HostInv'
  <2>1. RowsInv' /\ HostInv'
    BY <1>0, <1>1, <1>2, <1>5, DrawLinesRows
  <2>2. FrameInv'
    BY <1>0, <1>1, <1>2, <1>5, DrawLinesFrame DEF FrameInv
  <2>. QED
    BY <2>1, <2>2
<1>6. ASSUME ~vga_render_wait_for_changes, FrameInv, QuietInv, CaughtUp
      PROVE  QuietInv' /\ CaughtUp'
  <2>1. quiet \in 0 .. 3 /\ quiet' = quiet
    BY <1>0, <1>1 DEF PictureTypeOK
  <2>2. CASE ~(quiet >= 1)
    BY <2>1, <2>2 DEF QuietInv, CaughtUp
  <2>3. CASE quiet >= 1
    <3>1. /\ updating' <=> to < lines_total
          /\ clearCache' => drawLine' = "clear"
          /\ \A row \in Rows : row < to => cache'[row] = shown
          /\ CaughtUp'
      BY <1>0, <1>1, <1>2, <1>6, <2>3, DrawLinesQuiet
    <3>. QED
      BY <1>1, <1>2, <1>3, <1>6, <2>3, <3>1 DEF QuietInv, settingVars
  <2>. QED
    BY <2>2, <2>3
<1>. QED
  BY <1>1, <1>4, <1>5, <1>6 DEF PictureInv, settingVars

\* The open frame is copied out as it is.
LEMMA CopiedAsIs ==
  ASSUME PictureTypeOK
  PROVE  /\ Copied(lines_done) = IF updating /\ outWrite /\ render THEN surface ELSE videoBuffer
         /\ Copied(lines_done) \in [Rows -> Contents \cup {Blank}]
<1>1. lines_done \in lines_done .. lines_total /\ lines_done \in Nat
  BY PictureConstants DEF PictureTypeOK
<1>2. Drawn(lines_done) = {}
  <2>1. lines_done .. lines_done - 1 = {}
    BY <1>1
  <2>. QED
    BY <2>1 DEF Drawn
<1>3. With(surface, lines_done) = surface /\ Wrote(lines_done) = outWrite
  BY <1>1, <1>2, DrawnRows DEF Wrote, PictureTypeOK
<1>. QED
  BY <1>3 DEF Copied, PictureTypeOK

LEMMA VerticalTimerStep == ASSUME PictureInv, VGA_VerticalTimer PROVE PictureInv'
<1> DEFINE abort == lines_done < lines_total /\ ~(vga_render_wait_for_changes /\ lines_done = 0)
<1>0. /\ PictureTypeOK /\ lines_total \in Nat \ {0} /\ lines_done \in Nat
      /\ lines_done <= lines_total /\ quiet \in 0 .. 3
  BY PictureConstants DEF PictureInv, PictureTypeOK
<1>1. /\ beam = lines_total /\ latched
      /\ videoBuffer' = Copied(lines_done)
      /\ clearCache' = Cleared(abort)
      /\ updating' = TRUE /\ outWrite' = clearCache'
      /\ drawLine' = IF clearCache' THEN "clear" ELSE "lines"
      /\ must_complete_frame' = (must_complete_frame \/ clearCache')
      /\ lines_done' = 0 /\ hsync_events' = 0 /\ beam' = 0 /\ latched' = FALSE /\ killed' = FALSE
      /\ quiet' = IF quiet < 3 THEN quiet + 1 ELSE quiet
      /\ UNCHANGED <<settingVars, shown, must_draw_again, rowVars, render, cut>>
  BY DEF VGA_VerticalTimer, StartUpdate
<1>2. clearCache' \in BOOLEAN
  BY <1>0, <1>1 DEF Cleared, PictureTypeOK
<1>3. PictureTypeOK'
  <2>1. drawLine' \in {"empty", "clear", "lines"}
    BY <1>1
  <2>2. quiet' \in 0 .. 3
    BY <1>0, <1>1
  <2>3. beam' \in 0 .. lines_total /\ lines_done' \in 0 .. lines_total /\ hsync_events' \in Nat
    BY <1>0, <1>1
  <2>4. must_complete_frame' \in BOOLEAN
    BY <1>0, <1>1 DEF PictureTypeOK
  <2>. QED
    BY <1>0, <1>1, <1>2, <2>1, <2>2, <2>3, <2>4, CopiedAsIs DEF PictureTypeOK, settingVars, rowVars
<1>4. ASSUME ~vga_render_wait_for_changes
      PROVE  FrameInv' /\ RowsInv' /\ HostInv' /\ QuietInv' /\ CaughtUp'
  <2>1. FrameInv /\ RowsInv /\ HostInv /\ QuietInv /\ CaughtUp
    BY <1>4 DEF PictureInv
  <2>2. clearCache' = clearCache
    <3>1. updating => abort
      BY <1>4, <2>1 DEF FrameInv
    <3> HIDE DEF abort
    <3>. QED
      BY <1>0, <1>1, <3>1 DEF Cleared, PictureTypeOK
  <2> HIDE DEF abort
  <2>3. surface' = surface /\ cache' = cache /\ cut' = cut /\ render' = render /\ shown' = shown
        /\ vga_render_on_demand' = vga_render_on_demand
    BY <1>1 DEF rowVars, settingVars
  <2>4. FrameInv'
    BY <1>0, <1>1 DEF FrameInv
  <2>5. RowsInv'
    BY <1>1, <1>2, <2>1, <2>2, <2>3, PictureConstants DEF RowsInv
  <2>6. HostInv'
    <3> SUFFICES ASSUME ~cut, render, ~clearCache PROVE videoBuffer' = surface
      BY <2>2, <2>3 DEF HostInv
    <3>1. CASE updating /\ outWrite
      BY <1>0, <1>1, <3>1, CopiedAsIs
    <3>2. CASE ~(updating /\ outWrite)
      BY <1>0, <1>1, <2>1, <3>2, CopiedAsIs DEF HostInv
    <3>. QED
      BY <3>1, <3>2
  <2>7. QuietInv'
    <3>1. \A row \in Rows : ~(row < lines_done')
      BY <1>1, PictureConstants
    <3>2. updating' <=> lines_done' < lines_total
      BY <1>0, <1>1
    <3>. QED
      BY <1>1, <3>1, <3>2 DEF QuietInv
  <2>8. CaughtUp'
    <3> SUFFICES ASSUME quiet' >= 2
                 PROVE  ~clearCache' /\ ~outWrite' /\ \A row \in Rows : cache'[row] = shown'
      BY DEF CaughtUp
    <3>1. quiet >= 1
      BY <1>0, <1>1
    <3>2. lines_done = lines_total
      BY <1>1, <2>1, <3>1 DEF QuietInv
    <3>3. ~updating /\ \A row \in Rows : cache[row] = shown
      BY <1>0, <2>1, <3>1, <3>2, PictureConstants DEF QuietInv
    <3>4. ~clearCache
      BY <2>1, <3>1, <3>3 DEF QuietInv, FrameInv
    <3>. QED
      BY <1>1, <2>2, <2>3, <3>3, <3>4
  <2>. QED
    BY <2>4, <2>5, <2>6, <2>7, <2>8
<1>. QED
  BY <1>1, <1>3, <1>4 DEF PictureInv, settingVars

\* Nothing is asked of a frame in which something other than the beam acts.
LEMMA NotQuiet == ASSUME quiet' = 0 PROVE QuietInv' /\ CaughtUp'
  BY DEF QuietInv, CaughtUp

LEMMA GuestChangesStep ==
  ASSUME PictureInv, NEW content \in Contents, GuestChanges(content) PROVE PictureInv'
<1>0. /\ PictureTypeOK /\ lines_total \in Nat \ {0} /\ lines_done \in Nat
      /\ lines_done <= lines_total /\ beam \in Nat /\ hsync_events \in Nat
  BY PictureConstants DEF PictureInv, PictureTypeOK
<1>1. /\ shown' = content /\ DrawLines(Reached) /\ must_complete_frame' = MustComplete(Reached)
      /\ must_draw_again' = (must_draw_again \/ (vga_render_on_demand /\ lines_done # 0))
      /\ quiet' = 0 /\ UNCHANGED <<settingVars, beam, latched, killed, render, cut>>
  BY DEF GuestChanges
<1>2. Reached \in lines_done .. lines_total
  BY <1>0 DEF Reached
<1>3. PictureTypeOK'
  <2>1. must_draw_again' \in BOOLEAN
    BY <1>0, <1>1 DEF PictureTypeOK
  <2>2. quiet' \in 0 .. 3
    BY <1>1
  <2>. QED
    BY <1>0, <1>1, <1>2, <2>1, <2>2, DrawLinesType DEF PictureTypeOK, settingVars
<1>4. ASSUME ~vga_render_wait_for_changes, FrameInv, RowsInv, HostInv
      PROVE  FrameInv' /\ RowsInv' /\ HostInv'
  <2>1. RowsInv' /\ HostInv'
    BY <1>0, <1>1, <1>2, <1>4, DrawLinesRows
  <2>2. FrameInv'
    BY <1>0, <1>1, <1>2, <1>4, DrawLinesFrame DEF FrameInv
  <2>. QED
    BY <2>1, <2>2
<1>. QED
  BY <1>1, <1>3, <1>4, NotQuiet DEF PictureInv, settingVars

LEMMA ReconfigureStep == ASSUME PictureInv, Reconfigure PROVE PictureInv'
<1>0. PictureTypeOK /\ lines_total \in Nat \ {0}
  BY PictureConstants DEF PictureInv
<1>1. /\ must_complete_frame' = TRUE /\ must_draw_again' = FALSE
      /\ videoBuffer' = Copied(lines_done)
      /\ clearCache' = Cleared(FALSE)
      /\ drawLine' = IF updating THEN "empty" ELSE drawLine
      /\ updating' = FALSE /\ lines_done' = 0 /\ quiet' = 0
      /\ cut' = (cut \/ (updating /\ drawLine = "clear"))
      /\ UNCHANGED <<settingVars, shown, beamVars, rowVars, outWrite, render>>
  BY DEF Reconfigure
<1>2. PictureTypeOK'
  <2>1. clearCache' \in BOOLEAN /\ cut' \in BOOLEAN /\ drawLine' \in {"empty", "clear", "lines"}
    BY <1>0, <1>1 DEF PictureTypeOK, Cleared
  <2>2. quiet' \in 0 .. 3 /\ lines_done' \in 0 .. lines_total
    BY <1>0, <1>1
  <2>. QED
    BY <1>0, <1>1, <2>1, <2>2, CopiedAsIs DEF PictureTypeOK, settingVars, beamVars, rowVars
<1>3. ASSUME ~vga_render_wait_for_changes, FrameInv, RowsInv, HostInv
      PROVE  FrameInv' /\ RowsInv' /\ HostInv'
  <2>1. drawLine' = "empty"
    BY <1>1, <1>3 DEF FrameInv
  <2>2. FrameInv'
    BY <1>1, <1>3, <2>1 DEF FrameInv, beamVars
  <2>3. ~cut' => ~cut /\ clearCache' = clearCache
    BY <1>0, <1>1 DEF Cleared, PictureTypeOK
  <2>4. RowsInv'
    BY <1>1, <1>3, <2>1, <2>3 DEF RowsInv, rowVars
  <2>5. HostInv'
    <3> SUFFICES ASSUME ~cut', render, ~clearCache' PROVE videoBuffer' = surface
      BY <1>1 DEF HostInv, rowVars
    <3>1. CASE updating /\ outWrite
      BY <1>0, <1>1, <3>1, CopiedAsIs
    <3>2. CASE ~(updating /\ outWrite)
      BY <1>0, <1>1, <1>3, <2>3, <3>2, CopiedAsIs DEF HostInv
    <3>. QED
      BY <3>1, <3>2
  <2>. QED
    BY <2>2, <2>4, <2>5
<1>. QED
  BY <1>1, <1>2, <1>3, NotQuiet DEF PictureInv, settingVars

LEMMA ResizeStep == ASSUME PictureInv, NEW rate \in BOOLEAN, Resize(rate) PROVE PictureInv'
<1>0. PictureTypeOK /\ lines_total \in Nat \ {0}
  BY PictureConstants DEF PictureInv
<1>1. /\ must_complete_frame' = TRUE /\ must_draw_again' = FALSE
      /\ videoBuffer' = Copied(lines_done)
      /\ cache' \in [Rows -> Contents] /\ surface' = All(Blank)
      /\ clearCache' = TRUE /\ killed' = ~rate /\ lines_done' = 0
      /\ quiet' = 0 /\ cut' = FALSE
      /\ UNCHANGED <<settingVars, shown, render>>
  BY DEF Resize
<1>2. \/ /\ updating' = TRUE /\ outWrite' = TRUE /\ drawLine' = "clear"
         /\ hsync_events' = 0 /\ beam' = 0 /\ latched' = FALSE
      \/ /\ updating' = FALSE /\ outWrite' = FALSE /\ drawLine' = "empty"
         /\ UNCHANGED <<hsync_events, beam, latched>>
  BY DEF Resize, StartUpdate
<1>3. PictureTypeOK'
  <2>1. surface' \in [Rows -> Contents \cup {Blank}]
    BY <1>1 DEF All
  <2>2. /\ updating' \in BOOLEAN /\ outWrite' \in BOOLEAN /\ drawLine' \in {"empty", "clear", "lines"}
        /\ hsync_events' \in Nat /\ beam' \in 0 .. lines_total /\ latched' \in BOOLEAN
    <3>1. hsync_events \in Nat /\ beam \in 0 .. lines_total /\ latched \in BOOLEAN
      BY <1>0 DEF PictureTypeOK
    <3>2. CASE /\ updating' = TRUE /\ outWrite' = TRUE /\ drawLine' = "clear"
               /\ hsync_events' = 0 /\ beam' = 0 /\ latched' = FALSE
      <4>1. 0 \in Nat /\ 0 \in 0 .. lines_total
        BY <1>0
      <4>. QED
        BY <3>2, <4>1, Zenon
    <3>3. CASE /\ updating' = FALSE /\ outWrite' = FALSE /\ drawLine' = "empty"
               /\ UNCHANGED <<hsync_events, beam, latched>>
      BY <3>1, <3>3
    <3>. QED
      BY <1>2, <3>2, <3>3
  <2>3. quiet' \in 0 .. 3 /\ lines_done' \in 0 .. lines_total /\ killed' \in BOOLEAN
    BY <1>0, <1>1
  <2>4. videoBuffer' \in [Rows -> Contents \cup {Blank}]
    BY <1>0, <1>1, CopiedAsIs
  <2>. QED
    BY <1>0, <1>1, <2>1, <2>2, <2>3, <2>4 DEF PictureTypeOK, settingVars
<1>4. ASSUME FrameInv PROVE FrameInv'
  BY <1>0, <1>1, <1>2, <1>4 DEF FrameInv
<1>5. RowsInv' /\ HostInv'
  BY <1>1, PictureConstants DEF RowsInv, HostInv
<1>. QED
  BY <1>1, <1>3, <1>4, <1>5, NotQuiet DEF PictureInv, settingVars

LEMMA SetRenderingStep ==
  ASSUME PictureInv, NEW on \in BOOLEAN, SetRenderingEnabled(on) PROVE PictureInv'
<1>0. PictureTypeOK
  BY DEF PictureInv
<1>1. /\ clearCache' = (clearCache \/ (on /\ ~render)) /\ render' = on /\ quiet' = 0
      /\ UNCHANGED <<settingVars, shown, beamVars, lines_done, mustVars, rowVars, drawLine, updating,
                     outWrite, videoBuffer, cut>>
  BY DEF SetRenderingEnabled, RenderingBack
<1>2. PictureTypeOK'
  <2>1. clearCache' \in BOOLEAN /\ quiet' \in 0 .. 3
    BY <1>0, <1>1 DEF PictureTypeOK
  <2>. QED
    BY <1>0, <1>1, <2>1 DEF PictureTypeOK, settingVars, beamVars, mustVars, rowVars
<1>3. ASSUME FrameInv, RowsInv, HostInv PROVE FrameInv' /\ RowsInv' /\ HostInv'
  <2>1. FrameInv'
    BY <1>1, <1>3 DEF FrameInv, beamVars
  <2>2. RowsInv'
    BY <1>1, <1>3 DEF RowsInv, rowVars
  <2>3. HostInv'
    BY <1>0, <1>1, <1>3 DEF HostInv, rowVars, PictureTypeOK
  <2>. QED
    BY <2>1, <2>2, <2>3
<1>. QED
  BY <1>1, <1>2, <1>3, NotQuiet DEF PictureInv, settingVars

LEMMA PictureStep == PictureInv /\ [PictureNext]_pictureVars => PictureInv'
<1> SUFFICES ASSUME PictureInv, [PictureNext]_pictureVars PROVE PictureInv'
  OBVIOUS
<1>1. CASE PictureNext
  BY <1>1, SingleLineStep, CompleteFrameStep, VerticalTimerStep, GuestChangesStep, ReconfigureStep,
     ResizeStep, SetRenderingStep DEF PictureNext
<1>2. CASE UNCHANGED pictureVars
  <2>1. /\ UNCHANGED settingVars /\ UNCHANGED shown /\ UNCHANGED beamVars /\ UNCHANGED lines_done
        /\ UNCHANGED mustVars /\ UNCHANGED rowVars /\ UNCHANGED frameVars
        /\ UNCHANGED <<render, videoBuffer, quiet, cut>>
    BY <1>2 DEF pictureVars
  <2>2. PictureTypeOK' <=> PictureTypeOK
    BY <2>1 DEF PictureTypeOK, settingVars, beamVars, mustVars, rowVars, frameVars
  <2>3. (FrameInv' <=> FrameInv) /\ (RowsInv' <=> RowsInv) /\ (HostInv' <=> HostInv)
    BY <2>1 DEF FrameInv, RowsInv, HostInv, beamVars, rowVars, frameVars
  <2>4. (QuietInv' <=> QuietInv) /\ (CaughtUp' <=> CaughtUp)
    BY <2>1 DEF QuietInv, CaughtUp, settingVars, beamVars, rowVars, frameVars
  <2>. QED
    BY <2>1, <2>2, <2>3, <2>4 DEF PictureInv, settingVars
<1>. QED
  BY <1>1, <1>2

\* What the invariant says of the host's picture.
LEMMA InvCatchesUp == PictureInv => PictureCatchesUp
<1> SUFFICES ASSUME PictureInv, ~vga_render_wait_for_changes, quiet >= 2, render, ~cut
             PROVE  videoBuffer = All(shown)
  BY DEF PictureCatchesUp, Whole
<1>1. FrameInv /\ RowsInv /\ HostInv /\ QuietInv /\ CaughtUp /\ PictureTypeOK
  BY DEF PictureInv
<1>2. ~clearCache /\ (updating => ~outWrite) /\ \A row \in Rows : cache[row] = shown
  BY <1>1 DEF CaughtUp
<1>3. videoBuffer = surface /\ \A row \in Rows : surface[row] = shown
  BY <1>1, <1>2 DEF HostInv, RowsInv
<1>. QED
  BY <1>1, <1>3 DEF All, PictureTypeOK

\* Open frame, rows, host's copy and what quiet frames achieve, in every behaviour.
THEOREM PictureInvariance == PictureSpec => []PictureInv
  BY PictureInitInv, PictureStep, PTL DEF PictureSpec

\* For any number of rows and any contents: after a whole frame in which nothing
\* else happened the host has what the guest shows, with or without render on
\* demand, through turbo, changes in the middle of a frame and new modes.
THEOREM HostSeesTheGuest == PictureSpec => []PictureCatchesUp
<1>. QED
  BY PictureInvariance, InvCatchesUp, PTL

----------------------------------------------------------------------------
(* The parts together. *)

\* Every behaviour in which the parts have their turn is one of each part: what
\* is proved of a part alone holds beside the others.
THEOREM EachPartRuns == Spec => InputSpec /\ PointerSpec /\ PictureSpec
<1>1. Init => InputInit /\ PointerInit /\ PictureInit
  BY DEF Init
<1>2. [Next]_vars => /\ [InputNext]_inputVars
                     /\ [PointerNext]_pointerVars
                     /\ [PictureNext]_pictureVars
  BY DEF Next, vars
<1>. QED
  BY <1>1, <1>2, PTL DEF Spec, InputSpec, PointerSpec, PictureSpec

\* The block of inputs, the disk selector, the pointer's coordinates and the rows
\* drawn stay in their ranges, whichever part acts.
THEOREM HostTyped == Spec => []HostTypeOK
<1>1. InputInv => InputTypeOK
  BY DEF InputInv
<1>2. PictureInv => PictureTypeOK
  BY DEF PictureInv
<1>3. InputTypeOK /\ PointerTypeOK /\ PictureTypeOK => HostTypeOK
  BY DEF HostTypeOK
<1>. QED
  BY <1>1, <1>2, <1>3, EachPartRuns, InputInvariance, PointerTyped, PictureInvariance, PTL

\* Whatever part acts, the machine's input is the host's, the disk in the drive
\* is the one said, the pointer is followed and its coordinates stay together,
\* and the host's picture catches up with the guest's.
THEOREM HostAndMachineAgree ==
  Spec => /\ []InputFollows /\ []InsertedIsInDrive
          /\ []PlacedIsFollowed /\ []DriftIsBounded
          /\ []PictureCatchesUp
  BY EachPartRuns, MachineFollowsHost, SaidIsInserted, ReaderFollows, FractionKeepsToPixel,
     HostSeesTheGuest, PTL
=============================================================================
