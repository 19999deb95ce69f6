------------------------------ MODULE Picture ------------------------------
(***************************************************************************)
(* How what the guest shows becomes the host's picture: the lines of        *)
(* vga_draw.cpp, the row cache of render.cpp, and the copy in               *)
(* src/waterbox/dosbox-driver.cpp that turbo switches off.                  *)
(*                                                                          *)
(* All the guest shows is one value, the same for every row, so a picture   *)
(* is caught up when every row of it has that value.                        *)
(***************************************************************************)
EXTENDS Integers

CONSTANTS
    lines_total,   \* rows of the mode
    Contents,      \* what a row may show
    Blank          \* a row of a new surface

ASSUME PictureAssumption == lines_total \in Nat \ {0} /\ Blank \notin Contents

VARIABLES
    vga_render_on_demand, vga_render_wait_for_changes,   \* settings
    shown,                    \* what the guest shows
    beam, latched,            \* rows the beam has passed in this frame, and
                              \* whether the blank after them has been reached
    hsync_events, lines_done, must_complete_frame, must_draw_again,
    cache, surface,           \* rows as last drawn, and the pixels of the output
    clearCache,               \* the next frame draws every row
    drawLine,                 \* RENDER_DrawLine: "empty", "clear", or "lines" for
                              \* the handlers that pass over a row the cache has
    updating, outWrite,       \* a frame is open, and it has written to the output
    killed,                   \* the line event has been removed
    render,                   \* _render, and with it the adapter's g_render
    videoBuffer,              \* _videoBuffer
    quiet, cut                \* frames begun since anything but the beam last acted,
                              \* and whether a frame that was to draw every row was
                              \* ended by a reprogrammed mode (no variables of the code)

settingVars == <<vga_render_on_demand, vga_render_wait_for_changes>>
beamVars == <<beam, latched, hsync_events, killed>>
mustVars == <<must_complete_frame, must_draw_again>>
rowVars == <<cache, surface>>
frameVars == <<clearCache, drawLine, updating, outWrite>>
pictureVars == <<settingVars, shown, beamVars, lines_done, mustVars, rowVars, frameVars, render,
                 videoBuffer, quiet, cut>>

Rows == 0 .. lines_total - 1

All(content) == [row \in Rows |-> content]

\* Wait for changes requires render on demand.
ChooseRenderOnDemand ==
    /\ vga_render_on_demand \in BOOLEAN /\ vga_render_wait_for_changes \in BOOLEAN
    /\ vga_render_wait_for_changes => vga_render_on_demand

PictureInit ==
    /\ ChooseRenderOnDemand
    /\ shown \in Contents
    /\ beam = 0 /\ latched = FALSE /\ hsync_events = 0 /\ killed = FALSE
    /\ lines_done = 0 /\ must_complete_frame = TRUE /\ must_draw_again = FALSE
    /\ cache \in [Rows -> Contents] /\ surface = All(Blank)
    /\ clearCache = TRUE /\ drawLine = "clear" /\ updating = TRUE /\ outWrite = TRUE
    /\ render = TRUE /\ videoBuffer = All(Blank)
    /\ quiet = 1 /\ cut = FALSE

----------------------------------------------------------------------------
(* RENDER: lines into the cache and the output, and the end of a frame. *)

\* The rows a frame draws on its way to row "to": those the cache does not have,
\* or all of them.
Drawn(to) ==
    {row \in lines_done .. to - 1 :
        drawLine = "clear" \/ (drawLine = "lines" /\ cache[row] # shown)}

With(rows, to) == [row \in Rows |-> IF row \in Drawn(to) THEN shown ELSE rows[row]]
Wrote(to) == outWrite \/ Drawn(to) # {}

\* Mutant: a frame that ends clears the request, whichever handler drew it.
ClearedAlways(abort) == clearCache /\ ~(updating /\ ~abort)

\* RENDER_EndUpdate: every row has been drawn, unless the frame was aborted.
Cleared(abort) == clearCache /\ ~(updating /\ ~abort /\ drawLine = "clear")

\* RENDER_EndUpdate and doRenderUpdateCallback: what was written is copied out,
\* the whole surface of it.
Copied(to) == IF updating /\ Wrote(to) /\ render THEN With(surface, to) ELSE videoBuffer

\* RENDER_StartUpdate.
StartUpdate(clear) ==
    /\ updating' = TRUE /\ outWrite' = clear
    /\ drawLine' = IF clear THEN "clear" ELSE "lines"

\* The lines from lines_done up to row "to"; the last of them ends the frame.
DrawLines(to) ==
    LET whole == to = lines_total /\ to > lines_done
    IN  /\ lines_done' = to
        /\ hsync_events' = hsync_events + (to - lines_done)
        /\ cache' = With(cache, to) /\ surface' = With(surface, to)
        /\ outWrite' = Wrote(to)
        /\ videoBuffer' = IF whole THEN Copied(to) ELSE videoBuffer
        /\ clearCache' = IF whole THEN Cleared(FALSE) ELSE clearCache
        /\ drawLine' = IF whole THEN "empty" ELSE drawLine
        /\ updating' = (updating /\ ~whole)

\* Does the frame have to be completed once those lines are drawn?
MustComplete(to) ==
    CASE to = lines_done -> must_complete_frame
      [] to = lines_total -> FALSE
      [] OTHER -> must_complete_frame \/ lines_done = 0

----------------------------------------------------------------------------
(* VGA: the beam. *)

\* A line of the display passes; without render on demand it is drawn.
VGA_DrawSingleLine ==
    /\ beam < lines_total
    /\ beam' = beam + 1
    /\ IF ~vga_render_on_demand /\ ~killed /\ lines_done < lines_total
       THEN /\ DrawLines(lines_done + 1)
            /\ must_complete_frame' = MustComplete(lines_done + 1)
       ELSE UNCHANGED <<lines_done, hsync_events, rowVars, frameVars, videoBuffer, must_complete_frame>>
    /\ UNCHANGED <<settingVars, shown, latched, killed, must_draw_again, render, quiet, cut>>

\* OnDemandCompleteFrame, from the latch in the vertical blank.
OnDemandCompleteFrame ==
    LET complete == vga_render_on_demand /\ (must_complete_frame \/ ~vga_render_wait_for_changes)
        to == IF complete THEN lines_total ELSE lines_done
    IN  /\ beam = lines_total /\ ~latched
        /\ latched' = TRUE
        /\ DrawLines(to)
        /\ must_complete_frame' = (MustComplete(to) \/ must_draw_again)
        /\ must_draw_again' = FALSE
        /\ UNCHANGED <<settingVars, shown, beam, killed, render, quiet, cut>>

\* The next frame: the open one is ended, aborted if rows of it are missing.
VGA_VerticalTimer ==
    LET abort == lines_done < lines_total /\ ~(vga_render_wait_for_changes /\ lines_done = 0)
    IN  /\ beam = lines_total /\ latched
        /\ videoBuffer' = Copied(lines_done)
        /\ clearCache' = Cleared(abort)
        /\ StartUpdate(clearCache')
        /\ must_complete_frame' = (must_complete_frame \/ clearCache')
        /\ lines_done' = 0 /\ hsync_events' = 0 /\ beam' = 0 /\ latched' = FALSE /\ killed' = FALSE
        /\ quiet' = IF quiet < 3 THEN quiet + 1 ELSE quiet
        /\ UNCHANGED <<settingVars, shown, must_draw_again, rowVars, render, cut>>

----------------------------------------------------------------------------
(* The guest. *)

\* Mutant: the rows drawn already are drawn once more.
ReachedAgain == IF vga_render_on_demand THEN lines_done + beam ELSE lines_done

\* The rows drawn before a change made on demand: as far as the beam is.
Reached ==
    IF ~vga_render_on_demand \/ hsync_events >= beam THEN lines_done
    ELSE IF lines_done + (beam - hsync_events) > lines_total THEN lines_total
    ELSE lines_done + (beam - hsync_events)

\* A register of the display is written: VGA_RenderOnDemandUpTo, then the write.
GuestChanges(content) ==
    /\ content # shown /\ shown' = content
    /\ must_draw_again' = (must_draw_again \/ (vga_render_on_demand /\ lines_done # 0))
    /\ DrawLines(Reached)
    /\ must_complete_frame' = MustComplete(Reached)
    /\ quiet' = 0
    /\ UNCHANGED <<settingVars, beam, latched, killed, render, cut>>

\* VGA_SetupDrawing that changes neither size nor rate: the open frame is ended
\* as if it were whole.
Reconfigure ==
    /\ must_complete_frame' = TRUE /\ must_draw_again' = FALSE
    /\ videoBuffer' = Copied(lines_done)
    /\ clearCache' = Cleared(FALSE)
    /\ drawLine' = IF updating THEN "empty" ELSE drawLine
    /\ updating' = FALSE /\ lines_done' = 0
    /\ quiet' = 0
    /\ cut' = (cut \/ (updating /\ drawLine = "clear"))
    /\ UNCHANGED <<settingVars, shown, beamVars, rowVars, outWrite, render>>

\* VGA_SetupDrawing that does: RENDER_SetSize makes a new surface and a cache
\* with whatever the memory held. A new rate also begins a frame.
Resize(rate) ==
    /\ must_complete_frame' = TRUE /\ must_draw_again' = FALSE
    /\ videoBuffer' = Copied(lines_done)
    /\ cache' \in [Rows -> Contents] /\ surface' = All(Blank)
    /\ clearCache' = TRUE
    /\ IF rate THEN StartUpdate(TRUE) /\ hsync_events' = 0 /\ beam' = 0 /\ latched' = FALSE
       ELSE /\ updating' = FALSE /\ outWrite' = FALSE /\ drawLine' = "empty"
            /\ UNCHANGED <<hsync_events, beam, latched>>
    /\ killed' = ~rate /\ lines_done' = 0
    /\ quiet' = 0 /\ cut' = FALSE
    /\ UNCHANGED <<settingVars, shown, render>>

----------------------------------------------------------------------------
(* The host. *)

\* dosdrv_set_rendering: coming back, every row is drawn.
RenderingBack(on) == clearCache' = (clearCache \/ (on /\ ~render))

SetRenderingEnabled(on) ==
    /\ RenderingBack(on)
    /\ render' = on
    /\ quiet' = 0
    /\ UNCHANGED <<settingVars, shown, beamVars, lines_done, mustVars, rowVars, drawLine, updating,
                   outWrite, videoBuffer, cut>>

PictureNext ==
    \/ VGA_DrawSingleLine \/ OnDemandCompleteFrame \/ VGA_VerticalTimer
    \/ \E content \in Contents : GuestChanges(content)
    \/ Reconfigure
    \/ \E rate \in BOOLEAN : Resize(rate)
    \/ \E on \in BOOLEAN : SetRenderingEnabled(on)

PictureSpec == PictureInit /\ [][PictureNext]_pictureVars

----------------------------------------------------------------------------
(* Correctness *)

PictureTypeOK ==
    /\ vga_render_on_demand \in BOOLEAN /\ vga_render_wait_for_changes \in BOOLEAN
    /\ shown \in Contents
    /\ beam \in 0 .. lines_total /\ latched \in BOOLEAN /\ killed \in BOOLEAN
    /\ lines_done \in 0 .. lines_total /\ hsync_events \in Nat
    /\ must_complete_frame \in BOOLEAN /\ must_draw_again \in BOOLEAN
    /\ cache \in [Rows -> Contents] /\ surface \in [Rows -> Contents \cup {Blank}]
    /\ clearCache \in BOOLEAN /\ drawLine \in {"empty", "clear", "lines"}
    /\ updating \in BOOLEAN /\ outWrite \in BOOLEAN /\ render \in BOOLEAN
    /\ videoBuffer \in [Rows -> Contents \cup {Blank}]
    /\ quiet \in 0 .. 3 /\ cut \in BOOLEAN

Whole == render /\ ~cut => videoBuffer = All(shown)

\* Whatever was changed, wherever in the frame: after one whole frame in which
\* nothing else was, the host has what the guest shows.
PictureCatchesUp == ~vga_render_wait_for_changes /\ quiet >= 2 => Whole

\* A change in the middle of a frame makes the frame be drawn again: frames that
\* wait for changes have what the guest shows a frame later.
ChangeIsDrawn == quiet = 3 => Whole
=============================================================================
