# DOSBox-X as a Chimera core: a TLA+ development

The repository packages DOSBox-X, a PC emulator, as a core for Chimera, a frontend
for frame-exact replays. A core must be the same machine every time: run natively or
in the sandbox, saved and loaded at any frame, the same inputs must give the same
bytes. The modules here model the parts of the code that this depends on, check them
with TLC on small instances and prove their main properties with TLAPS for every
value of the constants.

`PROJECT.json` names, for every definition, the source lines it stands for; every
run, what it checks; and every hazard, what covers it.

To check: `tlc -config MCPicAT.cfg MCPic.tla`, and so on for each run of
`PROJECT.json`. To prove: `tlapm X.tla` for each `X` of `PicProofs`,
`EventQueueProofs`, `CountdownsProofs`, `SparseDiskProofs`, `FrameClockProofs`,
`HostProofs` and `DeviceProofs`. The models use the community
module SequencesExt, the proofs TLAPS and the theorems of its library about finite
sets, sequences and well-founded sets.

## 1. Inventory

What is the project's own: `src/waterbox` (driver, core ABI, sparse disk, runners),
`src/guest-tools`, `src/tools`. `src/patches` holds the DOSBox-X files the port
changes, as whole files; the rest of DOSBox-X, and the sandbox (miniBox), are not in
the repository. `src/extern/vendored` is SDL2 and libco.

Nothing runs in parallel. The machine is a coroutine, the driver another; the host
calls one export at a time. What is hard is order: of events inside a millisecond, of
devices, guest and driver around the same state, of what one frame leaves to the
next, of what a savestate carries and what it does not.

| Component | State | Operations | Meets | Hard behaviour | Correct when |
|---|---|---|---|---|---|
| Interrupt controllers, `pic.cpp` | two 8259s, `PIC_IRQCheck`, its pending flag | raise, lower, mask, EOI, ICWs, delayed check, dispatch, reset | devices, guest ports, event queue, CPU | lost wakeups between two controllers; a cached priority; initialisation at any moment | no request is lost, service nests, what waits is taken |
| Event queue and millisecond, `pic.cpp` | sorted list, pool, cycle counters, `srv_lag` | add, remove, serve, slice, tick | every device, main loop | handlers that change the list being served; overrun slices; a full pool | time is what was executed, order is kept, nothing drifts |
| Frame loop and clock, `dosbox-driver.cpp`, `dosbox.cpp` | tick counter and target, key sets, granted ticks | frame, switch, wait, grant, deliver keys | host, machine, mapper | state read on one side of a switch and used on the other; waits longer than a frame | frames end and do not drift, ticks and keys are not lost |
| Sparse disk, `sparse-disk.h` | overlay of written chunks | read, write, materialise | BIOS disk layer, export, savestates | chunk boundaries, failing half way, a base outside the savestate | it is a flat array of bytes |
| Core ABI, `waterbox.cpp` | button levels, one-shot inputs, selectors | SetButton, writes to the input block, FrameAdvance | host, driver | edges from levels, one-shot fields, wrap-around | every edge reaches the machine once; the selector names the disk that is in |
| Pointer, `dosbox-driver.cpp`, `chimabs.c` | position, mark, last read, the INT 33h cursor | frame, port read | mouse.cpp, guest driver | one movement offered several ways to a reader of unknown pace; two coordinates clipped apart | a placed pointer is where it was put; the coordinates stay together |
| Picture, `vga_draw.cpp`, `render.cpp`, `dosbox-driver.cpp` | beam, lines drawn, row cache, flags of a frame to be completed or drawn again, the buffer | lines, end of frame, new mode, SetRenderingEnabled | guest, host | several layers each of which may skip a row it takes to be unchanged | the host has what the guest shows |
| Keyboard controller, `keyboard.cpp` | byte buffer, answers, port 60h, modes, repeat | AddKey, transfers, port reads and writes, resets | GFX_Events, event queue, PIC, guest | two kinds of bytes that share transfers; a reset at any moment | no byte waits for good, none is put over another |
| Serial port to the PC-98 keyboard, `keyboard.cpp` | ring, byte ready, loads under way | keyboard sends, guest reads and writes, resets | event queue, PIC, guest | a load started in three places and once only | bytes come up in order and once |
| Mouse events, `mouse.cpp` | event queue, its timer, nested INT 74h | buttons, movement, IRQ 12, return | event queue, PIC, guest | a handler that does not return for long; a full queue | events are taken, the last tells the truth |
| Save data export | a window | GetSaveData..., ReadSaveDataFile | sparse disk, host | a loop of windows over a changing disk | the file is the disk |
| Settings, boot | conf text | compose_conf, machine_setting, openHardDisk | setup.cpp | none after boot | the machine declared is the machine booted |
| Sound, DOS, drives, CD-ROM, video registers, mapper, user interface, runners, build | | | | | see `PROJECT.json`, each with the reason it is left out |

## 2. Plan

In order; each is done with its runs and its proofs.

1. `Pic`: the controllers, because every device depends on them.
2. `SparseDisk` over `FlatDisk`: the component the port wrote itself and whose
   failure costs a user's data.
3. `EventQueue`, under `Countdowns`: the order of events in a millisecond.
4. `FrameClock`: the frame, the one entry of the host.
5. `HostInput`, `Pointer`, `Picture`: what passes between host and machine.
6. `Keyboard`, `Uart8251`, `MouseEvents`: what passes between the driver's input and
   the guest, over events of the event queue and lines of the controllers.

What is left, in this order:

1. `HostInput` with `FrameClock`: `dosdrv_frame` takes any key set now, and any mouse
   and disk input is taken at once.
2. A savestate between the two flags of rendering: `_render` is saved, the adapter's
   `g_render` is not. `Picture` has one flag for both.
3. `Keyboard` with the lines of `Pic` and with scan codes in place of bytes counted;
   the XT's port B; the PC-98 keyboard's own commands.
4. The input mapper, whose bindings turn `FrameClock`'s keys into `Keyboard`'s.
5. The export of save data, as a loop of `SparseDisk`'s reads over a running machine.

## 3. The modules

Modules `X` model, `MCX` give TLC its instance, `XProofs` hold the proofs; `FlatDisk` and
`Countdowns` are abstract and say what `SparseDisk` and `EventQueue` promise. A comment
`Mutant:` marks a variant of a definition with a plausible mistake. No specification
uses it: putting it in place of the definition shows that the property it is meant
for notices.

### Pic

`master` and `slave` are `PIC_Controller`s; a register is the set of lines whose bit
is set. `imrr` and `isrr`, complements the code recomputes on each change, are not
variables. The helpers are the class's methods: `Raised`, `Lowered`, `Started`,
`Ended`, `Deliverable` (the scan of `check_for_irq`). A change of a controller is a
new record, and `Commit` installs it and does what every method does last: ask for the
delayed check, or raise the cascade on the master. Actions: `PIC_ActivateIRQ`,
`PIC_DeActivateIRQ`, `PIC_EdgeTrigger`, `PIC_SetIRQMask`, the port writes (`WriteMask`,
`WriteICW1` and on, `SpecificEOI`, `NonspecificEOI`, `WriteSpecialMask`),
`PIC_IRQCheckDelayed`, `PIC_runIRQs`, `PIC_Reset`, and the environment's
`CPUSetsAccepting`. A dispatch ends with `accepting` false when the CPU took an
interrupt, as its IF does.

Left out: vectors, reading the ports (changes nothing), the log, and assertions.
The delayed check is one flag, `irqCheckPending`: the model takes the event queue to
have room (8192 entries in the code); a pool that runs out is `EventQueue`'s.

### EventQueue and Countdowns

`queue` is the list, `free` the number of entries in the pool, `serving` the entry
whose handler runs, which is in neither. Time is in parts of a cycle (`RESOLUTION`)
since the start of the millisecond; the code has floating point. `at` is the place in
the main loop: service loop, handler, slice, tick, tick handlers. A slice of the CPU is
`Execute` (an instruction, possibly past the slice's end), `ExecuteIO` (one that reaches
a device, which adds or removes events) and `CoreReturns`. `clock` counts what was
executed and is no variable of the code. The timer that adds itself again from its
handler is the mixer's. Handlers that run the machine recursively, and the list of tick
handlers itself, are left out.

`Countdowns` is what the queue promises its devices: events that count down while the CPU
executes, are served once they have and in order, and join behind those with no more to
go. It has no slices, milliseconds, lateness of its own or pool, only a greatest number of
events. The refinement maps the list to the countdowns left of it (`pendingBar`) and the
entry being served to how late it is (`servedBar`), so that a cut or overrun slice, the
turn of a millisecond and a return to the pool are steps the devices do not see. The
timer's handler is one step there: its entry counts as returned once it has added itself.

### SparseDisk and FlatDisk

`overlay` maps each chunk to its block or to `NoBlock`. A `read` or `write` begins with
the range check, does a chunk per step, may fail at any chunk when the host fails, and
returns. `Save` and `Load` are the sandbox's: a savestate is the overlay and not the
base. `readBase` returns zeros after the end of the base, and, with `ReadErrors`, also
after a read the host cut short, which it cannot tell apart.

`FlatDisk` is what the disk promises: a function from addresses to bytes. A write that
fails may have changed any of the bytes of its request and no other; a read that fails
changes nothing. The refinement is `content <- View(overlay)`, the base seen through
the overlay.

### FrameClock

`at` says which coroutine has the CPU, `where` the place the machine goes on from:
inside a millisecond, at its end, or back from the sleep in `increaseticks`.
`dosdrv_frame` takes any set of held keys and any frame length; `ticksTarget` counts
parts of a tick, the code a double, whose rounding is not modelled. The machine ends a
millisecond, starts a granted one (`TIMER_AddTick`), and with none granted calls
`increaseticks`: `FastForward`, `Sleep` or `CatchUp`. Every one of them begins with
`GFX_Events`. Between, a device may wait (`DeviceWaits`, the sysex delay of MIDI) and
the guest may switch fast forward (`SetTurbo`). `ms`, `cut`, `fast`, `polled` and
`missed` are no variables of the code: they count milliseconds run and ticks cut at the
limit of 20, and say whether fast forward has been on, which runs milliseconds the clock
does not count, and whether key changes went by undelivered.

Left out: `emulator_speed`, the estimate of automatic cycles (only its longer sleeps
are in), the mapper's translation of keys, and the waits of the host's own menus.

### HostInput

`g_buttons` are the levels the host sets one at a time, `level`, `leftPressed`,
`leftReleased` and `insertFloppyDisk` the fields of the input block, which the host may
also write itself (`WriteLevel`). `FrameAdvance` is one action: it folds the buttons
into the block, makes the edges of the mouse button, steps the selector, and does what
`dosdrv_frame` does with the result, down to `DriveManager::CycleDisks`, and leaves the
one-shot fields clear. One mouse button, one joystick and the floppy selector stand for
the others, which are the same code on other fields. `ForgetButtons` is the guest's reset
of its mouse driver, at any time: it zeroes `mouse.buttons` whatever the host holds.
`written` and `forgotten` are no variables of the code: which levels only the host's own
write holds up, and whether the guest has forgotten a button since the host last moved it.

### Pointer

A placed or moved pointer reaches the guest in up to three ways: as motion packets,
through the pointer port and through the INT 33h cursor. `PlacedFrame` and `SpeedFrame`
are the two forms of a frame. `ChimeraPointerRead` is the guest's read of the port with
what `chimabs` does about it, at any time and any pace; `TakePacket` is the guest's mouse
driver. The guest also changes what the driver works on, at any time: `NewVideoMode`
(`Mouse_AfterNewVideoMode`) sets the range and leaves the cursor where it is, on the new
screen or off it; `Mouse_Reset` puts it in the middle; `SetRange` is INT 33h function 07h,
which clips it, and the PC-98's 10h, which does not; `SetCursor` is function 04h;
`VMwareCommand` switches the absolute mode. Positions keep their low bit for the mark
(`Even`), and division rounds to zero as in C. `moves`, `untouched`, `flips` and `astray`
count for the properties only.

Left out: INT 33h functions 16h and 17h, which save and restore the driver's whole state;
the DOSBox integration device (`bios.cpp:1120-1148`), through which a guest writes the
mouse's state itself; a DOS/V text mode, which keeps the low end of the range;
and `Mouse_CursorMoved`, which nothing calls in the core.

### Picture

`beam` is where the display is, `lines_done` how far it has been drawn; they part when
lines are drawn on demand. All rows show one value, `shown`, which
`GuestChanges` sets at any point of the frame, after drawing the rows the beam has passed
(`Reached`). `drawLine` is the handler that RENDER has put in place: one that passes over
the rows the cache has, one that draws all, or none. A frame ends in `DrawLines`, at the
last row, or in `VGA_VerticalTimer`, aborted; `Reconfigure` and `Resize` are
`VGA_SetupDrawing`, and the host switches turbo with `SetRenderingEnabled`.

### Keyboard

Bytes are counted, not told apart: `used` in the buffer, `responses` of the controller,
`transfers` events that will bring one up. The answers' buffer is no ring: `buf8042_len` is
where the next is put, and goes back to the start only when the last has been taken.
`AddBuffer`, `Cleared` and `Restarted` are what
the handlers do to the three, and the handlers are made of them. Actions: the host's keys,
the tick that repeats one, the mouse's packets, the two events, the guest's read of port
60h, each kind of write to ports 60h and 64h, and INT 15h C2h, which talks to the mouse
behind the buffer's back. `origin` says whether the byte in port 60h came from the buffer.

### Uart8251

`recv` is the ring, `data` the byte the guest may read, `loads` the events that load one.
The other direction is `txLoads` and `txSends`. `uart_reset` removes every event, as
`uart_t::reset` does; it may come at any time. `owed` is no variable of the code.

### MouseEvents

Events say which buttons are down. Timer, INT 74h (which may nest), the handler of the
guest and its return each may come at any time. What the guest switches is in three
flags: its handler (`listening`), an active PS/2 mouse (`aux`), whose buttons make no event
here, and whatever else has IRQ 12 raised (`watched`: cursor, polling, PS/2 reports). A
plain mode set (`NewVideoModeSet`) empties the queue and keeps the buttons; `DriverReset`
(`Mouse_Reset`, on the AT with the PS/2 mouse taken over) clears all but an INT 74h that is
under way. `untold` is no variable of the code: a button has changed that no event told of.
Functions 16h and 17h and the integration device are left out as in `Pointer`.

### MCHost and MCDevices

The host's three modules share no variable, nor do the three devices. To ask about them
in one run, a behaviour belongs to one of them, chosen at the start, and the others rest
in an initial state. The theorems are of each module's own specification, and
`EachPartRuns` and `EachDeviceRuns` carry them over to those of the two runs: every
behaviour of the run is one of each module.

## 4. Runs

| Run | What it asks | Instance |
|---|---|---|
| `pic_at` | with the AT wiring in normal EOI mode: the highest request of both controllers goes first, service nests, no request is forgotten, a CPU that accepts takes what waits on either controller | 4 lines per controller, so that lines lie above, between and below cascade and devices; IRQs on both, one edge filtered |
| `pic_pc98` | with the PC-98 wiring and a guest using masks, special mask mode, auto-EOI and initialisation at any moment: no lost wakeup, the cached priority is right | 3 lines, the cascade the last of them; one device on each controller |
| `pic_spurious` | violation, see 7 | as `pic_at`, two IRQs of the slave |
| `disk` | the disk is flat, only loads and the bytes of a write change the overlay, whatever the host makes of its reads, calls return | 5 bytes in chunks of 2: the last chunk cut, the base ending inside a chunk, requests over three chunks; one savestate |
| `disk_error` | violation, see 7 | 3 bytes |
| `queue` | the queue implements `Countdowns`; no event waits or is served later than an overrun and a cycle; no cycle lost, no drift, no entry leaked; a timer fires and milliseconds come | 4 cycles of 2 parts; a timer of 7/8 ms; slices overrun by half a millisecond; a pool of 3 that runs out; milliseconds wrap at 7 |
| `frame` | frames do not drift and, once fast forward stays off, come nearer to their end with every step and return; ticks and keys are not lost | frames of half a tick and of 2.5; waits of 1 and 4; sleeps of 1 and 2; a limit of 2 |
| `frame_keys`, `frame_turbo` | violations, see 7 | as `frame` |
| `host` | the machine is told what the host holds and which disk is in; a placed pointer is followed and its coordinates stay together; the host sees what the guest shows | a key and a stick, up to 2 images; 8 steps of the screen over ranges of 2 and 3 pixels that begin at 0 or 1, so that a cursor may be below and above a new range, a reader there for 2 frames; 2 rows of 2 contents |
| `vga_wait` | violation, see 7 | as `host` |
| `devices` | no byte or event waits for good, none is put over another, what repeats is held, what is read is what was sent, the last event is true unless a change made none | 2 keys, a buffer of 4; 2 mouse buttons, a queue of 3; 2 codes, a ring of 4 |

Bounds: the number of lines, bytes, chunks, entries, ticks, keys, rows, steps of the
pointer, and places of a buffer. They are enough in that each case the code tells apart
occurs: a line on each side of the cascade and of each other; a request that starts, ends
and passes in the middle of a chunk; an event before, at and behind those in the list and
in the next millisecond; a wait shorter and longer than a frame and than the grant; a
position that is and is not a whole pixel, with the even steps and the odd; a reader that
comes, stays, sleeps and is given up; a change above, at and below the rows drawn; a
buffer that is empty, fills and overflows, with a packet that just fits and one that just
does not. Where a theorem exists the bound does not matter.

In guards appear `MaxTicks` (FrameClock), `MaxPending` and `MaxOverrun` (EventQueue),
`MaxLen` (SparseDisk), `MaxMoves` (Pointer), `MaxResponses` (Keyboard), `MaxNested`
(MouseEvents) and `MaxSends` (Uart8251). The code's event queue has 8192 entries and the
controller's answers 8 places, filled up to the end before they are used again
(`MaxResponses`: see 7). `TickWrap` is the width of the millisecond
counter.

Deadlock is checked except in the three runs of `FrameClock`, where the host may stop
calling and the model stops at `MaxTicks`.

### Fairness

- `Pic`: weak fairness of the delayed check and of `PIC_runIRQs`. The main loop runs
  the queue in each round and the CPU calls `PIC_runIRQs` while `PIC_IRQCheck` is set.
  None of the guest or the devices. `WaitingIsTaken` needs a CPU that accepts
  interrupts, no spurious cascade, and no slave in special mask mode with a line in
  service, which does not tell the master of what it could deliver.
- `EventQueue`: weak fairness of the steps that return, and of the CPU's execution.
  None of devices. The run has no handler that adds itself with no delay: one
  would be served forever, in the code too.
- `SparseDisk`: weak fairness of the loop's steps; nothing is waited for.
- `FrameClock`: weak fairness of the driver's steps and of the machine's, for a
  coroutine with the CPU goes on. None of the host, of devices that wait, or of the
  guest's use of fast forward. That `MillisecondEnds` is fair is what `EventQueue`
  shows as `LoopComesRound`.
- `Keyboard`: weak fairness of `TransferBuffer`, an event of the event queue, which
  comes due (`TimerFires`). None of the guest: `ByteComes` ends when a byte is there to
  be read.
- `MouseEvents`: weak fairness of the timer, of the return of INT 74h and of the guest's
  handler; strong fairness of INT 74h, for `WaitingIsTaken` says that a request which
  comes again and again is dispatched. `EventsAreTaken` is about a guest that goes on
  listening.
- `Uart8251`: weak fairness of the load, an event, and of a guest that reads a byte when
  there is one.
- `HostInput`, `Pointer` and `Picture` have safety properties only and assume none.

## 5. Proofs

All proofs are of the specification for every value of the constants that meets the
module's assumptions, and no proof uses fairness.

`PicProofs`: `PicInv` is inductive. It is `TypeOK`, `ActiveMatchesService`,
`NoLostInterrupt` and `NoSlaveIdle`. `NoLostInterrupt` alone is not inductive: a raise
compares with `active_irq` where the dispatch will compare with what is in service, so
the cached priority must be right; and on a machine without a slave the slave's
registers must stay idle, or an auto-EOI of the slave would be looked for. The lemmas
say of each method what it does to the type, to the cached priority and to the
deliverable lines; `CommitInv` and `AfterDispatchInv` carry the two ways a step ends;
then there is a lemma for each action. `NoLostInterrupt` is stated for machines without
a dispatch hack (`Hacked = {}`). `HighestFirst`, that a dispatch takes the highest request
of both controllers, rests on the master's copy of what the slave has: `ReachInv` is
`PicInv` with `SlaveReachesMaster` (what the slave could deliver stands at the master as a
cascade request) and needs that the cascade is never edge filtered: a filtered line would
drop the slave's request. The slave in special mask mode is excepted because there it is
false: `Commit` compares with its `active_irq` and tells the master nothing.
`FullyNested` follows from `NestedInv`: without special mask mode `active_irq` is not only
in service but the lowest in service, so that what is deliverable lies above all of
them. `OneRequestPerInterrupt` needs no invariant but `TypeOK`: a lemma for each method says which
requests it keeps.

`EventQueueProofs`: `QueueInv` is the module's invariants with `ServiceAtRest`: in the
service loop no cycle is out with the CPU and `index_nd` is the time. Without it neither
the slice nor the time of an event added by a handler can be bounded. Insertion and
removal are shown to keep the order and to move nothing else (`EqualsKeepOrder`), and a
slice never to reach past the first event (`NeverPastAnEvent`). `ServedOnTime` needs more
(`PunctualInv`): while the CPU has its slice no event is due a whole cycle before the slice
ends, and the slice is overrun by an instruction at most (`InTime`); and the service loop
has a cycle to give (`CycleAtHand`), from which `SliceNeverEmpty` follows too.
`NeverPastMillisecond` (`InMillisecond`) says that slices add up to the millisecond and
that one begins only when none of the last is left. `NoDrift` is separate
(`DriftInv`: the instant a running timer counts from is a multiple of its period), and
needs that the millisecond counter wraps at a multiple of the period: the code's
is 32 bits wide and its wrap-around is 49 days off.

`CountdownsProofs`: `QueueCountsDown`, `Spec => CountsDown`, from `RefineInv`, which is
`QueueInv`, `PunctualInv` and `InMillisecond` together: the abstract steps promise that
nothing is more than an overrun and a cycle behind and that what elapses at once is
bounded, which is what the last two say. The lemmas say what the mapping sees of each
thing done to the list: time passing is `Nearer`, an insertion `Joins` behind those with no
more to go (here the order of equals is needed), a removal `Leave`s the others in order;
then each action is a step of the countdowns or changes neither of the mapped variables.

`SparseDiskProofs`: `TypeCorrect`; `DiskIsFlat`, `Spec => FlatSpec` where
`ReadErrors = FALSE`: a disk whose host reports its read errors implements `FlatDisk`; the
assumption is needed, `disk_error` is the counterexample without it; `OnlyWritesEnter`,
which holds for any host: what a short read puts into a new chunk is the only way bytes
other than a request's get into the overlay; and `CallAdvances`, that each iteration
leaves fewer bytes to go. The proof is arithmetic of quotients and remainders (a step takes bytes of one chunk:
`SameChunk`, `TakenInChunk`), what `readBase` and `materialise` return byte by byte,
and a lemma that maps each step to a step of the flat disk or to a stutter.

`FrameClockProofs`: `FrameInv` is inductive. Beside the properties it says that presses
are of keys the host holds and releases are not (`EdgesMatch`), that the machine has
the CPU only before the target (`Punctual`, hence an overshoot of less than one wait),
and that until the first `GFX_Events` of a frame the guest has the keys of the frame
before (`KeysDelivered`). Then there is a lemma for each group of actions.
`FrameComesNearer` is the safety half of `FramesReturn`: `Work` counts the steps main loop
and coroutines have before the clock must move, and outside fast forward each step returns
to the host, moves a clock that is short of the target, or lowers `Work`.

`HostProofs` has the host's three modules and `MCHost`, for which `HostTyped` and
`HostAndMachineAgree` state what the parts promise.
- `InputInv`: the properties, with the block at rest between frames (`BlockAtRest`), for an
  edge left in it would be told again. That the disk inserted is the one in the drive
  needs that stepping the selector stays among the images (`StepStays`) and that
  `CycleDisks` is then where it was told (`CycledTo`).
- `DriftInv`: the driver's fraction is on the screen; from a placement until the guest's
  next call for a mode, a range or the cursor, the cursor is in its range and close to the
  fraction (`PointerOnScreen`, `FractionKeepsToPixel`). In between the guest may have left
  it off the screen, and all that is left is its type (`PointerTyped`). Each is rounded and
  clipped at its own edge; `ClippedApart` says that clipping two values which
  are close, to ranges with edges that are close, leaves them as close and one step more.
- `MarkInv`: what the port's mark tells. The value the reader read last is told from the
  port's as long as the mark has turned over at most once; and a packet that moved its
  pointer makes the next placement turn it.
- `PictureInv`: the open frame (`FrameInv`), the rows RENDER has (`RowsInv`: cache and
  surface agree wherever the next frame may pass over a row), the host's copy (`HostInv`),
  and what one frame (`QuietInv`) and two (`CaughtUp`) in which only the beam acts achieve.
  It is proved for frames that do not wait for changes; with the wait, see `vga_wait`.

`DeviceProofs` has the three devices and `MCDevices` (`DevicesTyped`,
`DevicesKeepTheirBytes`).

`Keyboard`: `QueueOK` says what lies between the two buffers and the event queue. To
keep a byte from being put over another it needs that a transfer is asked for while port
60h is full only if the byte there is not of the buffer. For `RepeatIsHeld`: a
keyboard in reset hears no release, so it must not repeat (`ResetIsSilent`).

`Uart8251`: `ReadInOrder` needs `BusyMeansLoading`: a load that came with nothing in
the ring would read past its end.

`MouseEvents`: `EventsHaveTimer` and `LastEventIsTrue` are inductive with the types; the
lemmas `AtTheBack` and `FromTheFront` say what the last of the events told is when one is
added or taken. Steps that change a button, or throw an event away, without telling set
`untold`, and the next event queued clears it.

## 6. Only model-checked, or not modelled

Liveness (`WaitingIsTaken`, `TimerFires`, `LoopComesRound`, `CallsReturn`, `FramesReturn`,
`ByteComes`, `EventsAreTaken`, `ByteComesUp`) is out of TLAPS's reach and checked by TLC
only; what their arguments need of safety is proved for four of them: `SliceNeverEmpty`
for `TimerFires` and `LoopComesRound`, `CallAdvances` for `CallsReturn`, `FrameComesNearer`
for `FramesReturn`. Every safety property of the passing runs is proved, `FlatSpec` for
hosts that report read errors (without, see `disk_error`) and `NoDrift` for counters that
wrap at a multiple of the period.

Proved and not checked by a run, because a property that is stands above it:
the type invariants of `Pic`, `EventQueue` and `FrameClock`; `SlaveReachesMaster` (under
`HighestFirst`); `QueueSorted` and `NewcomerGoesBehind` (under `CountsDown`);
`SliceEndsAtEvent` (under `ServedOnTime`).

`PictureCatchesUp` says nothing of frames that wait for changes, nor of a frame that was
to draw every row and was ended by a new mode before it had (`cut`): the rows it did not
reach stay as they were until something else asks for them. `PlacedIsFollowed` says
nothing of a reader that slept through two turns of the mark, nor of a packet of a
placement taken after its first read (`astray`). `DriftIsBounded` says nothing between a
call of the guest that sets mode, range or cursor and the next placement (`untouched`),
and `LastEventIsTrue` nothing between a change without an event and the next event
(`untold`). `OneRequestPerInterrupt` excepts the slave's line with the cascade's number,
which the dispatch of a spurious cascade clears (see 7).

The components with status `not_modelled` in `PROJECT.json` carry the reason, those with
`partly` what is missing; the hazards without a property say why. Most of `src/patches` is
upstream DOSBox-X: register emulation, decoders, a DOS kernel, menus and a debugger the core
never enters. It is carried for a few changed lines per file and not modelled: its parts that
decide when and in which order things happen are.

## 7. Where the code differs from what it says

| Run | Source | What happens |
|---|---|---|
| `pic_spurious` | `pic.cpp:525` | a spurious cascade is to be cleared; the call lowers the slave's line 2 instead, and the cascade is dispatched again and again |
| `disk_error` | `sparse-disk.h:137` | a short read in the middle of the base is taken for its end, and the zeros are kept in the overlay |
| `frame_keys` | `dosbox-driver.cpp:730` | a frame that does not reach the main loop drops its key edges; a key let go in it stays down |
| `frame_turbo` | `dosbox.cpp:587` | in fast forward nothing moves the virtual clock, and the frame does not return |
| `vga_wait` | `vga_draw.cpp:4126` | the first change of a frame below its top does not ask for the frame to be drawn again; with wait-for-changes the output stays half old |

Without a run, because no property the code or its comments state is broken by a
behaviour of the modules:

- `pic.cpp:307`: in single mode a controller waits for ICW4 whether or not ICW1
  announced one, and takes a mask for it. `Pic` has it so.
- `pic.cpp:580`: with a hack that skips lines (`cs_equ_ds`), a dispatch may skip every
  deliverable line, and no further check is asked for. Hence `Hacked = {}` in
  `NoLostInterrupt`. `pic.cpp:73` asserts that auto-EOI is chosen with nothing in service.
- `pic.cpp:880`: a tick handler that deletes the next one leaves it to be called.
- `dosbox-driver.cpp:933`: VMware's port is told the position only in a frame whose
  movement is at least a pixel of the INT 33h range; the comment above says every frame.
- `dosbox-driver.cpp:614`: the comment says that no row is drawn while turbo is on; rows
  are drawn, and only the copy is skipped. `Picture` has it so.
- `keyboard.cpp:332`: room for an answer is looked for where the next is read and not
  where it is written, and both go back to the start only once no answer waits: the ninth
  answer since then is put past the end, however few wait; on a machine without a mouse
  port, where none is ever taken, the ninth since the buffers were last cleared.
  `MaxResponses` keeps the model below. `:290`: on a machine without a mouse port answers
  are never brought up. `:344`: a full buffer is dropped in the middle of a scan code of
  several bytes. `:664`: the command "write to the mouse's output" stays in force for
  every later byte. `:824`: the output port's answer is put over a byte that waits to be
  read. `:2302`: the end of a transmission says that the transmitter is free when the
  next byte is already being loaded.
- `waterbox.cpp:144` clamps width and height apart from the pitch the rows are copied
  with, which shows only for a mode larger than the buffer; `:591` cuts the samples of a
  long frame at 8192; `run-wbx.cpp:155` takes an empty read before the end for a failure.

Comments found stale without a run: `waterbox-input.h:22` calls the position a range of
800 by 600 (it is 0..65535), `dosbox-driver.cpp:847-850` says that `Mouse_AfterNewVideoMode` puts the
cursor back into the middle (only `Mouse_Reset` does, but the driver writes a placed cursor
anew in each frame and clips one that is moved), `dosbox-driver.cpp:74` says `keyboard.cpp` applies the key
sets (it is `GFX_Events` in `sdlmain.cpp`).
