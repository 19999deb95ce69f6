----------------------------- MODULE MouseEvents -----------------------------
(***************************************************************************)
(* src/patches/src/ints/mouse.cpp: the events of the INT 33h mouse. The     *)
(* host's buttons and movements are put into a queue; a timer raises IRQ 12 *)
(* for it; INT 74h takes the oldest event and calls the handler the guest   *)
(* has installed, unless the one before it has not returned. A PC-98 raises *)
(* no IRQ: its timer throws the events away. A button that goes to an active *)
(* PS/2 mouse makes no event; a new video mode empties the queue.           *)
(***************************************************************************)
EXTENDS Naturals, Sequences, SequencesExt

CONSTANTS
    MouseButtons,   \* buttons of the mouse
    QUEUE_SIZE,     \* events the queue holds
    MaxNested       \* bound: INT 74h inside INT 74h, for a handler that ends the
                    \* interrupt before it returns

ASSUME MouseEventsAssumption == QUEUE_SIZE \in Nat \ {0} /\ MaxNested \in Nat \ {0}

VARIABLES
    pc98,                \* the machine is a PC-98
    buttons,             \* mouse.buttons
    events,              \* mouse.event_queue, oldest first: what each says the buttons are
    timer_in_progress,   \* and with it MOUSE_Limit_Events is in the event queue
    irq,                 \* IRQ 12 is raised
    aux,                 \* not on a PC-98: KEYBOARD_AUX_Active
    listening,           \* sub_mask takes every event
    watched,             \* the cursor is shown, the driver is polled or a PS/2 mouse reports
    in_UIR,              \* the guest's handler runs
    returning,           \* calls of INT 74h whose INT74_Ret_Handler has not run
    told,                \* what the last event taken said the buttons are
    untold               \* a button has changed without an event, or the events that
                         \* told of it were thrown away, and none has been queued since
                         \* (no variable of the code)

guestVars == <<aux, listening, watched>>
timerVars == <<timer_in_progress, irq>>
mouseEventVars == <<pc98, buttons, events, timerVars, guestVars, in_UIR, returning, told, untold>>

MouseEventsInit ==
    /\ pc98 \in BOOLEAN
    /\ buttons = {} /\ events = <<>> /\ timer_in_progress = FALSE /\ irq = FALSE
    /\ aux = FALSE /\ listening = FALSE /\ watched = FALSE
    /\ in_UIR = FALSE /\ returning = 0
    /\ told = {} /\ untold = FALSE

----------------------------------------------------------------------------

MouseInterruptEnabled == aux \/ listening \/ watched

\* Mutant: the timer is not started for a guest that takes no interrupt.
StartTimerOnce ==
    /\ timer_in_progress' = (timer_in_progress \/ MouseInterruptEnabled)
    /\ irq' = (irq \/ (~timer_in_progress /\ ~pc98 /\ MouseInterruptEnabled))

\* The timer is started unless it runs, and IRQ 12 raised for a guest that takes it.
StartTimer ==
    /\ timer_in_progress' = TRUE
    /\ irq' = (irq \/ (~timer_in_progress /\ ~pc98 /\ MouseInterruptEnabled))

\* Mutant: an event is put where the oldest is taken from.
QueuedFirst(said) == IF Len(events) < QUEUE_SIZE THEN <<said>> \o events ELSE events

Queued(said) == IF Len(events) < QUEUE_SIZE THEN Append(events, said) ELSE events

\* Mouse_ButtonPressed and Mouse_ButtonReleased: a byte for an active PS/2 mouse
\* (Keyboard), or else an event, dropped if the queue is full.
Mouse_Button(button) ==
    /\ buttons' = IF button \in buttons THEN buttons \ {button} ELSE buttons \cup {button}
    /\ IF aux THEN untold' = TRUE /\ UNCHANGED <<events, timerVars>>
       ELSE events' = Queued(buttons') /\ untold' = (Len(events) >= QUEUE_SIZE) /\ StartTimer
    /\ UNCHANGED <<pc98, guestVars, in_UIR, returning, told>>

\* Mouse_AddEvent of a movement or the wheel: only into an empty queue, where
\* one that is not empty leaves the timer to the events that are there.
Mouse_Moved ==
    /\ events = <<>>
    /\ events' = Queued(buttons) /\ untold' = FALSE
    /\ StartTimer
    /\ UNCHANGED <<pc98, buttons, guestVars, in_UIR, returning, told>>

\* The timer: again while there are events.
MOUSE_Limit_Events ==
    LET left == IF pc98 /\ events # <<>> THEN Tail(events) ELSE events
    IN  /\ timer_in_progress
        /\ events' = left
        /\ told' = IF left # events THEN Head(events) ELSE told
        /\ timer_in_progress' = (left # <<>>)
        /\ irq' = (irq \/ (left # <<>> /\ ~pc98 /\ MouseInterruptEnabled))
        /\ UNCHANGED <<pc98, buttons, guestVars, in_UIR, returning, untold>>

Takes == events # <<>> /\ ~in_UIR

\* INT74_Handler: the oldest event, to the guest's handler if it has one.
INT74 ==
    /\ irq /\ returning < MaxNested
    /\ irq' = FALSE
    /\ IF Takes
       THEN events' = Tail(events) /\ told' = Head(events) /\ in_UIR' = listening
       ELSE UNCHANGED <<events, told, in_UIR>>
    /\ returning' = returning + 1
    /\ UNCHANGED <<pc98, buttons, timer_in_progress, guestVars, untold>>

\* It returns after the handler it called.
INT74_Ret ==
    /\ returning > (IF in_UIR THEN 1 ELSE 0) /\ returning' = returning - 1
    /\ timer_in_progress' = (timer_in_progress \/ events # <<>>)
    /\ UNCHANGED <<pc98, buttons, events, irq, guestVars, in_UIR, told, untold>>

\* The guest's handler returns.
UIR ==
    /\ in_UIR /\ in_UIR' = FALSE
    /\ UNCHANGED <<pc98, buttons, events, timerVars, guestVars, returning, told, untold>>

----------------------------------------------------------------------------
(* The guest. *)

\* It installs a handler with INT 33h function 0Ch, or removes it; it shows the
\* cursor or hides it, polls the driver; it switches the PS/2 mouse.
GuestSwitches ==
    /\ \/ listening' = ~listening /\ UNCHANGED <<aux, watched>>
       \/ watched' = ~watched /\ UNCHANGED <<aux, listening>>
       \/ ~pc98 /\ aux' = ~aux /\ UNCHANGED <<listening, watched>>
    /\ UNCHANGED <<pc98, buttons, events, timerVars, in_UIR, returning, told, untold>>

\* A new mode hides the cursor; that is all its guest may be watched by.
Hidden == watched' \in BOOLEAN /\ (watched' => watched)

\* Mouse_AfterNewVideoMode: the events go, and what they told of the buttons;
\* the handler stays.
NewVideoModeSet ==
    /\ events' = <<>> /\ timer_in_progress' = FALSE
    /\ untold' = (untold \/ events # <<>>)
    /\ Hidden
    /\ UNCHANGED <<pc98, buttons, irq, aux, listening, in_UIR, returning, told>>

\* INT 33h function 00h or 21h, Mouse_Reset: nothing is held, nobody listens, and
\* the PS/2 mouse is taken over.
DriverReset ==
    /\ buttons' = {} /\ events' = <<>> /\ timer_in_progress' = FALSE
    /\ listening' = FALSE /\ in_UIR' = FALSE /\ told' = {} /\ untold' = FALSE
    /\ aux' = FALSE /\ Hidden
    /\ UNCHANGED <<pc98, irq, returning>>

MouseEventsNext ==
    \/ \E button \in MouseButtons : Mouse_Button(button)
    \/ Mouse_Moved \/ MOUSE_Limit_Events \/ INT74 \/ INT74_Ret \/ UIR
    \/ GuestSwitches \/ NewVideoModeSet \/ DriverReset

\* The timer comes due, a raised IRQ is served and a handler returns.
MouseEventsFairness ==
    /\ WF_mouseEventVars(MOUSE_Limit_Events) /\ WF_mouseEventVars(INT74_Ret) /\ WF_mouseEventVars(UIR)
    /\ SF_mouseEventVars(INT74)

MouseEventsSpec == MouseEventsInit /\ [][MouseEventsNext]_mouseEventVars /\ MouseEventsFairness

----------------------------------------------------------------------------
(* Correctness *)

MouseEventsTypeOK ==
    /\ pc98 \in BOOLEAN /\ buttons \subseteq MouseButtons /\ told \subseteq MouseButtons
    /\ events \in Seq(SUBSET MouseButtons) /\ Len(events) <= QUEUE_SIZE
    /\ timer_in_progress \in BOOLEAN /\ irq \in BOOLEAN
    /\ aux \in BOOLEAN /\ listening \in BOOLEAN /\ watched \in BOOLEAN
    /\ in_UIR \in BOOLEAN /\ returning \in 0 .. MaxNested /\ untold \in BOOLEAN

\* An event that waits has the timer running, however it came to wait: no event
\* waits for the next one to be noticed.
EventsHaveTimer == events # <<>> => timer_in_progress

\* The events taken, and those that wait, end with the buttons the mouse has: not
\* when the last change found the queue full or went to the PS/2 mouse, and not
\* when a new video mode threw its event away, until the next event makes up for it.
LastEventIsTrue ==
    ~untold => buttons = IF events = <<>> THEN told ELSE Last(events)

\* While events wait and the guest listens they are taken, for ever: neither a
\* handler that runs long nor a full queue stops the flow.
EventsAreTaken ==
    <>[](events # <<>> /\ listening) => []<><<events # <<>> /\ events' = Tail(events)>>_events
=============================================================================
