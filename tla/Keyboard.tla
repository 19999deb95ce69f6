------------------------------ MODULE Keyboard ------------------------------
(***************************************************************************)
(* src/patches/src/hardware/keyboard.cpp: the 8042 of an AT, with the       *)
(* keyboard and the PS/2 mouse behind it. Bytes of both wait in one buffer, *)
(* answers of the controller in another; KEYBOARD_TransferBuffer, an event  *)
(* of the event queue, puts one byte into port 60h.                         *)
(*                                                                          *)
(* Only how many bytes wait is kept: both buffers are first in, first out.  *)
(* The answers' buffer has no ring: it is filled up to its end, and from its *)
(* start again only once every answer in it has been taken.                 *)
(***************************************************************************)
EXTENDS Naturals

CONSTANTS
    Keys,          \* keys of the keyboard
    NoKey,         \* KBD_NONE
    KEYBUFSIZE,    \* bytes the buffer holds
    MaxPacket,     \* bytes of the longest packet of the mouse
    MaxResponses   \* bound: answers given since none was waiting, up to the 8 for
                   \* which buf8042 has room; the code's own test of a full buffer
                   \* comes too late to keep to it, and never holds within it

ASSUME KeyboardAssumption ==
    /\ KEYBUFSIZE \in Nat \ {0} /\ MaxPacket \in Nat /\ MaxPacket >= 2 /\ MaxResponses \in Nat \ {0}
    /\ NoKey \notin Keys

VARIABLES
    enable_aux,               \* setting: there is a mouse port
    used,                     \* bytes of the keyboard and the mouse that wait
    buf8042_len,              \* answers of the controller since none was waiting
    responses,                \* and those that wait: buf8042_len - buf8042_pos
    scheduled,                \* a transfer has been asked for
    transfers,                \* KEYBOARD_TransferBuffer events in the event queue
    p60changed,               \* port 60h has a byte that has not been read
    origin,                   \* where that byte is from: the buffer, an answer of the
                              \* controller, or its output port
    command,                  \* what the next byte to port 60h is for
    reset,                    \* the keyboard resets itself
    active, scanning,
    repeatKey,                \* repeat.key
    reporting,                \* ps2mouse.reporting in stream mode
    down,                     \* keys the host holds
    overrun                   \* a byte of the buffer was put over one that had not
                              \* been read (no variable of the code)

answerVars == <<buf8042_len, responses>>
queueVars == <<used, scheduled, transfers>>
portVars == <<p60changed, origin>>
hostVars == <<repeatKey, down>>
keyboardVars == <<enable_aux, queueVars, answerVars, portVars, command, reset, active, scanning,
                  reporting, hostVars, overrun>>

Commands == {"none", "parameter", "scanset", "command", "output", "auxoutput", "aux", "outport"}

KeyboardInit ==
    /\ enable_aux \in BOOLEAN
    /\ used = 0 /\ scheduled = FALSE /\ transfers = 0 /\ responses = 0 /\ buf8042_len = 0
    /\ p60changed = FALSE /\ origin = "buffer"
    /\ command = "none" /\ reset = FALSE /\ active = TRUE /\ scanning = TRUE
    /\ repeatKey = NoKey /\ reporting = FALSE
    /\ down = {} /\ overrun = FALSE

----------------------------------------------------------------------------
(* The buffer, with the event that empties it. *)

Queue == [used |-> used, scheduled |-> scheduled, transfers |-> transfers,
          len |-> buf8042_len, responses |-> responses]

\* KEYBOARD_ClrBuffer: the answers go too, and every transfer.
Cleared == [used |-> 0, scheduled |-> FALSE, transfers |-> 0, len |-> 0, responses |-> 0]

\* Mutant: a full buffer keeps its transfers when it is dropped.
AddBufferEarly(queue) ==
    IF queue.used >= KEYBUFSIZE THEN [queue EXCEPT !.used = 0, !.len = 0, !.responses = 0]
    ELSE [queue EXCEPT !.used = @ + 1]

\* Mutant: the buffer takes one byte more than it has room for.
AddBufferBeyond(queue) ==
    IF queue.used > KEYBUFSIZE THEN Cleared
    ELSE [queue EXCEPT !.used = @ + 1, !.scheduled = TRUE,
          !.transfers = IF queue.scheduled THEN @ ELSE @ + 1]

\* A full buffer is dropped whole; a byte asks for a transfer unless one is
\* asked for, or the byte before it has not been read.
AddBuffer(queue) ==
    LET start == ~queue.scheduled /\ ~p60changed
    IN  IF queue.used >= KEYBUFSIZE THEN Cleared
        ELSE [used |-> queue.used + 1,
              scheduled |-> queue.scheduled \/ start,
              transfers |-> IF start THEN queue.transfers + 1 ELSE queue.transfers,
              len |-> queue.len, responses |-> queue.responses]

SetQueue(queue) ==
    /\ used' = queue.used /\ scheduled' = queue.scheduled
    /\ transfers' = queue.transfers
    /\ buf8042_len' = queue.len /\ responses' = queue.responses

\* KEYBOARD_ClrBuffer, then a byte that acknowledges.
Acknowledge == AddBuffer(Cleared)

\* A transfer is asked for where one is wanting.
Restarted(wanted) ==
    LET start == wanted /\ used > 0 /\ ~scheduled
    IN  /\ scheduled' = (scheduled \/ start)
        /\ transfers' = IF start THEN transfers + 1 ELSE transfers

----------------------------------------------------------------------------
(* The keyboard and the mouse. *)

\* Mutant: a released key goes on being repeated.
ReleasedLate(key) == repeatKey

Released(key) == IF repeatKey = key THEN NoKey ELSE repeatKey

\* KEYBOARD_AddKey of the host's key; it is lost on a keyboard in reset.
AddKey(key) ==
    /\ down' = IF key \in down THEN down \ {key} ELSE down \cup {key}
    /\ IF reset THEN UNCHANGED <<queueVars, answerVars, repeatKey>>
       ELSE /\ repeatKey' = IF key \in down THEN Released(key) ELSE key
            /\ SetQueue(AddBuffer(Queue))
    /\ UNCHANGED <<enable_aux, portVars, command, reset, active, scanning, reporting, overrun>>

\* KEYBOARD_TickHandler, on the tick on which repeat.wait runs out.
Repeat ==
    /\ ~reset /\ active /\ scanning /\ repeatKey # NoKey
    /\ SetQueue(AddBuffer(Queue))
    /\ UNCHANGED <<enable_aux, portVars, command, reset, active, scanning, reporting, hostVars, overrun>>

\* KEYBOARD_AUX_Event: a packet goes in whole or not at all. Two bytes stand
\* for the three or four of a packet.
AUX_Event ==
    /\ reporting /\ used + MaxPacket < KEYBUFSIZE
    /\ SetQueue(AddBuffer(AddBuffer(Queue)))
    /\ UNCHANGED <<enable_aux, portVars, command, reset, active, scanning, reporting, hostVars, overrun>>

----------------------------------------------------------------------------
(* KEYBOARD_TransferBuffer and KEYBOARD_ResetDelay, from the event queue. *)

\* Mutant: a byte of the buffer goes first, and the answer's transfer is used up.
TransferResponseLate == enable_aux /\ responses > 0 /\ used = 0

\* Answers of the controller take priority.
TransferResponse == enable_aux /\ responses > 0

TransferBuffer ==
    /\ transfers > 0 /\ transfers' = transfers - 1
    /\ IF TransferResponse
       THEN /\ responses' = responses - 1
            /\ buf8042_len' = IF responses = 1 THEN 0 ELSE buf8042_len
            /\ p60changed' = TRUE /\ origin' = "controller"
            /\ UNCHANGED <<used, scheduled, overrun>>
       ELSE /\ scheduled' = FALSE
            /\ IF used = 0 THEN UNCHANGED <<used, portVars, overrun>>
               ELSE /\ used' = used - 1
                    /\ p60changed' = TRUE /\ origin' = "buffer"
                    /\ overrun' = (overrun \/ (p60changed /\ origin = "buffer"))
            /\ UNCHANGED answerVars
    /\ UNCHANGED <<enable_aux, command, reset, active, scanning, reporting, hostVars>>

\* KEYBOARD_Add8042Response: each answer has a transfer of its own.
Answered(n) ==
    /\ buf8042_len + n <= MaxResponses
    /\ buf8042_len' = buf8042_len + n
    /\ responses' = responses + n /\ transfers' = transfers + n

ResetDelay ==
    /\ reset /\ reset' = FALSE
    /\ Answered(2)
    /\ UNCHANGED <<enable_aux, used, scheduled, portVars, command, active, scanning, reporting, hostVars,
                   overrun>>

----------------------------------------------------------------------------
(* Port 60h. *)

\* Mutant: the read does not ask for the byte after.
ReadRestartsNothing == UNCHANGED <<scheduled, transfers>>

ReadRestarts == Restarted(TRUE)

read_p60 ==
    /\ p60changed' = FALSE
    /\ ReadRestarts
    /\ UNCHANGED <<enable_aux, used, answerVars, origin, command, reset, active, scanning, reporting, hostVars,
                   overrun>>

\* A command to the keyboard that it acknowledges; some want a parameter, and
\* some enable or disable scanning.
KeyboardCommand(next, scan) ==
    /\ command = "none" /\ ~reset
    /\ scan = scanning \/ next = "none"
    /\ SetQueue(Acknowledge) /\ command' = next /\ scanning' = scan
    /\ UNCHANGED <<enable_aux, portVars, reset, active, reporting, hostVars, overrun>>

\* "Identify": an answer of three bytes.
IdentifyKeyboard ==
    /\ command = "none" /\ ~reset
    /\ SetQueue(AddBuffer(AddBuffer(Acknowledge)))
    /\ UNCHANGED <<enable_aux, portVars, command, reset, active, scanning, reporting, hostVars, overrun>>

\* "Reset": KEYBOARD_Reset, an answer, and the delay of the reset.
KeyboardReset ==
    /\ command = "none" /\ ~reset
    /\ used' = 0 /\ scheduled' = FALSE /\ transfers' = 1
    /\ buf8042_len' = 1 /\ responses' = 1
    /\ p60changed' = FALSE /\ reset' = TRUE
    /\ active' = TRUE /\ scanning' = TRUE /\ repeatKey' = NoKey
    /\ UNCHANGED <<enable_aux, origin, command, reporting, down, overrun>>

\* A byte that a command wanted.
WriteParameter ==
    /\ ~reset
    /\ \/ command \in {"parameter", "output"} /\ SetQueue(Acknowledge)
       \/ command = "scanset" /\ SetQueue(AddBuffer(Queue))
       \/ command = "scanset" /\ SetQueue(AddBuffer(AddBuffer(Queue)))
    /\ command' = "none"
    /\ UNCHANGED <<enable_aux, portVars, reset, active, scanning, reporting, hostVars, overrun>>

\* CMD_WRITEAUXOUT stays in force until the next command to port 64h.
WriteAuxOutput ==
    /\ command = "auxoutput"
    /\ SetQueue(AddBuffer(Queue))
    /\ UNCHANGED <<enable_aux, portVars, command, reset, active, scanning, reporting, hostVars, overrun>>

\* KEYBOARD_AUX_Write: a command to the mouse, some of which switch its reports.
AUX_Write(report) ==
    /\ command = "aux" /\ command' = "none"
    /\ \/ SetQueue(AddBuffer(Queue))
       \/ SetQueue(AddBuffer(AddBuffer(Queue)))
    /\ reporting' = report
    /\ UNCHANGED <<enable_aux, portVars, reset, active, scanning, hostVars, overrun>>

\* CMD_SETCOMMAND: a new command byte; and CMD_SETOUTPORT, the A20 gate.
SetCommand(enable) ==
    /\ command = "command" /\ command' = "none"
    /\ active' = enable /\ Restarted(~p60changed /\ enable)
    /\ UNCHANGED <<enable_aux, used, answerVars, portVars, reset, scanning, reporting, hostVars, overrun>>

SetOutport ==
    /\ command = "outport" /\ command' = "none"
    /\ UNCHANGED <<enable_aux, queueVars, answerVars, portVars, reset, active, scanning, reporting, hostVars,
                   overrun>>

----------------------------------------------------------------------------
(* Port 64h: nothing is heard during a reset. *)

\* A command the controller answers; the self tests disable the keyboard.
Add8042Response(test) ==
    /\ ~reset /\ Answered(1)
    /\ active' = (active /\ ~test)
    /\ UNCHANGED <<enable_aux, used, scheduled, portVars, command, reset, scanning, reporting, hostVars,
                   overrun>>

\* Enable the keyboard, or the mouse port; or disable the keyboard.
Activate ==
    /\ ~reset
    /\ \/ active' = TRUE
       \/ enable_aux /\ UNCHANGED active
    /\ Restarted(~p60changed)
    /\ UNCHANGED <<enable_aux, used, answerVars, portVars, command, reset, scanning, reporting, hostVars,
                   overrun>>

Deactivate ==
    /\ ~reset /\ active' = FALSE
    /\ UNCHANGED <<enable_aux, queueVars, answerVars, portVars, command, reset, scanning, reporting, hostVars,
                   overrun>>

\* The output port is answered at once.
OutportOnBuffer ==
    /\ ~reset
    /\ p60changed' = TRUE /\ origin' = "outport"
    /\ UNCHANGED <<enable_aux, queueVars, answerVars, command, reset, active, scanning, reporting, hostVars,
                   overrun>>

\* A command that wants a byte on port 60h.
ControllerCommand(next) ==
    /\ ~reset
    /\ next \in {"auxoutput", "aux"} => enable_aux
    /\ command' = next
    /\ UNCHANGED <<enable_aux, queueVars, answerVars, portVars, reset, active, scanning, reporting, hostVars,
                   overrun>>

\* INT 15h C2h: the BIOS talks to the mouse without the ports, and clears the
\* buffer of what the mouse answers, with whatever else is in it.
MouseService(report) ==
    /\ SetQueue(Cleared) /\ reporting' = report
    /\ UNCHANGED <<enable_aux, portVars, command, reset, active, scanning, hostVars, overrun>>

write_p60 ==
    \/ \E next \in {"none", "parameter", "scanset"}, scan \in BOOLEAN : KeyboardCommand(next, scan)
    \/ IdentifyKeyboard \/ KeyboardReset
    \/ WriteParameter \/ WriteAuxOutput \/ SetOutport
    \/ \E report \in BOOLEAN : AUX_Write(report)
    \/ \E enable \in BOOLEAN : SetCommand(enable)

write_p64 ==
    \/ \E test \in BOOLEAN : Add8042Response(test)
    \/ Activate \/ Deactivate \/ OutportOnBuffer
    \/ \E next \in {"command", "output", "auxoutput", "aux", "outport"} : ControllerCommand(next)

KeyboardNext ==
    \/ \E key \in Keys : AddKey(key)
    \/ Repeat \/ AUX_Event
    \/ TransferBuffer \/ ResetDelay
    \/ read_p60 \/ write_p60 \/ write_p64
    \/ \E report \in BOOLEAN : MouseService(report)

\* An event in the event queue comes due.
KeyboardFairness == WF_keyboardVars(TransferBuffer)

KeyboardSpec == KeyboardInit /\ [][KeyboardNext]_keyboardVars /\ KeyboardFairness

----------------------------------------------------------------------------
(* Correctness *)

KeyboardTypeOK ==
    /\ enable_aux \in BOOLEAN
    /\ used \in 0 .. KEYBUFSIZE
    /\ buf8042_len \in 0 .. MaxResponses /\ responses \in 0 .. buf8042_len
    /\ scheduled \in BOOLEAN /\ transfers \in Nat
    /\ p60changed \in BOOLEAN /\ origin \in {"buffer", "controller", "outport"}
    /\ command \in Commands /\ reset \in BOOLEAN /\ active \in BOOLEAN /\ scanning \in BOOLEAN
    /\ repeatKey \in Keys \cup {NoKey} /\ reporting \in BOOLEAN
    /\ down \subseteq Keys /\ overrun \in BOOLEAN

\* A transfer that is asked for is in the event queue, and with a mouse port so
\* is one for each answer that waits: the two kinds use up each other's events
\* and neither is left without.
TransfersMatch ==
    IF enable_aux THEN transfers = responses + (IF scheduled THEN 1 ELSE 0)
    ELSE scheduled => transfers > 0

\* A byte in the buffer has a transfer asked for, or the byte before it is still
\* to be read, which asks for one: no byte waits for good.
NoByteForgotten == used > 0 => scheduled \/ p60changed

\* Whatever waits has an event or a byte to be read that will bring it up.
NoByteStranded == TransfersMatch /\ NoByteForgotten

\* With a mouse port, no byte of the keyboard or the mouse is put over another
\* that has not been read, whatever the controller is asked meanwhile.
NoOverrun == enable_aux => ~overrun

\* A key that is repeated is held.
RepeatIsHeld == repeatKey # NoKey => repeatKey \in down

\* A byte in the buffer comes up in port 60h, or the buffer is cleared.
ByteComes == used > 0 ~> p60changed \/ used = 0
=============================================================================
