------------------------------ MODULE MCDevices ------------------------------
(* The input devices. They share no state: a behaviour is one device's, chosen *)
(* at the start, with the others at rest.                                      *)
EXTENDS Keyboard, MouseEvents, Uart8251

VARIABLE device

vars == <<device, keyboardVars, mouseEventVars, uartVars>>

\* A device at rest starts in one of its initial states.
Init ==
    /\ KeyboardInit /\ MouseEventsInit /\ UartInit
    /\ device \in {"keyboard", "mouse", "uart"}
    /\ device # "keyboard" => ~enable_aux
    /\ device # "mouse" => ~pc98
    /\ data = CHOOSE code \in Codes : TRUE

Next ==
    /\ UNCHANGED device
    /\ \/ device = "keyboard" /\ KeyboardNext /\ UNCHANGED <<mouseEventVars, uartVars>>
       \/ device = "mouse" /\ MouseEventsNext /\ UNCHANGED <<keyboardVars, uartVars>>
       \/ device = "uart" /\ UartNext /\ UNCHANGED <<keyboardVars, mouseEventVars>>

\* Each device's fairness: a device at rest has no step to take.
Spec ==
    /\ Init /\ [][Next]_vars
    /\ KeyboardFairness /\ MouseEventsFairness /\ UartFairness

\* Each device keeps its types, and its buffers within their sizes.
DevicesTypeOK == KeyboardTypeOK /\ MouseEventsTypeOK /\ UartTypeOK
=============================================================================
