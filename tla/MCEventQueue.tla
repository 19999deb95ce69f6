---------------------------- MODULE MCEventQueue ----------------------------
(* The event queue on milliseconds of two or four cycles.                    *)
EXTENDS EventQueue
=============================================================================
