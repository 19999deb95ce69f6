---------------------------- MODULE MCFrameClock ----------------------------
(* Frames of a few ticks.                                                    *)
EXTENDS FrameClock
=============================================================================
