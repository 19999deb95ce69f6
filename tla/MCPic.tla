------------------------------- MODULE MCPic -------------------------------
(* Instances of Pic for TLC: four lines per controller, so that a line lies  *)
(* above and one below the cascade of an AT, and few lines with a device.    *)
EXTENDS Pic

NoMasks   == {}
TwoMasks  == {{}, {0}}
NoIcw     == {}
SlaveIcw  == {<<FALSE, 3>>}
AllIcws   == {<<FALSE, 2>>, <<FALSE, 3>>, <<TRUE, 2>>, <<TRUE, 3>>}
=============================================================================
