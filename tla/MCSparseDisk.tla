---------------------------- MODULE MCSparseDisk ----------------------------
(* Small disks: the last chunk is cut short, the base ends inside a chunk,   *)
(* and a request spans up to three chunks.                                  *)
EXTENDS SparseDisk

Base3 == [a \in 0 .. 2 |-> (a % 2) + 1]

\* Neighbouring bytes differ, so that a byte out of place shows.
Ramp  == {[k \in 0 .. MaxLen - 1 |-> (k + 1) % 3]}
=============================================================================
