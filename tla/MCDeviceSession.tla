--------------------------- MODULE MCDeviceSession ---------------------------
(* DeviceSession for TLC: processes of one kind are interchangeable.        *)
EXTENDS DeviceSession, TLC

Symmetry == Permutations(Native) \cup Permutations(Go)
=============================================================================
