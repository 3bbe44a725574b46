--------------------------- MODULE MCSyscallGate ---------------------------
(* Small instances of SyscallGate for TLC.                                   *)
EXTENDS SyscallGate, TLC

Symmetry == Permutations(Task) \cup Permutations(Val)

============================================================================
