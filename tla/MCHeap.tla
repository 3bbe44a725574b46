------------------------------- MODULE MCHeap -------------------------------
(* Small instances of Heap for TLC.                                          *)
EXTENDS Heap

============================================================================
