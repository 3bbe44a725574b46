--------------------------- MODULE MCHeapPreempt ---------------------------
(* A small instance of HeapPreempt for TLC.                                  *)
EXTENDS HeapPreempt

============================================================================
