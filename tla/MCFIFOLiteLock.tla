--------------------------- MODULE MCFIFOLiteLock ---------------------------
(* Model-checking instance of the FIFO-lite lock. *)
EXTENDS FIFOLiteLock

CONSTANTS p1, p2, p3
=============================================================================
