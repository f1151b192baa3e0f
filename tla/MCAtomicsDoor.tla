--------------------------- MODULE MCAtomicsDoor ---------------------------
(* Instances of AtomicsDoor for TLC. *)
EXTENDS AtomicsDoor
=============================================================================
