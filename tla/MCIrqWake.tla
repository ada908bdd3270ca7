------------------------------ MODULE MCIrqWake ------------------------------
(* IrqWake for TLC. *)
EXTENDS IrqWake

==============================================================================
