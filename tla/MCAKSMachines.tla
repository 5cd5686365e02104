--------------------------- MODULE MCAKSMachines ---------------------------
(* Instances of AKSMachines for TLC. *)
EXTENDS AKSMachines
============================================================================
