---------------------------- MODULE MCToySystem -----------------------------
(* Instances of ToySystem for TLC. *)
EXTENDS ToySystem

MCCpuConfig == [ops |-> 3, max_outstanding |-> 2, slots |-> 3]
MCDmaConfig == [ops |-> 2, max_outstanding |-> 1, max_burst |-> 2, slots |-> 1, base |-> 3]
=============================================================================
