------------------------------ MODULE MCMeasurement ------------------------------
(* One device between two addresses, an agent that may draw one of two epochs. *)
EXTENDS Measurement, TLC

\* Addresses and epochs are only compared.
Interchangeable == Permutations(Address) \cup Permutations(Epoch)
================================================================================
