-------------------------- MODULE MCNetworkMapDelivery --------------------------
(***************************************************************************)
(* NetworkMapDelivery on small instances.  Slots are interchangeable in    *)
(* every definition, so the runs that check no liveness may permute them.  *)
(***************************************************************************)
EXTENDS NetworkMapDelivery, TLC

SlotSymmetry == Permutations(Slots)
================================================================================
