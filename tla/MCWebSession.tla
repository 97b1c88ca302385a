---------------------------- MODULE MCWebSession ----------------------------
(* The tabs, and a tab's query slots, are interchangeable.                  *)
EXTENDS WebSession, TLC

Interchangeable == Permutations(Tabs) \cup Permutations(Slots)

=============================================================================
