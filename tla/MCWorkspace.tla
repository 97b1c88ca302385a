------------------------------ MODULE MCWorkspace ------------------------------
(* Two endpoints that differ in every facet.                                *)
EXTENDS Workspace

MCFleet == [
  e1 |-> [foundBy |-> {"a"}, risk |-> "high", override |-> NoValue,
          compliance |-> "partial", os |-> "windows", excluded |-> {},
          present |-> {"sentinelone"}, s1 |-> "unknown", dlp |-> NoValue, owned |-> TRUE],
  e2 |-> [foundBy |-> {"a", "b"}, risk |-> NoValue, override |-> "critical",
          compliance |-> NoValue, os |-> "linux", excluded |-> {"symantec_dlp"},
          present |-> {}, s1 |-> NoValue, dlp |-> "inactive", owned |-> FALSE]]

=============================================================================
