----------------------------- MODULE EndpointsPage -----------------------------
(***************************************************************************)
(* The endpoints page: the facet filters and the counts beside them, the   *)
(* rows a filter leaves, and the selection that bulk assignment posts.     *)
(*                                                                         *)
(* All filtering is done in the page, over the one answer it has cached.   *)
(* Names, scores and versions are abstracted to what the filters tell      *)
(* apart: a score to its level, a host name to the searches that find it,  *)
(* and of the products SentinelOne and DLP stand for all.                  *)
(***************************************************************************)
EXTENDS Naturals, FiniteSets

CONSTANTS Fleet,       \* id -> what the page reads of that endpoint
          MaxFilters   \* bound: values selected together

VARIABLES raw,         \* the ids in the cached answer of ['endpoints-all']
          configured,  \* useConnectedIntegrations().configured
          tags,        \* useEndpointProductTags().tags
          filters,     \* the selected <<facet, value>> pairs
          selected,    \* selectedIds
          modal,       \* showAssignModal
          posting,     \* the ids of a bulk assignment in flight
          ticked       \* what the user ticked while it was listed

endpointVars == <<raw, configured, tags, filters, selected, modal, posting, ticked>>

Ids == DOMAIN Fleet
NoValue == "none"
Levels == {"low", "medium", "high", "critical"}
Products == {"sentinelone", "symantec_dlp"}
Tag == [sentinelone |-> "S1", symantec_dlp |-> "DLP"]

ASSUME FleetFields ==
  Fleet \in [DOMAIN Fleet ->
    [foundBy: SUBSET {"a", "b"}, risk: Levels \cup {NoValue}, override: Levels \cup {NoValue},
     compliance: {"compliant", "partial", "non_compliant", NoValue},
     os: {"windows", "macos", "linux", "other", "unknown"},
     excluded: SUBSET Products, present: SUBSET Products,
     s1: {"active", "inactive", "unknown", NoValue},
     dlp: {"active", "inactive", "unknown", NoValue}, owned: BOOLEAN]]

(* endpointProducts: the products the console is configured to show.        *)
EndpointProducts == {p \in Products : p \in configured /\ Tag[p] \in tags}

(* endpointProductState.                                                    *)
ProductState(e, p) ==
  IF p \in e.excluded THEN "excluded"
  ELSE IF e.compliance = NoValue THEN "unassessed"
  ELSE IF p \in e.present THEN "has" ELSE "missing"

(* filterGroups: the values each facet offers now.                          *)
Offered ==
  ({"risk"} \X Levels)
  \cup ({"compliance"} \X {"compliant", "partial", "non_compliant"})
  \cup ({"os"} \X {"windows", "macos", "linux", "other"})
  \cup ({"agent"} \X (EndpointProducts \X {"has", "missing"}))
  \cup (IF configured = {} THEN {} ELSE {<<"agentStatus", "disabled_agent">>})
  \cup (IF "sentinelone" \in configured
          THEN {"agentStatus"} \X {"s1_active", "s1_inactive"} ELSE {})
  \cup (IF "symantec_dlp" \in configured
          THEN {"agentStatus"} \X {"dlp_active", "dlp_inactive"} ELSE {})
  \cup ({"owner"} \X {"assigned", "unassigned"})

Disabled(e) == e.s1 = "inactive" \/ e.dlp = "inactive"

(* facetCounts: whether an endpoint is counted beside a value.              *)
Counted(e, facet, value) ==
  CASE facet = "risk" -> e.risk = value
    [] facet = "compliance" -> e.compliance = value
    [] facet = "os" -> e.os = value
    [] facet = "agent" -> ProductState(e, value[1]) = value[2]
    [] facet = "agentStatus" ->
         \/ value = "disabled_agent" /\ Disabled(e)
         \/ value = "s1_active" /\ e.s1 = "active"
         \/ value = "s1_inactive" /\ e.s1 \notin {"active", NoValue}
         \/ value = "dlp_active" /\ e.dlp = "active"
         \/ value = "dlp_inactive" /\ e.dlp \notin {"active", NoValue}
    [] facet = "owner" -> e.owned = (value = "assigned")

\* Mutant: an agent that is not active is taken for an inactive one.
MatchesInactiveOnly(e, facet, value) ==
  CASE facet = "search" -> value \in e.foundBy
    [] facet = "risk" ->
         value = (IF e.override # NoValue THEN e.override
                  ELSE IF e.risk # NoValue THEN e.risk ELSE "low")
    [] facet = "compliance" -> e.compliance = value
    [] facet = "os" -> e.os = value
    [] facet = "agent" -> ProductState(e, value[1]) = value[2]
    [] facet = "agentStatus" ->
         \/ value = "disabled_agent" /\ Disabled(e)
         \/ value = "s1_active" /\ e.s1 = "active"
         \/ value = "s1_inactive" /\ e.s1 = "inactive"
         \/ value = "dlp_active" /\ e.dlp = "active"
         \/ value = "dlp_inactive" /\ e.dlp = "inactive"
    [] facet = "owner" -> e.owned = (value = "assigned")

(* The predicate of the filter, value by value.  A missing score is 0.      *)
Matches(e, facet, value) ==
  CASE facet = "search" -> value \in e.foundBy
    [] facet = "risk" ->
         value = (IF e.override # NoValue THEN e.override
                  ELSE IF e.risk # NoValue THEN e.risk ELSE "low")
    [] facet = "compliance" -> e.compliance = value
    [] facet = "os" -> e.os = value
    [] facet = "agent" -> ProductState(e, value[1]) = value[2]
    [] facet = "agentStatus" ->
         \/ value = "disabled_agent" /\ Disabled(e)
         \/ value = "s1_active" /\ e.s1 = "active"
         \/ value = "s1_inactive" /\ e.s1 # NoValue /\ e.s1 # "active"
         \/ value = "dlp_active" /\ e.dlp = "active"
         \/ value = "dlp_inactive" /\ e.dlp # NoValue /\ e.dlp # "active"
    [] facet = "owner" -> e.owned = (value = "assigned")

(* Values of products that are no longer configured stay selected, and are  *)
(* ignored.                                                                 *)
Effective(chosen) ==
  {f \in chosen :
     /\ f[1] = "agent" => f[2][1] \in EndpointProducts
     /\ f[1] = "agentStatus" =>
          \/ f[2] = "disabled_agent"
          \/ f[2] \in {"s1_active", "s1_inactive"} /\ "sentinelone" \in configured
          \/ f[2] \in {"dlp_active", "dlp_inactive"} /\ "symantec_dlp" \in configured}

(* The rows: some value of every facet with a selected value.               *)
Listed(chosen) ==
  LET effective == Effective(chosen)
  IN {id \in raw : \A f \in effective :
        \E g \in effective : g[1] = f[1] /\ Matches(Fleet[id], g[1], g[2])}

EndpointsInit ==
  /\ raw = {} /\ configured = {} /\ tags = {"S1", "DLP"}
  /\ filters = {} /\ selected = {} /\ modal = FALSE /\ posting = {} /\ ticked = {}

(* An answer of ['endpoints-all'], or of the integrations and tags queries. *)
EndpointsArrive ==
  /\ raw' \in SUBSET Ids
  /\ UNCHANGED <<configured, tags, filters, selected, modal, posting, ticked>>

ProductsArrive ==
  /\ \/ configured' = {} /\ tags' = {"S1", "DLP"}
     \/ configured' = Products /\ tags' \in {{"S1"}, {"S1", "DLP"}}
  /\ UNCHANGED <<raw, filters, selected, modal, posting, ticked>>

(* toggleFilter, step by step the groups' onClear, and the search box.      *)
ToggleFilter ==
  /\ ~modal
  /\ \/ \E f \in Offered \ filters :
          Cardinality(filters) < MaxFilters /\ filters' = filters \cup {f}
     \/ \E f \in filters : filters' = filters \ {f}
     \/ \E q \in {"a", "b"} :
          /\ Cardinality(filters) < MaxFilters
          /\ filters' = {f \in filters : f[1] # "search"} \cup {<<"search", q>>}
  /\ UNCHANGED <<raw, configured, tags, selected, modal, posting, ticked>>

(* What the addresses of the dashboard and of the palette filter by: one    *)
(* value, or none.                                                          *)
Linked == {{}, {<<"risk", "critical">>}, {<<"owner", "unassigned">>}}
            \cup {{<<"agent", <<p, "has">>>>} : p \in Products}

(* "Clear", and an address of the palette or of the browser's history: it   *)
(* says which facets are set, and what was typed stays.                     *)
ReplaceFilters ==
  /\ \/ filters' = {}
     \/ \E fs \in Linked :
          /\ filters' = {f \in filters : f[1] = "search"} \cup fs
          /\ Cardinality(filters') <= MaxFilters
  /\ UNCHANGED <<raw, configured, tags, selected, modal, posting, ticked>>

\* Mutant: every endpoint of the answer, listed or not.
SelectAllRaw ==
  LET all == raw
  IN /\ selected' = IF Cardinality(selected) = Cardinality(Listed(filters)) THEN {} ELSE all
     /\ ticked' = IF selected' = {} THEN {} ELSE ticked \cup Listed(filters)

(* toggleSelectAll: by comparing sizes, all listed rows or none.            *)
SelectAll ==
  /\ selected' = IF Cardinality(selected) = Cardinality(Listed(filters))
                   THEN {} ELSE Listed(filters)
  /\ ticked' = IF selected' = {} THEN {} ELSE ticked \cup Listed(filters)

ToggleSelectAll ==
  /\ ~modal /\ SelectAll
  /\ UNCHANGED <<raw, configured, tags, filters, modal, posting>>

(* toggleSelect, on a row.                                                  *)
ToggleSelect(id) ==
  /\ ~modal /\ id \in Listed(filters)
  /\ LET toggle(s) == IF id \in selected THEN s \ {id} ELSE s \cup {id}
     IN selected' = toggle(selected) /\ ticked' = toggle(ticked)
  /\ UNCHANGED <<raw, configured, tags, filters, modal, posting>>

(* The bulk action bar, shown while anything is selected, and its dialog.   *)
ClearSelection ==
  /\ selected # {} /\ ~modal
  /\ selected' = {} /\ ticked' = {}
  /\ UNCHANGED <<raw, configured, tags, filters, modal, posting>>

OpenAssign ==
  /\ selected # {} /\ ~modal /\ modal' = TRUE
  /\ UNCHANGED <<raw, configured, tags, filters, selected, posting, ticked>>

CloseAssign ==
  /\ modal /\ modal' = FALSE
  /\ UNCHANGED <<raw, configured, tags, filters, selected, posting, ticked>>

(* Apply, disabled while pending: every selected id, listed now or not.     *)
Assign ==
  /\ modal /\ posting = {} /\ selected # {}
  /\ posting' = selected
  /\ UNCHANGED <<raw, configured, tags, filters, selected, modal, ticked>>

(* The answer, which may find the dialog closed and other rows selected.    *)
Assigned ==
  /\ posting # {} /\ posting' = {}
  /\ \/ selected' = {} /\ ticked' = {} /\ modal' = FALSE
     \/ UNCHANGED <<selected, ticked, modal>>
  /\ UNCHANGED <<raw, configured, tags, filters>>

EndpointsNext ==
  \/ EndpointsArrive \/ ProductsArrive \/ ToggleFilter \/ ReplaceFilters \/ ToggleSelectAll
  \/ \E id \in Ids : ToggleSelect(id)
  \/ ClearSelection \/ OpenAssign \/ CloseAssign \/ Assign \/ Assigned

EndpointsSpec == EndpointsInit /\ [][EndpointsNext]_endpointVars

-----------------------------------------------------------------------------
(* Safety: the number beside a value counts the rows that selecting it      *)
(* alone lists, whatever is configured: facetCounts and the filter are two  *)
(* pieces of code.  They differ for risk, where the filter prefers the      *)
(* override and takes a missing score for 0, and the count does neither.    *)
CountIsWhatItShows ==
  \A id \in raw : \A f \in Offered : f[1] # "risk" =>
    (Counted(Fleet[id], f[1], f[2]) <=> id \in Listed({f}))

(* Safety: bulk assignment posts only endpoints the user ticked while they  *)
(* were listed, and has not unticked since, however filters, refetches and  *)
(* earlier assignments came in between.                                     *)
OnlyTickedArePosted == [][posting = {} => posting' \subseteq ticked]_endpointVars

=============================================================================
