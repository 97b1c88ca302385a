------------------------------ MODULE QueryCache ------------------------------
(***************************************************************************)
(* What the pages show of the backend's data: the console's query cache.   *)
(* A component that is open shows the cached answers of its queries; a     *)
(* mutation changes data at the backend and then names the queries that    *)
(* must be fetched again, or writes an answer into the cache itself.       *)
(*                                                                         *)
(* Cache entries do not read one another, so a behaviour follows one of    *)
(* them, the entry of the query `key` that Init chooses, through every     *)
(* component that shows it and every mutation that changes or refreshes    *)
(* it.  The contents of its answer are abstracted to the version of the    *)
(* backend's data.  Keys that are always invalidated and shown together    *)
(* are one member of Keys.  The steps of the cache itself are those of the *)
(* library (TanStack Query 5) as the pages use it: one fetch in flight per *)
(* query; a poll joins it, an invalidation or refetch replaces it when     *)
(* there is something to show, and setQueryData leaves it alone.           *)
(***************************************************************************)
EXTENDS Naturals, FiniteSets

CONSTANTS MaxVersion,   \* bound: versions of the data behind the query
          MaxChoices,   \* bound: mutations submitted, and failures
          MaxCalls      \* bound: mutations in flight together

VARIABLES key,      \* the query that is followed
          open,     \* the components on the screen
          version,  \* backend: the version of the data behind the query
          entry,    \* the cache entry of the query
          calls,    \* the mutations in flight
          owed,     \* the version the screen owes a user who saved there
          choices   \* how many mutations were submitted, and failures happened

cacheVars == <<key, open, version, entry, calls, owed, choices>>

NoData == 0

-----------------------------------------------------------------------------
(* The queries each component shows.                                        *)

\* module-status: the status queries of the three optional modules.
LayoutShows == {"integrations", "module-status"}
DashboardShows == {"totals", "integrations"}
EndpointsShows == {"endpoints-all", "product-tags", "integrations"}
UsersShows == {"users-all"}
ComplianceShows == {"compliance-dashboard", "compliance-endpoints"}
EndpointPanelShows == {"endpoint-detail", "product-tags", "compliance-dashboard"}
UserPanelShows == {"user-identity", "product-tags"}
IntegrationsShows == {"integrations"}
NetworkMapShows == {"network-map"}
ConnectionsShows == {"network-map-floors", "network-map-collectors", "network-map-equipment"}
LinuxAuditShows == {"linux-audits", "linux-tokens"}
PuppetShows == {"puppet-views", "puppet-facts"}
VulnerabilityShows == {"vulnerabilities", "vulnerability-summary"}

Shows == [
  layout |-> LayoutShows, dashboard |-> DashboardShows, endpoints |-> EndpointsShows,
  users |-> UsersShows, compliance |-> ComplianceShows,
  endpointpanel |-> EndpointPanelShows, userpanel |-> UserPanelShows,
  integrations |-> IntegrationsShows, networkmap |-> NetworkMapShows,
  connections |-> ConnectionsShows, linuxaudit |-> LinuxAuditShows,
  puppet |-> PuppetShows, vulnerabilities |-> VulnerabilityShows,
  reports |-> {"scheduled-reports"}, platform |-> {"system-settings"},
  features |-> {"system-settings"}, sso |-> {"saml-settings"},
  siem |-> {"siem-settings"}, accounts |-> {"settings-users"},
  account |-> {"personal-api-keys"}, certificate |-> {"tls-certificate"}]

Components == DOMAIN Shows
Panels == {"endpointpanel", "userpanel"}
Keys == UNION {Shows[c] : c \in Components}

\* Mutant: the map has no refetchInterval.
PolledNotMap ==
  {"integrations", "module-status", "network-map-collectors", "vulnerability-summary"}

(* The queries with a refetchInterval.                                      *)
Polled ==
  {"integrations", "module-status", "network-map", "network-map-collectors",
   "vulnerability-summary"}

-----------------------------------------------------------------------------
(* The mutations: where they are offered, whose answers the backend changes *)
(* by them, and what their success handlers do to the cache.                *)

Mutation(on, writes, invalidates) ==
  [on |-> on, writes |-> writes, invalidates |-> invalidates,
   sets |-> {}, refetches |-> {}]

(* PlatformTab's save: the whole configuration, and the evaluations that    *)
(* the backend makes before it answers.                                     *)
PlatformSave ==
  [on |-> "platform",
   writes |-> {"system-settings", "product-tags", "compliance-dashboard",
               "compliance-endpoints", "totals", "endpoints-all", "endpoint-detail",
               "user-identity", "users-all"},
   invalidates |-> {"product-tags", "compliance-dashboard", "totals", "endpoints-all",
                    "endpoint-detail", "user-identity"},
   sets |-> {"system-settings"}, refetches |-> {"system-settings"}]

(* FeaturesTab's save: the answer is set, and nothing is fetched again.     *)
FeaturesSave ==
  [Mutation("features", {"system-settings", "module-status"}, {"module-status"})
     EXCEPT !.sets = {"system-settings"}]

SsoSave == [Mutation("sso", {"saml-settings"}, {}) EXCEPT !.refetches = {"saml-settings"}]
SiemSave == Mutation("siem", {"siem-settings"}, {"siem-settings"})
AccountAdmin == Mutation("accounts", {"settings-users"}, {"settings-users"})
ApiKeys == Mutation("account", {"personal-api-keys"}, {"personal-api-keys"})
CertificateUpload == Mutation("certificate", {"tls-certificate"}, {"tls-certificate"})

RiskOverride ==
  Mutation("endpointpanel", {"endpoint-detail", "endpoints-all", "totals", "user-identity"},
           {"endpoint-detail", "endpoints-all"})

ScopeSave ==
  Mutation("endpointpanel",
           {"endpoint-detail", "endpoints-all", "compliance-dashboard",
            "compliance-endpoints", "totals"},
           {"endpoint-detail", "endpoints-all", "compliance-dashboard", "compliance-endpoints"})

\* Mutant: the list on the page itself is not fetched again.
ExclusionSaveForgetsList ==
  Mutation("compliance",
           {"endpoint-detail", "endpoints-all", "compliance-dashboard",
            "compliance-endpoints", "totals"},
           {"endpoints-all", "compliance-dashboard"})

ExclusionSave ==
  Mutation("compliance",
           {"endpoint-detail", "endpoints-all", "compliance-dashboard",
            "compliance-endpoints", "totals"},
           {"endpoints-all", "compliance-dashboard", "compliance-endpoints"})

(* EvaluateNow's answer comes before the evaluation, a background task; the *)
(* page waits 2.5 s and fetches.                                            *)
Evaluate ==
  [Mutation("compliance", {}, {"compliance-endpoints"})
     EXCEPT !.refetches = {"compliance-dashboard"}]

AssignOwner ==
  Mutation("endpoints", {"endpoints-all", "endpoint-detail", "user-identity", "users-all"},
           {"endpoints-all"})

IntegrationChange == Mutation("integrations", {"integrations"}, {"integrations"})

ManualImport ==
  Mutation("integrations",
           {"integrations", "totals", "users-all", "endpoints-all"},
           {"integrations", "totals", "users-all", "endpoints-all"})

Correlate ==
  Mutation("integrations", {"user-identity", "users-all", "endpoints-all", "totals"},
           {"totals", "user-identity"})

CollectNow == Mutation("networkmap", {"network-map"}, {"network-map"})

(* A floor is put into, or taken from, the managed stack: the answer is set. *)
AssignFloor ==
  [Mutation("networkmap", {"network-map", "network-map-floors"}, {"network-map-floors"})
     EXCEPT !.sets = {"network-map"}]

CollectorChange ==
  Mutation("connections", {"network-map-collectors"}, {"network-map-collectors"})
PlaceEquipment ==
  Mutation("connections", {"network-map-equipment", "network-map"}, {"network-map-equipment"})

LinuxUpload == Mutation("linuxaudit", {"linux-audits"}, {"linux-audits"})
LinuxTokens == Mutation("linuxaudit", {"linux-tokens"}, {"linux-tokens"})
ReportSchedules == Mutation("reports", {"scheduled-reports"}, {"scheduled-reports"})
PuppetViews == Mutation("puppet", {"puppet-views"}, {"puppet-views"})
(* A favourite, on a page that lists the favourites only.                   *)
PuppetFavorite ==
  Mutation("puppet", {"puppet-views", "puppet-facts"}, {"puppet-views", "puppet-facts"})
PuppetRefresh ==
  [Mutation("puppet", {}, {}) EXCEPT !.refetches = {"puppet-views", "puppet-facts"}]

Mutations == [
  PlatformSave |-> PlatformSave, FeaturesSave |-> FeaturesSave, SsoSave |-> SsoSave,
  SiemSave |-> SiemSave, AccountAdmin |-> AccountAdmin, ApiKeys |-> ApiKeys,
  CertificateUpload |-> CertificateUpload, RiskOverride |-> RiskOverride,
  ScopeSave |-> ScopeSave, ExclusionSave |-> ExclusionSave, Evaluate |-> Evaluate,
  AssignOwner |-> AssignOwner, IntegrationChange |-> IntegrationChange,
  ManualImport |-> ManualImport, Correlate |-> Correlate, CollectNow |-> CollectNow,
  AssignFloor |-> AssignFloor, CollectorChange |-> CollectorChange,
  PlaceEquipment |-> PlaceEquipment, LinuxUpload |-> LinuxUpload,
  LinuxTokens |-> LinuxTokens, ReportSchedules |-> ReportSchedules,
  PuppetViews |-> PuppetViews, PuppetFavorite |-> PuppetFavorite,
  PuppetRefresh |-> PuppetRefresh]

(* The success handlers that await the queries they have invalidated before *)
(* they fetch their own one again.                                          *)
Awaiting == {"PlatformSave"}

-----------------------------------------------------------------------------
Call == [name: DOMAIN Mutations, st: {"sent", "done", "awaiting"}, made: 0..MaxVersion]
Fetch == [st: {"none", "sent", "served"}, got: 0..MaxVersion]
NoFetch == [st |-> "none", got |-> NoData]

CacheTypeOK ==
  /\ key \in Keys /\ open \subseteq Components
  /\ version \in 1..MaxVersion /\ owed \in 0..MaxVersion /\ choices \in 0..MaxChoices
  /\ entry \in [data: 0..MaxVersion, fetch: Fetch, invalid: BOOLEAN, failed: BOOLEAN]
  /\ calls \subseteq Call /\ Cardinality(calls) <= MaxCalls

(* One of the bounded choices of users and network is made.                 *)
Choose == choices < MaxChoices /\ choices' = choices + 1

Shown(k) == \E c \in open : k \in Shows[c]

(* The mutations that change or refresh a query, and the components that    *)
(* show it or offer one of them.                                            *)
Touching == [k \in Keys |->
  {m \in DOMAIN Mutations : k \in Mutations[m].writes \cup Mutations[m].invalidates
                                    \cup Mutations[m].sets \cup Mutations[m].refetches}]
Relevant == [k \in Keys |->
  {c \in Components : k \in Shows[c] \/ \E m \in Touching[k] : Mutations[m].on = c}]

CacheInit ==
  /\ key \in Keys
  /\ open = {"layout"}
  /\ version = 1
  /\ entry = [data |-> NoData, fetch |-> NoFetch, invalid |-> FALSE, failed |-> FALSE]
  /\ calls = {}
  /\ owed = NoData /\ choices = 0

(* The entry after its query was asked for: a fetch in flight is joined.    *)
Join(e) ==
  IF e.fetch.st = "none" THEN [e EXCEPT !.fetch = [NoFetch EXCEPT !.st = "sent"]] ELSE e

\* Mutant: a fetch in flight is joined here too, although served before the change.
ReplaceJoins(e) == Join(e)

(* The same with cancelRefetch: it is replaced, unless nothing is shown yet. *)
Replace(e) ==
  IF e.data = NoData THEN Join(e) ELSE [e EXCEPT !.fetch = [NoFetch EXCEPT !.st = "sent"]]

(* invalidateQueries: marked, and fetched again if a component shows it.    *)
Invalidate(e) ==
  LET marked == [e EXCEPT !.invalid = TRUE]
  IN IF Shown(key) THEN Replace(marked) ELSE marked

(* A component mounts: its query is fetched if there is no answer, or one   *)
(* that was invalidated, and also if the answer's age exceeds staleTime.    *)
OnMount(e) ==
  IF e.data = NoData \/ e.invalid THEN {Join(e)} ELSE {e, Join(e)}

(* The user goes to another page, or opens or closes a panel.               *)
Show(c) ==
  /\ c \notin open
  /\ open' = IF c \in Panels THEN open \cup {c} ELSE {"layout", c} \cup (open \cap Panels)
  /\ entry' \in IF key \in Shows[c] THEN OnMount(entry) ELSE {entry}
  /\ UNCHANGED <<key, version, calls, owed, choices>>

Leave(c) ==
  /\ c \in open \ {"layout"} /\ open' = open \ {c}
  /\ UNCHANGED <<key, version, entry, calls, owed, choices>>

(* refetchInterval, or a remount after staleTime.                           *)
Poll ==
  /\ key \in Polled /\ Shown(key)
  /\ entry' = Join(entry)
  /\ UNCHANGED <<key, open, version, calls, owed, choices>>

(* The backend serves the fetch; later its answer arrives.                  *)
Serve ==
  /\ entry.fetch.st = "sent"
  /\ entry' = [entry EXCEPT !.fetch = [st |-> "served", got |-> version]]
  /\ UNCHANGED <<key, open, version, calls, owed, choices>>

Arrive ==
  /\ entry.fetch.st = "served"
  /\ entry' = [data |-> entry.fetch.got, fetch |-> NoFetch,
               invalid |-> FALSE, failed |-> FALSE]
  /\ UNCHANGED <<key, open, version, calls, owed, choices>>

(* A fetch and its two retries fail: what is shown stays.                   *)
FetchFails ==
  /\ entry.fetch.st # "none"
  /\ Choose
  /\ entry' = [entry EXCEPT !.fetch = NoFetch, !.failed = TRUE]
  /\ UNCHANGED <<key, open, version, calls, owed>>

(* An answer that no component shows is dropped after gcTime.               *)
Collect ==
  /\ ~Shown(key) /\ entry.fetch.st = "none" /\ entry.data # NoData
  /\ entry' = [entry EXCEPT !.data = NoData, !.invalid = FALSE, !.failed = FALSE]
  /\ owed' = NoData
  /\ UNCHANGED <<key, open, version, calls, choices>>

-----------------------------------------------------------------------------
(* The user submits, the backend commits, the success handler runs, even if *)
(* the component has been left in between.                                  *)
Submit(m) ==
  /\ Mutations[m].on \in open
  /\ Cardinality(calls) < MaxCalls /\ \A c \in calls : c.name # m
  /\ Choose
  /\ calls' = calls \cup {[name |-> m, st |-> "sent", made |-> NoData]}
  /\ UNCHANGED <<key, open, version, entry, owed>>

Commit(c) ==
  /\ c.st = "sent"
  /\ LET changes == key \in Mutations[c.name].writes
     IN /\ changes => version < MaxVersion
        /\ version' = IF changes THEN version + 1 ELSE version
        /\ calls' = (calls \ {c}) \cup {[c EXCEPT !.st = "done", !.made = version']}
  /\ UNCHANGED <<key, open, entry, owed, choices>>

(* What a success handler does to the entry, in the order of the handlers:  *)
(* setQueryData, then the invalidations, then a refetch of the own query.   *)
SetAndInvalidate(m, v) ==
  LET set == IF key \in Mutations[m].sets /\ (entry.data # NoData \/ m # "AssignFloor")
               THEN [entry EXCEPT !.data = v, !.invalid = FALSE, !.failed = FALSE] ELSE entry
  IN IF key \in Mutations[m].invalidates THEN Invalidate(set) ELSE set

Refetch(m, e) == IF key \in Mutations[m].refetches THEN Replace(e) ELSE e

(* A mutation after which the cached answer may stay an older one for good: *)
(* it sets its own, and neither a refetch nor a poll follows.               *)
SetsForGood(m) ==
  key \in Mutations[m].sets \ (Mutations[m].refetches \cup Mutations[m].invalidates \cup Polled)

(* The version the screen owes once m has succeeded with version v: a page  *)
(* that is still open and has something to show is to show what was saved   *)
(* on it.                                                                   *)
OwedAfter(m, v) ==
  IF SetsForGood(m) THEN NoData
  ELSE IF /\ key \in Mutations[m].writes \cap Shows[Mutations[m].on]
          /\ entry.data # NoData /\ Mutations[m].on \in open /\ v > owed
    THEN v ELSE owed

OnSuccess(c) ==
  /\ c.st = "done" /\ c.name \notin Awaiting
  /\ entry' = Refetch(c.name, SetAndInvalidate(c.name, c.made))
  /\ owed' = OwedAfter(c.name, c.made)
  /\ calls' = calls \ {c}
  /\ UNCHANGED <<key, open, version, choices>>

(* The same with the await in between.  Until it ends the form says that it *)
(* is saving, and the screen owes nothing: a fetch that was served before   *)
(* the save may arrive over the answer that was set.                        *)
OnSuccessUntilAwait(c) ==
  /\ c.st = "done" /\ c.name \in Awaiting
  /\ entry' = SetAndInvalidate(c.name, c.made)
  /\ owed' = IF key \in Mutations[c.name].sets THEN NoData ELSE owed
  /\ calls' = (calls \ {c}) \cup {[c EXCEPT !.st = "awaiting"]}
  /\ UNCHANGED <<key, open, version, choices>>

OnSuccessAfterAwait(c) ==
  /\ c.st = "awaiting"
  /\ entry' = Refetch(c.name, entry)
  /\ owed' = OwedAfter(c.name, c.made)
  /\ calls' = calls \ {c}
  /\ UNCHANGED <<key, open, version, choices>>

Succeed(c) == OnSuccess(c) \/ OnSuccessUntilAwait(c) \/ OnSuccessAfterAwait(c)

(* The mutation is refused, or its answer is lost: no success handler.      *)
CallFails(c) ==
  /\ c.st # "awaiting" /\ Choose
  /\ calls' = calls \ {c}
  /\ UNCHANGED <<key, open, version, entry, owed>>

(* Another user, a collector or a background task changes the data.         *)
OthersChange ==
  /\ version < MaxVersion /\ version' = version + 1
  /\ UNCHANGED <<key, open, entry, calls, owed, choices>>

CacheNext ==
  \/ \E c \in Relevant[key] : Show(c) \/ Leave(c)
  \/ Poll \/ Serve \/ Arrive \/ FetchFails \/ Collect \/ OthersChange
  \/ \E m \in Touching[key] : Submit(m)
  \/ \E c \in calls : Commit(c) \/ Succeed(c) \/ CallFails(c)

CacheFairness ==
  /\ WF_cacheVars(Poll) /\ WF_cacheVars(Serve) /\ WF_cacheVars(Arrive)

CacheSpec == CacheInit /\ [][CacheNext]_cacheVars /\ CacheFairness

-----------------------------------------------------------------------------
(* Safety: while a page shows less than was saved on it, a fetch that will  *)
(* bring it is on its way: one the backend has yet to serve, or has served  *)
(* since.  No fetch that was served before is left to put an older answer   *)
(* back, and none is missing, unless the last one failed.  The polled       *)
(* queries may wait for their next poll.                                    *)
SavedOnItsWay ==
  key \notin Polled =>
    /\ entry.fetch.st = "served" => entry.fetch.got >= owed
    /\ entry.data < owed => entry.failed \/ entry.fetch.st # "none"

(* Liveness: what was saved on a page is shown there in the end.  Fetches   *)
(* that were served before the change and arrive after it, other mutations  *)
(* and changes by others do not keep an older answer on the screen, unless  *)
(* the fetch fails or the page is left.  A page left before the answer of   *)
(* the save came owes nothing.  FeaturesTab is the exception: a fetch in    *)
(* flight overwrites the answer its save has set, for good.                 *)
SavedIsShown ==
  entry.data < owed ~> entry.data >= owed \/ entry.failed \/ ~Shown(key)

(* Liveness: a page that polls comes to show the backend's last version,    *)
(* also after AssignFloor put its own answer over a newer or an older one.  *)
PolledCatchesUp ==
  (/\ version = MaxVersion /\ Shown(key)
   /\ key \in LayoutShows \cup NetworkMapShows
                \cup {"network-map-collectors", "vulnerability-summary"})
    ~> entry.data = MaxVersion \/ ~Shown(key)

=============================================================================
