--------------------------- MODULE ConsoleData_proofs ---------------------------
(***************************************************************************)
(* What keeps the console's pages up to date, for any number of versions,  *)
(* mutations, failures, syncs and crashes: the safety that the liveness    *)
(* claims of QueryCache and ProxySync rest on.                             *)
(***************************************************************************)
EXTENDS ConsoleData, TLAPS

-----------------------------------------------------------------------------
(* The query cache.                                                         *)

Entry == [data: Nat, fetch: [st: {"none", "sent", "served"}, got: Nat],
          invalid: BOOLEAN, failed: BOOLEAN]

Calls == [name: DOMAIN Mutations, st: {"sent", "done", "awaiting"}, made: Nat]

\* Nothing newer than the backend's data is answered, made or owed.
CacheInv ==
  /\ key \in Keys /\ entry \in Entry
  /\ version \in Nat /\ owed \in Nat /\ owed <= version
  /\ calls \subseteq Calls
  /\ \A c \in calls : c.made <= version
  /\ \A c \in calls : c.st = "awaiting" => c.name \in Awaiting
  /\ SavedOnItsWay

\* What the table of the mutations must have for a saved answer to be shown: the
\* success handler of each sets, invalidates or refetches every query of its own
\* page that it changes; and none relies on an invalidation alone after a set.
Refreshing(m) ==
  /\ m.writes \cap Shows[m.on] \subseteq m.sets \cup m.invalidates \cup m.refetches
  /\ m.sets \cap m.invalidates \subseteq m.refetches

LEMMA EveryMutationRefreshes == \A m \in DOMAIN Mutations : Refreshing(Mutations[m])
<1>. USE DEF Refreshing, Mutation, Shows
<1>1. Refreshing(PlatformSave)
  BY DEF PlatformSave
<1>2. Refreshing(FeaturesSave)
  BY DEF FeaturesSave
<1>3. Refreshing(SsoSave)
  BY DEF SsoSave
<1>4. Refreshing(SiemSave)
  BY DEF SiemSave
<1>5. Refreshing(AccountAdmin)
  BY DEF AccountAdmin
<1>6. Refreshing(ApiKeys)
  BY DEF ApiKeys
<1>7. Refreshing(CertificateUpload)
  BY DEF CertificateUpload
<1>8. Refreshing(RiskOverride)
  BY DEF RiskOverride, EndpointPanelShows
<1>9. Refreshing(ScopeSave)
  BY DEF ScopeSave, EndpointPanelShows
<1>10. Refreshing(ExclusionSave)
  BY DEF ExclusionSave, ComplianceShows
<1>11. Refreshing(Evaluate)
  BY DEF Evaluate
<1>12. Refreshing(AssignOwner)
  BY DEF AssignOwner, EndpointsShows
<1>13. Refreshing(IntegrationChange)
  BY DEF IntegrationChange, IntegrationsShows
<1>14. Refreshing(ManualImport)
  BY DEF ManualImport, IntegrationsShows
<1>15. Refreshing(Correlate)
  BY DEF Correlate, IntegrationsShows
<1>16. Refreshing(CollectNow)
  BY DEF CollectNow
<1>17. Refreshing(AssignFloor)
  BY DEF AssignFloor, NetworkMapShows
<1>18. Refreshing(CollectorChange)
  BY DEF CollectorChange, ConnectionsShows
<1>19. Refreshing(PlaceEquipment)
  BY DEF PlaceEquipment, ConnectionsShows
<1>20. Refreshing(LinuxUpload)
  BY DEF LinuxUpload
<1>21. Refreshing(LinuxTokens)
  BY DEF LinuxTokens
<1>22. Refreshing(ReportSchedules)
  BY DEF ReportSchedules
<1>23. Refreshing(PuppetViews)
  BY DEF PuppetViews
<1>25. Refreshing(PuppetFavorite)
  BY DEF PuppetFavorite
<1>24. Refreshing(PuppetRefresh)
  BY DEF PuppetRefresh, PuppetShows
<1>. HIDE DEF Refreshing, Mutation, Shows
<1>. QED
  BY <1>1, <1>2, <1>3, <1>4, <1>5, <1>6, <1>7, <1>8, <1>9, <1>10, <1>11, <1>12, <1>13,
     <1>14, <1>15, <1>16, <1>17, <1>18, <1>19, <1>20, <1>21, <1>22, <1>23, <1>24, <1>25
  DEF Mutations

\* Joining a fetch leaves what is shown alone (the library's fetch, as polls and
\* mounts use it): afterwards one is in flight, the same one or a new one.
LEMMA JoinEntry ==
  ASSUME NEW e \in Entry
  PROVE  /\ Join(e) \in Entry /\ Join(e).data = e.data /\ Join(e).failed = e.failed
         /\ Join(e).fetch.st # "none"
         /\ Join(e).fetch = e.fetch \/ Join(e).fetch.st = "sent"
BY DEF Join, Entry, NoFetch, NoData

\* Replacing it (refetch, cancelRefetch) does too, and what was served before is
\* dropped when there is something to show.
LEMMA ReplaceEntry ==
  ASSUME NEW e \in Entry
  PROVE  /\ Replace(e) \in Entry /\ Replace(e).data = e.data /\ Replace(e).failed = e.failed
         /\ Replace(e).fetch.st # "none"
         /\ Replace(e).fetch = e.fetch \/ Replace(e).fetch.st = "sent"
         /\ e.data # NoData => Replace(e).fetch.st = "sent"
<1>1. CASE e.data = NoData
  BY <1>1, JoinEntry DEF Replace
<1>2. CASE e.data # NoData
  BY <1>2 DEF Replace, Entry, NoFetch, NoData
<1>. QED
  BY <1>1, <1>2

\* invalidateQueries replaces it if a component shows the query, and else only marks it.
LEMMA InvalidateEntry ==
  ASSUME NEW e \in Entry
  PROVE  /\ Invalidate(e) \in Entry
         /\ Invalidate(e).data = e.data /\ Invalidate(e).failed = e.failed
         /\ Invalidate(e).fetch = e.fetch \/ Invalidate(e).fetch.st = "sent"
         /\ Shown(key) /\ e.data # NoData => Invalidate(e).fetch.st = "sent"
<1>. DEFINE marked == [e EXCEPT !.invalid = TRUE]
<1>1. marked \in Entry /\ marked.data = e.data /\ marked.failed = e.failed /\ marked.fetch = e.fetch
  BY DEF Entry
<1>2. Invalidate(e) = IF Shown(key) THEN Replace(marked) ELSE marked
  BY DEF Invalidate
<1>. HIDE DEF marked
<1>. QED
  BY <1>1, <1>2, ReplaceEntry

\* An entry whose fetch is the same, or not yet served, and which shows the same, is
\* as good as the old one.
LEMMA SameEntry ==
  ASSUME CacheInv, entry' \in Entry, entry'.data = entry.data, entry'.failed = entry.failed,
         entry'.fetch = entry.fetch \/ entry'.fetch.st = "sent",
         key' = key, owed' = owed
  PROVE  SavedOnItsWay'
BY DEF CacheInv, SavedOnItsWay, Entry

-----------------------------------------------------------------------------
(* The success handlers.                                                    *)

\* The set step of a success handler (setQueryData).
Set(m, v) == IF key \in Mutations[m].sets /\ (entry.data # NoData \/ m # "AssignFloor")
               THEN [entry EXCEPT !.data = v, !.invalid = FALSE, !.failed = FALSE] ELSE entry
SetAndMarked(m, v) ==
  IF key \in Mutations[m].invalidates THEN Invalidate(Set(m, v)) ELSE Set(m, v)

\* After the success handler of any mutation, the page that has saved is shown what
\* it saved or has a fetch on its way that was not served before (OnSuccess).
LEMMA SuccessCovers ==
  ASSUME CacheInv, NEW c \in calls, OnSuccess(c)
  PROVE  entry' \in Entry /\ SavedOnItsWay'
<1>. DEFINE m == c.name  v == c.made  set == Set(m, v)  marked == SetAndMarked(m, v)
<1>1. m \in DOMAIN Mutations /\ v \in Nat
  BY DEF CacheInv, Calls
<1>2. Refreshing(Mutations[m])
  BY <1>1, EveryMutationRefreshes
<1>3. /\ entry' = IF key \in Mutations[m].refetches THEN Replace(marked) ELSE marked
      /\ owed' = OwedAfter(m, v) /\ key' = key
  BY DEF OnSuccess, SetAndInvalidate, Refetch, Set, SetAndMarked
<1>4. entry \in Entry /\ owed \in Nat
  BY DEF CacheInv
<1>5. set \in Entry /\ set.fetch = entry.fetch
  BY <1>1, <1>4 DEF Set, Entry
<1>6. set.data = v \/ set = entry
  BY <1>1, <1>4 DEF Set, Entry
<1>7. key \notin Mutations[m].sets => set = entry
  BY DEF Set
<1>8. entry.data # NoData /\ key \in Mutations[m].sets => set.data = v
  BY <1>1, <1>4 DEF Set, Entry
<1>. HIDE DEF set
<1>9. marked = IF key \in Mutations[m].invalidates THEN Invalidate(set) ELSE set
  BY DEF SetAndMarked, set
<1>10. /\ marked \in Entry /\ marked.data = set.data /\ marked.failed = set.failed
       /\ marked.fetch = entry.fetch \/ marked.fetch.st = "sent"
  BY <1>5, <1>9, InvalidateEntry
<1>11. key \in Mutations[m].invalidates /\ Shown(key) /\ set.data # NoData
         => marked.fetch.st = "sent"
  BY <1>5, <1>9, InvalidateEntry
<1>. HIDE DEF marked
<1>12. /\ entry' \in Entry /\ entry'.data = set.data /\ entry'.failed = set.failed
       /\ entry'.fetch = entry.fetch \/ entry'.fetch.st = "sent"
  BY <1>3, <1>10, ReplaceEntry
<1>13. key \in Mutations[m].refetches =>
         entry'.fetch.st # "none" /\ (set.data # NoData => entry'.fetch.st = "sent")
  BY <1>3, <1>10, ReplaceEntry
<1>14. key \notin Mutations[m].refetches => entry' = marked
  BY <1>3
<1>15. CASE SetsForGood(m)
  <2>1. owed' = 0
    BY <1>3, <1>15 DEF OwedAfter, NoData
  <2>. QED
    BY <2>1, <1>12 DEF SavedOnItsWay, Entry
<1>16. CASE ~SetsForGood(m) /\ key \in Mutations[m].sets /\ key \notin Polled
  <2>1. key \in Mutations[m].refetches
    BY <1>16, <1>2 DEF SetsForGood, Refreshing
  <2>2. entry'.fetch.st # "none"
    BY <2>1, <1>13
  <2>3. ASSUME entry'.fetch.st = "served" PROVE entry'.fetch.got >= owed'
    <3>1. set.data = NoData /\ entry'.fetch = entry.fetch
      BY <2>1, <2>3, <1>12, <1>13
    <3>2. entry.data = NoData \/ v = 0
      BY <3>1, <1>8, <1>16 DEF NoData
    <3>3. owed' = owed
      BY <3>2, <1>3, <1>4, <1>16 DEF OwedAfter
    <3>. QED
      BY <3>1, <3>3, <2>3, <1>16 DEF CacheInv, SavedOnItsWay
  <2>. QED
    BY <2>2, <2>3, <1>12 DEF SavedOnItsWay
<1>17. CASE key \notin Mutations[m].sets
  <2>1. set = entry
    BY <1>7, <1>17
  <2>2. ~SetsForGood(m)
    BY <1>17 DEF SetsForGood
  <2>3. CASE owed' = owed
    BY <2>1, <2>3, <1>3, <1>12, SameEntry
  <2>4. CASE owed' # owed
    <3>1. /\ key \in Mutations[m].writes \cap Shows[Mutations[m].on]
          /\ entry.data # NoData /\ Mutations[m].on \in open
      BY <2>2, <2>4, <1>3 DEF OwedAfter
    <3>2. Shown(key)
      BY <3>1 DEF Shown
    <3>3. key \in Mutations[m].invalidates \cup Mutations[m].refetches
      BY <3>1, <1>2, <1>17 DEF Refreshing
    <3>4. entry'.fetch.st = "sent"
      BY <3>1, <3>2, <3>3, <2>1, <1>11, <1>13, <1>14
    <3>. QED
      BY <3>4, <1>12 DEF SavedOnItsWay
  <2>. QED
    BY <2>3, <2>4, <1>12
<1>18. CASE key \in Polled
  BY <1>3, <1>12, <1>18 DEF SavedOnItsWay
<1>. QED
  BY <1>12, <1>15, <1>16, <1>17, <1>18

\* The same with the await in between: until it ends nothing is owed for the query that
\* was set; then the own query is fetched again (OnSuccessUntilAwait, OnSuccessAfterAwait).
LEMMA AwaitCovers ==
  ASSUME CacheInv, NEW c \in calls, OnSuccessUntilAwait(c) \/ OnSuccessAfterAwait(c),
         c.name \in Awaiting
  PROVE  entry' \in Entry /\ SavedOnItsWay'
<1>. DEFINE m == c.name  v == c.made  set == Set(m, v)
<1>1. m = "PlatformSave" /\ m \in DOMAIN Mutations /\ v \in Nat /\ entry \in Entry
  BY DEF CacheInv, Calls, Awaiting
<1>2. CASE OnSuccessUntilAwait(c)
  <2>1. /\ entry' = IF key \in Mutations[m].invalidates THEN Invalidate(set) ELSE set
        /\ owed' = IF key \in Mutations[m].sets THEN NoData ELSE owed
        /\ key' = key
    BY <1>2 DEF OnSuccessUntilAwait, SetAndInvalidate, Set
  <2>2. set \in Entry /\ set.fetch = entry.fetch /\ (key \notin Mutations[m].sets => set = entry)
    BY <1>1 DEF Set, Entry
  <2>. HIDE DEF set
  <2>3. /\ entry' \in Entry /\ entry'.data = set.data /\ entry'.failed = set.failed
        /\ entry'.fetch = set.fetch \/ entry'.fetch.st = "sent"
    BY <2>1, <2>2, InvalidateEntry
  <2>4. CASE key \in Mutations[m].sets
    <3>1. owed' = 0
      BY <2>1, <2>4 DEF NoData
    <3>. QED
      BY <3>1, <2>3 DEF SavedOnItsWay, Entry
  <2>5. CASE key \notin Mutations[m].sets
    BY <2>1, <2>2, <2>3, <2>5, SameEntry
  <2>. QED
    BY <2>4, <2>5
<1>3. CASE OnSuccessAfterAwait(c)
  <2>1. /\ entry' = IF key \in Mutations[m].refetches THEN Replace(entry) ELSE entry
        /\ owed' = OwedAfter(m, v) /\ key' = key
    BY <1>3 DEF OnSuccessAfterAwait, Refetch
  <2>2. /\ entry' \in Entry /\ entry'.data = entry.data /\ entry'.failed = entry.failed
        /\ entry'.fetch = entry.fetch \/ entry'.fetch.st = "sent"
    BY <1>1, <2>1, ReplaceEntry
  <2>3. CASE owed' = owed
    BY <2>1, <2>2, <2>3, SameEntry
  <2>4. CASE owed' # owed
    <3>1. Mutations[m] = PlatformSave
      BY <1>1 DEF Mutations
    <3>2. /\ Mutations[m].sets = {"system-settings"} /\ Mutations[m].refetches = {"system-settings"}
          /\ Mutations[m].on = "platform" /\ Shows["platform"] = {"system-settings"}
      BY <3>1 DEF PlatformSave, Shows
    <3>3. ~SetsForGood(m)
      BY <3>2 DEF SetsForGood
    <3>4. key \in Shows["platform"] /\ entry.data # NoData
      BY <2>1, <2>4, <3>2, <3>3 DEF OwedAfter
    <3>5. entry' = Replace(entry) /\ Replace(entry).fetch.st = "sent"
      BY <3>2, <3>4, <2>1, <1>1, ReplaceEntry
    <3>. QED
      BY <3>5, <2>2 DEF SavedOnItsWay
  <2>. QED
    BY <2>3, <2>4, <2>2
<1>. QED
  BY <1>2, <1>3

-----------------------------------------------------------------------------
(* The steps of the cache.                                                  *)

\* Users, the network and the library (Show to Collect).
LEMMA EntrySteps ==
  ASSUME CacheInv,
         \/ \E c \in Relevant[key] : Show(c) \/ Leave(c)
         \/ Poll \/ Serve \/ Arrive \/ FetchFails \/ Collect
  PROVE  CacheInv'
<1>0. entry \in Entry /\ version \in Nat /\ owed \in Nat /\ owed <= version
  BY DEF CacheInv
<1>1. ASSUME entry' = entry \/ entry' = Join(entry),
             UNCHANGED <<key, version, calls, owed>>
      PROVE  CacheInv'
  <2>1. entry' \in Entry /\ SavedOnItsWay'
    BY <1>0, <1>1, JoinEntry, SameEntry
  <2>. QED
    BY <2>1, <1>1 DEF CacheInv
<1>2. ASSUME NEW c, Show(c) \/ Leave(c) PROVE CacheInv'
  BY <1>1, <1>2 DEF Show, Leave, OnMount
<1>3. CASE Poll
  BY <1>1, <1>3 DEF Poll
<1>4. CASE Serve
  <2>1. entry' = [entry EXCEPT !.fetch = [st |-> "served", got |-> version]]
    BY <1>4 DEF Serve
  <2>2. /\ entry' \in Entry /\ entry'.fetch.got = version /\ entry'.fetch.st = "served"
        /\ entry'.data = entry.data /\ UNCHANGED <<key, version, calls, owed>>
    BY <2>1, <1>0, <1>4 DEF Entry, Serve
  <2>. QED
    BY <2>2, <1>0 DEF CacheInv, SavedOnItsWay
<1>5. CASE Arrive
  <2>1. /\ entry.fetch.st = "served" /\ UNCHANGED <<key, version, calls, owed>>
        /\ entry' \in Entry /\ entry'.fetch.st = "none" /\ entry'.data = entry.fetch.got
    BY <1>0, <1>5 DEF Arrive, Entry, NoFetch, NoData
  <2>2. SavedOnItsWay'
    BY <2>1, <1>0 DEF CacheInv, SavedOnItsWay, Entry
  <2>. QED
    BY <2>1, <2>2 DEF CacheInv
<1>6. CASE FetchFails
  <2>1. /\ entry' \in Entry /\ entry'.failed /\ entry'.fetch.st = "none"
        /\ UNCHANGED <<key, version, calls, owed>>
    BY <1>0, <1>6 DEF FetchFails, Entry, NoFetch, NoData
  <2>. QED
    BY <2>1 DEF CacheInv, SavedOnItsWay
<1>7. CASE Collect
  <2>1. /\ entry' \in Entry /\ entry'.fetch.st = "none" /\ owed' = 0
        /\ UNCHANGED <<key, version, calls>>
    BY <1>0, <1>7 DEF Collect, Entry, NoData
  <2>2. SavedOnItsWay'
    BY <2>1 DEF SavedOnItsWay, Entry
  <2>. QED
    BY <2>1, <2>2, <1>0 DEF CacheInv
<1>. QED
  BY <1>2, <1>3, <1>4, <1>5, <1>6, <1>7

\* The mutations, and changes of others (Submit to OthersChange).
LEMMA MutationSteps ==
  ASSUME CacheInv,
         \/ \E m \in Touching[key] : Submit(m)
         \/ \E c \in calls : Commit(c) \/ Succeed(c) \/ CallFails(c)
         \/ OthersChange
  PROVE  CacheInv'
<1>0. entry \in Entry /\ version \in Nat /\ owed \in Nat /\ owed <= version
  BY DEF CacheInv
<1>1. ASSUME UNCHANGED <<key, entry, owed>> PROVE entry' \in Entry /\ SavedOnItsWay'
  BY <1>0, <1>1 DEF CacheInv, SavedOnItsWay
<1>2. ASSUME NEW m \in Touching[key], Submit(m) PROVE CacheInv'
  <2>1. m \in DOMAIN Mutations
    BY <1>2 DEF Touching, CacheInv
  <2>. QED
    BY <2>1, <1>0, <1>1, <1>2 DEF Submit, CacheInv, Calls, NoData
<1>3. ASSUME NEW c \in calls, Commit(c) PROVE CacheInv'
  <2>0. (version' = version \/ version' = version + 1) /\ UNCHANGED <<key, entry, owed>>
    BY <1>3 DEF Commit
  <2>1. version' \in Nat /\ version <= version'
    BY <2>0, <1>0
  <2>2. calls' = (calls \ {c}) \cup {[c EXCEPT !.st = "done", !.made = version']}
    BY <1>3 DEF Commit
  <2>3. calls' \subseteq Calls
    BY <2>1, <2>2 DEF CacheInv, Calls
  <2>4. \A d \in calls' : d.made <= version'
    <3>1. ASSUME NEW d \in calls PROVE d.made \in Nat /\ d.made <= version
      BY DEF CacheInv, Calls
    <3>2. ASSUME NEW d \in calls PROVE d.made <= version'
      BY <3>1, <2>1, <1>0
    <3>3. [c EXCEPT !.st = "done", !.made = version'].made = version'
      BY DEF CacheInv, Calls
    <3>4. version' <= version'
      BY <2>1
    <3>. QED
      BY <3>2, <3>3, <3>4, <2>2, Zenon
  <2>5. owed <= version'
    BY <2>1, <1>0
  <2>. QED
    BY <2>0, <2>1, <2>2, <2>3, <2>4, <2>5, <1>0, <1>1 DEF CacheInv, Calls
<1>4. ASSUME NEW c \in calls, Succeed(c) PROVE CacheInv'
  <2>0. c.made \in Nat /\ c.made <= version /\ c \in Calls
    BY DEF CacheInv, Calls
  <2>1. entry' \in Entry /\ SavedOnItsWay'
    <3>1. CASE OnSuccess(c)
      BY <3>1, SuccessCovers
    <3>2. CASE OnSuccessUntilAwait(c) \/ OnSuccessAfterAwait(c)
      <4>1. c.name \in Awaiting
        BY <3>2 DEF CacheInv, OnSuccessUntilAwait, OnSuccessAfterAwait
      <4>. QED
        BY <3>2, <4>1, AwaitCovers
    <3>. QED
      BY <3>1, <3>2, <1>4 DEF Succeed
  <2>2. owed' = OwedAfter(c.name, c.made) \/ owed' = NoData \/ owed' = owed
    BY <1>4 DEF Succeed, OnSuccess, OnSuccessUntilAwait, OnSuccessAfterAwait
  <2>3. owed' \in Nat /\ owed' <= version
    BY <2>0, <2>2, <1>0 DEF OwedAfter, NoData
  <2>4. UNCHANGED <<key, version>>
    BY <1>4 DEF Succeed, OnSuccess, OnSuccessUntilAwait, OnSuccessAfterAwait
  <2>5. calls' \subseteq calls \cup {[c EXCEPT !.st = "awaiting"]}
    BY <1>4 DEF Succeed, OnSuccess, OnSuccessUntilAwait, OnSuccessAfterAwait
  <2>6. [c EXCEPT !.st = "awaiting"] \in Calls /\ [c EXCEPT !.st = "awaiting"].made = c.made
    BY <2>0 DEF Calls
  <2>7. calls' \subseteq Calls /\ \A d \in calls' : d.made <= version'
    BY <2>0, <2>4, <2>5, <2>6 DEF CacheInv
  <2>8. \A d \in calls' : d.st = "awaiting" => d.name \in Awaiting
    BY <1>4, <2>0 DEF Succeed, OnSuccess, OnSuccessUntilAwait, OnSuccessAfterAwait, CacheInv, Calls
  <2>. QED
    BY <2>1, <2>3, <2>4, <2>7, <2>8 DEF CacheInv
<1>5. ASSUME NEW c \in calls, CallFails(c) PROVE CacheInv'
  BY <1>1, <1>5 DEF CallFails, CacheInv
<1>6. CASE OthersChange
  <2>1. version' = version + 1 /\ UNCHANGED <<key, entry, owed, calls>>
    BY <1>6 DEF OthersChange
  <2>2. version' \in Nat /\ owed <= version' /\ \A d \in Nat : d <= version => d <= version'
    BY <2>1, <1>0
  <2>3. \A d \in calls : d.made <= version'
    BY <2>2 DEF CacheInv, Calls
  <2>4. entry' \in Entry /\ SavedOnItsWay'
    BY <2>1, <1>1
  <2>. QED
    BY <2>1, <2>2, <2>3, <2>4, <1>0 DEF CacheInv
<1>. QED
  BY <1>2, <1>3, <1>4, <1>5, <1>6

LEMMA CacheInvStep == CacheInv /\ [CacheNext]_cacheVars => CacheInv'
<1>1. CacheInv /\ UNCHANGED cacheVars => CacheInv'
  BY DEF CacheInv, SavedOnItsWay, cacheVars
<1>. QED
  BY <1>1, EntrySteps, MutationSteps DEF CacheNext

-----------------------------------------------------------------------------
(* The proxy page's flag.                                                   *)

\* While the backend is alive a set flag belongs to a run in progress, unless a run
\* broke; of two runs that overlap the first one to end takes it down.
FlagFollowsRuns ==
  up => /\ flag => broken \/ \E r \in Runs : run[r] = "running"
        /\ overlapped \/ flag \/ \A r \in Runs : run[r] # "running"

Conn == [loaded: BOOLEAN, failed: BOOLEAN, flag: BOOLEAN, st: Stages, got: BOOLEAN]

\* Overlaps are recorded, nothing runs in a backend that is down; the ref of the page
\* is the flag it last showed, and none is kept of a page that is closed.
ProxyInv ==
  /\ run \in [Runs -> {"idle", "checked", "running"}] /\ flag \in BOOLEAN
  /\ broken \in BOOLEAN /\ conn \in Conn
  /\ FlagFollowsRuns
  /\ (\A r \in Runs : run[r] = "running") => overlapped
  /\ ~up => \A r \in Runs : run[r] = "idle"
  /\ IF viewing THEN was = conn.flag ELSE was = FALSE

\* Asking for a fetch, insisting on one and a failed one leave the flag that is shown
\* (Query.fetch), and so does a mount that finds the answer in the cache.
LEMMA ConnSteps ==
  ASSUME NEW q \in Conn
  PROVE  /\ Ask(q) \in Conn /\ Ask(q).flag = q.flag
         /\ Insist(q) \in Conn /\ Insist(q).flag = q.flag
         /\ Fail(q) \in Conn /\ Fail(q).flag = q.flag
<1>1. Ask(q) \in Conn /\ Ask(q).flag = q.flag
  <2>1. PICK b \in BOOLEAN : b = (q.failed /\ q.loaded)
    BY Zenon
  <2>2. Ask(q) = IF q.st = "none" THEN [q EXCEPT !.st = "sent", !.failed = b] ELSE q
    BY <2>1, Zenon DEF Ask
  <2>. QED
    BY <2>2 DEF Conn, Stages
<1>2. Insist(q) \in Conn /\ Insist(q).flag = q.flag
  BY <1>1 DEF Insist, Conn, Stages
<1>3. Fail(q) \in Conn /\ Fail(q).flag = q.flag
  BY DEF Fail, Conn, Stages
<1>. QED
  BY <1>1, <1>2, <1>3

LEMMA ProxyInvStep == ProxyInv /\ [ProxyNext]_proxyVars => ProxyInv'
<1>. SUFFICES ASSUME ProxyInv, [ProxyNext]_proxyVars PROVE ProxyInv'
  OBVIOUS
<1>. USE DEF ProxyInv, FlagFollowsRuns, Runs, backendVars, pageVars
<1>1. CASE SyncNow
  BY <1>1 DEF SyncNow, Begin
<1>2. CASE ScheduledCheck
  BY <1>2 DEF ScheduledCheck
<1>3. CASE ScheduledStart
  BY <1>3 DEF ScheduledStart, Begin
<1>4. ASSUME NEW r \in Runs, SyncEnds(r) PROVE ProxyInv'
  BY <1>4 DEF SyncEnds
<1>12. ASSUME NEW r \in Runs, SyncBreaks(r) PROVE ProxyInv'
  BY <1>12 DEF SyncBreaks
<1>5. CASE Crash
  BY <1>5 DEF Crash
<1>6. CASE StartUp
  <2>1. flag' = FALSE /\ \A r \in Runs : run'[r] = "idle"
    BY <1>6 DEF StartUp
  <2>. QED
    BY <2>1, <1>6 DEF StartUp
<1>7. /\ Ask(conn) \in Conn /\ Ask(conn).flag = conn.flag
      /\ Insist(conn) \in Conn /\ Insist(conn).flag = conn.flag
      /\ Fail(conn) \in Conn /\ Fail(conn).flag = conn.flag
      /\ Mounted(conn, NoConnection) \subseteq Conn
  <2>1. NoConnection \in Conn
    BY DEF NoConnection, Conn, Stages
  <2>2. \A f \in Conn : Ask(f) \in Conn
    BY ConnSteps
  <2>3. {conn} \cup (IF conn.st = "none" THEN {NoConnection} ELSE {}) \subseteq Conn
    BY <2>1
  <2>4. Mounted(conn, NoConnection) \subseteq Conn
    BY <2>2, <2>3 DEF Mounted
  <2>. QED
    BY <2>4, ConnSteps
<1>8. CASE ClosePage \/ PressSync \/ SyncAnswered \/ PollConnection \/ ConnectionFails
  BY <1>7, <1>8 DEF ClosePage, PressSync, SyncAnswered, PollConnection, ConnectionFails
<1>13. CASE OpenPage
  <2>1. conn' \in Conn /\ was' = conn'.flag /\ viewing' /\ UNCHANGED backendVars
    BY <1>7, <1>13 DEF OpenPage
  <2>. QED
    BY <2>1
<1>9. CASE ServeConnection
  <2>1. /\ conn' \in Conn /\ conn'.flag = conn.flag
        /\ UNCHANGED <<backendVars, viewing, request, was, shown>>
    BY <1>9 DEF ServeConnection, Conn, Stages
  <2>. QED
    BY <2>1
<1>10. CASE ConnectionArrives
  <2>1. /\ conn' \in Conn /\ conn'.flag = conn.got
        /\ UNCHANGED <<backendVars, viewing, request>>
        /\ was' = IF viewing THEN conn.got ELSE was
    BY <1>10 DEF ConnectionArrives, Notice, Conn, Stages
  <2>. QED
    BY <2>1
<1>11. CASE ServeEvents \/ EventsArrive \/ EventsFail \/ UNCHANGED proxyVars
  BY <1>11 DEF ServeEvents, EventsArrive, EventsFail, proxyVars
<1>. QED
  BY <1>1, <1>2, <1>3, <1>4, <1>5, <1>6, <1>8, <1>9, <1>10, <1>11, <1>12, <1>13 DEF ProxyNext

-----------------------------------------------------------------------------
LEMMA DataInvStep == (CacheInv /\ ProxyInv) /\ [DataNext]_dataVars => (CacheInv /\ ProxyInv)'
<1>. SUFFICES ASSUME CacheInv, ProxyInv, [DataNext]_dataVars PROVE CacheInv' /\ ProxyInv'
  OBVIOUS
<1>1. [CacheNext]_cacheVars /\ [ProxyNext]_proxyVars
  BY DEF DataNext, InCache, InProxy, dataVars
<1>. QED
  BY <1>1, CacheInvStep, ProxyInvStep

LEMMA DataInvInit == DataInit => CacheInv /\ ProxyInv
<1>1. CacheInit => CacheInv
  BY DEF CacheInit, CacheInv, SavedOnItsWay, Entry, NoFetch, NoData
<1>2. ASSUME ProxyInit PROVE ProxyInv
  <2>1. conn \in Conn /\ conn.flag = FALSE
    BY <1>2 DEF ProxyInit, NoConnection, Conn, Stages
  <2>2. run \in [Runs -> {"idle", "checked", "running"}] /\ \A r \in Runs : run[r] = "idle"
    BY <1>2 DEF ProxyInit
  <2>3. flag = FALSE /\ viewing = FALSE /\ was = FALSE /\ broken = FALSE
    BY <1>2 DEF ProxyInit
  <2>4. ~ \A r \in Runs : run[r] = "running"
    BY <2>2 DEF Runs
  <2>5. FlagFollowsRuns
    BY <2>2, <2>3 DEF FlagFollowsRuns
  <2>. QED
    BY <2>1, <2>2, <2>3, <2>4, <2>5 DEF ProxyInv
<1>. QED
  BY <1>1, <1>2 DEF DataInit

\* Whatever was saved on an open page is shown there or a fetch that brings it is on
\* its way, however fetches, polls, mutations and their success handlers interleave:
\* the fetches served before the save are all replaced (the onSuccess handlers of the
\* pages).  It fails only if the last fetch has failed.
THEOREM SavedComes == DataSpec => []SavedOnItsWay
<1>1. CacheInv => SavedOnItsWay
  BY DEF CacheInv
<1>. QED
  BY <1>1, DataInvInit, DataInvStep, PTL DEF DataSpec

\* Whatever syncs, crashes and restarts come, no sync is refused for a flag that no
\* run will take down (run_proxy_audit_sync, the reset at start-up), unless the database
\* broke a run of this process outside of its try; and unless two runs have overlapped
\* the flag tells the page that a run is in progress.
THEOREM FlagIsNeverStale == DataSpec => []FlagFollowsRuns
<1>1. ProxyInv => FlagFollowsRuns
  BY DEF ProxyInv
<1>. QED
  BY <1>1, DataInvInit, DataInvStep, PTL DEF DataSpec

=============================================================================
