---------------------------- MODULE Workspace_proofs ----------------------------
(***************************************************************************)
(* A behaviour of the workspace is one of each of its parts, so that what  *)
(* is proved of a part holds of the workspace; and what navigation, the    *)
(* palette, the report preview, the endpoints page, the paged lists and    *)
(* the floating panels keep to.  Drafts_proofs and MapView_proofs have the *)
(* other parts.                                                            *)
(***************************************************************************)
EXTENDS Workspace, SequenceTheorems, TLAPS

-----------------------------------------------------------------------------
(* Navigation.                                                              *)

Palette == [open: BOOLEAN, box: Terms, timer: Terms \cup {NoTimer}, term: Terms,
            answers: SUBSET Terms]

NavigationTypeOK ==
  /\ role \in DOMAIN Rank /\ known \in BOOLEAN /\ granted \in SUBSET Needs
  /\ path \in Paths /\ via \in {"link", "sources", "other"}
  /\ palette \in Palette

\* A link was followed to a page whose guard asks for nothing more, whether the
\* integrations have been read or not.
LinkMet ==
  /\ via = "link" => Rank[role] >= Rank[Routes[path].minRole] /\ Met(Routes[path].need)
  /\ via = "sources" => path = "integrations"

\* A running timer holds the text of the box; else that text is the search.
TimerHoldsBox ==
  IF palette.timer = NoTimer THEN palette.term = palette.box
  ELSE palette.timer = palette.box

NavigationInv == NavigationTypeOK /\ LinkMet /\ TimerHoldsBox

\* The table of the side bar against the table of the routes: only the entry of
\* the settings asks for more.
LEMMA EntriesWithinRoutes ==
  \A p \in DOMAIN Entries : p \in Paths /\ (Entries[p] = Routes[p] \/ p = "settings")
<1>1. DOMAIN Entries = {"dashboard", "endpoints", "users", "activity", "compliance",
        "vulnerabilities", "linux", "proxy", "dlp", "puppet", "map", "reports",
        "integrations", "security", "settings"}
  BY DEF Entries
<1>2. /\ Entries["dashboard"] = Routes["dashboard"] /\ Entries["endpoints"] = Routes["endpoints"]
      /\ Entries["users"] = Routes["users"] /\ Entries["activity"] = Routes["activity"]
      /\ Entries["compliance"] = Routes["compliance"]
      /\ Entries["vulnerabilities"] = Routes["vulnerabilities"]
      /\ Entries["linux"] = Routes["linux"] /\ Entries["proxy"] = Routes["proxy"]
      /\ Entries["dlp"] = Routes["dlp"] /\ Entries["puppet"] = Routes["puppet"]
      /\ Entries["map"] = Routes["map"] /\ Entries["reports"] = Routes["reports"]
      /\ Entries["integrations"] = Routes["integrations"]
      /\ Entries["security"] = Routes["security"]
  BY DEF Entries, Routes
<1>3. \A p \in DOMAIN Entries : p \in Paths
  BY DEF Entries, Paths, Routes
<1>. QED  BY <1>1, <1>2, <1>3

\* Every page of the map asks for the map, and only its configuration for more; and
\* what the settings and the integrations ask for.
LEMMA MapRoutes ==
  /\ Routes["map"] = Guard("viewer", "map") /\ Routes["maptable"] = Guard("viewer", "map")
  /\ Routes["mapconfig"] = Guard("admin", "map")
  /\ Routes["settings"] = Guard("viewer", NoNeed)
  /\ Routes["integrations"] = Guard("admin", NoNeed)
  /\ {"map", "maptable", "mapconfig", "dashboard", "integrations"} \subseteq Paths
  BY DEF Routes, Paths

LEMMA Ranks ==
  /\ \A r \in DOMAIN Rank : Rank[r] \in 1..3 /\ Rank[r] >= Rank["viewer"]
  /\ Rank["admin"] >= Rank["admin"]
  BY DEF Rank

\* The roles that guards ask for are roles.
LEMMA RouteRoles == \A p \in Paths : Routes[p].minRole \in DOMAIN Rank
<1>1. Paths = {"dashboard", "endpoints", "users", "compliance", "activity",
        "vulnerabilities", "puppet", "map", "maptable", "mapconfig", "linux", "proxy",
        "dlp", "reports", "integrations", "security", "settings"}
  BY DEF Paths, Routes
<1>2. \A p \in {"dashboard", "endpoints", "users", "compliance", "activity",
        "vulnerabilities", "map", "maptable", "linux", "proxy", "settings"} :
        Routes[p].minRole = "viewer"
  <2>1. /\ Routes["dashboard"].minRole = "viewer" /\ Routes["endpoints"].minRole = "viewer"
        /\ Routes["users"].minRole = "viewer" /\ Routes["compliance"].minRole = "viewer"
        /\ Routes["activity"].minRole = "viewer" /\ Routes["vulnerabilities"].minRole = "viewer"
        /\ Routes["map"].minRole = "viewer" /\ Routes["maptable"].minRole = "viewer"
        /\ Routes["linux"].minRole = "viewer" /\ Routes["proxy"].minRole = "viewer"
        /\ Routes["settings"].minRole = "viewer"
    BY DEF Routes, Guard
  <2>. QED  BY <2>1
<1>3. /\ Routes["puppet"].minRole = "analyst" /\ Routes["dlp"].minRole = "analyst"
      /\ Routes["reports"].minRole = "analyst" /\ Routes["mapconfig"].minRole = "admin"
      /\ Routes["integrations"].minRole = "admin" /\ Routes["security"].minRole = "admin"
  BY DEF Routes, Guard
<1>4. DOMAIN Rank = {"viewer", "analyst", "admin"}
  BY DEF Rank
<1>. QED  BY <1>1, <1>2, <1>3, <1>4

LEMMA NavigationStart == NavigationInit => NavigationInv
<1>. SUFFICES ASSUME NavigationInit PROVE NavigationInv
  OBVIOUS
<1>1. palette \in Palette /\ TimerHoldsBox
  BY DEF NavigationInit, Palette, TimerHoldsBox, Terms, NoTimer
<1>2. /\ role \in DOMAIN Rank /\ known = FALSE /\ granted = {}
      /\ path \in Paths /\ via = "other"
  BY DEF NavigationInit
<1>3. NavigationTypeOK
  BY <1>1, <1>2, Zenon DEF NavigationTypeOK
<1>4. LinkMet
  BY <1>2 DEF LinkMet
<1>. QED  BY <1>1, <1>3, <1>4 DEF NavigationInv

\* A link of the side bar: what its entry asks for is what the guard asks for.
LEMMA LinkFollowed ==
  ASSUME NavigationTypeOK, NEW p \in DOMAIN Entries, FollowLink(p)
  PROVE  LinkMet' /\ path' \in Paths /\ via' = "link"
<1>1. Visible(p) /\ path' = p /\ via' = "link" /\ UNCHANGED <<role, granted>> /\ p \in Paths
  BY EntriesWithinRoutes DEF FollowLink, Go
<1>2. Rank[role] >= Rank[Routes[p].minRole] /\ Met(Routes[p].need)
  <2>1. CASE p = "settings"
    <3>1. Routes[p].minRole = "viewer" /\ Routes[p].need = NoNeed
      BY <2>1, MapRoutes DEF Guard
    <3>. QED  BY <3>1, Ranks DEF NavigationTypeOK, Met
  <2>2. CASE p # "settings"
    BY <1>1, <2>2, EntriesWithinRoutes DEF Visible
  <2>. QED  BY <2>1, <2>2
<1>. QED  BY <1>1, <1>2 DEF LinkMet, Met

\* A tab of the Network Map, from one of its pages.
LEMMA TabFollowed ==
  ASSUME NavigationTypeOK, NEW p \in Paths, FollowTab(p)
  PROVE  LinkMet' /\ path' \in Paths /\ via' = "link"
<1>1. /\ Met("map") /\ path' = p /\ via' = "link" /\ UNCHANGED <<role, granted>>
      /\ p \in {"map", "maptable"} \/ (p = "mapconfig" /\ role = "admin")
  <2>1. /\ Met("map") /\ path' = p /\ via' = "link" /\ UNCHANGED <<role, granted>>
        /\ p \in {"map", "maptable"} \cup (IF role = "admin" THEN {"mapconfig"} ELSE {})
    BY DEF FollowTab, Go
  <2>. QED  BY <2>1
<1>2. Routes[p].need = "map"
  BY <1>1, MapRoutes DEF Guard
<1>3. Rank[role] >= Rank[Routes[p].minRole]
  BY <1>1, MapRoutes, Ranks DEF Guard, NavigationTypeOK
<1>. QED  BY <1>1, <1>2, <1>3 DEF LinkMet, Met

\* A button of the dashboard: pages for everybody, or for a source of events.
LEMMA ButtonFollowed ==
  ASSUME NavigationTypeOK, NEW p \in Paths, FollowButton(p)
  PROVE  LinkMet' /\ path' \in Paths /\ via' = "link"
<1>1. /\ path' = p /\ via' = "link" /\ UNCHANGED <<role, granted>>
      /\ \/ p \in {"endpoints", "users", "compliance"}
         \/ p = "activity" /\ Met("event source")
  BY DEF FollowButton, Go
<1>2. /\ \A q \in {"endpoints", "users", "compliance"} : Routes[q] = Guard("viewer", NoNeed)
      /\ Routes["activity"] = Guard("viewer", "event source")
  <2>1. /\ Routes["endpoints"] = Guard("viewer", NoNeed)
        /\ Routes["users"] = Guard("viewer", NoNeed)
        /\ Routes["compliance"] = Guard("viewer", NoNeed)
        /\ Routes["activity"] = Guard("viewer", "event source")
    BY DEF Routes
  <2>. QED  BY <2>1
<1>3. Routes[p].minRole = "viewer" /\ Met(Routes[p].need)
  <2>1. Guard("viewer", NoNeed).minRole = "viewer" /\ Guard("viewer", NoNeed).need = NoNeed
    BY DEF Guard
  <2>2. /\ Guard("viewer", "event source").minRole = "viewer"
        /\ Guard("viewer", "event source").need = "event source"
    BY DEF Guard
  <2>3. CASE p = "activity" /\ Met("event source")
    BY <1>2, <2>2, <2>3
  <2>4. CASE p \in {"endpoints", "users", "compliance"}
    BY <1>2, <2>1, <2>4 DEF Met
  <2>. QED  BY <1>1, <2>3, <2>4
<1>4. Rank[role] >= Rank[Routes[p].minRole]
  BY <1>3, Ranks DEF NavigationTypeOK
<1>. QED  BY <1>1, <1>3, <1>4 DEF LinkMet, Met

\* Steps that go elsewhere, but not by a link, or stay.
LEMMA NoLink ==
  ASSUME LinkMet, UNCHANGED <<role, granted>>,
         via' \notin {"link", "sources"} \/ UNCHANGED <<path, via>>
  PROVE  LinkMet'
  BY DEF LinkMet, Met

LEMMA NavigationStep ==
  ASSUME NavigationInv, [NavigationNext]_navigationVars
  PROVE  NavigationInv'
<1>0. NavigationTypeOK /\ LinkMet /\ TimerHoldsBox
  BY DEF NavigationInv
<1>1. CASE UNCHANGED navigationVars
  BY <1>0, <1>1 DEF navigationVars, NavigationInv, NavigationTypeOK, LinkMet, Met, TimerHoldsBox
<1>2. CASE PollArrives
  <2>1. NavigationTypeOK' /\ TimerHoldsBox'
    BY <1>0, <1>2 DEF PollArrives, NavigationTypeOK, TimerHoldsBox
  <2>2. LinkMet'
    BY <1>0, <1>2 DEF PollArrives, LinkMet, Met
  <2>. QED  BY <2>1, <2>2 DEF NavigationInv
<1>3. CASE GuardRedirects
  <2>1. NavigationTypeOK' /\ TimerHoldsBox' /\ via' = "other"
    BY <1>0, <1>3, MapRoutes DEF GuardRedirects, Go, NavigationTypeOK, TimerHoldsBox
  <2>. QED  BY <1>0, <1>3, <2>1, NoLink DEF GuardRedirects, NavigationInv
<1>4. ASSUME NEW p \in DOMAIN Entries, FollowLink(p) PROVE NavigationInv'
  <2>1. NavigationTypeOK' /\ TimerHoldsBox'
    BY <1>0, <1>4, LinkFollowed DEF FollowLink, NavigationTypeOK, TimerHoldsBox
  <2>. QED  BY <1>0, <1>4, <2>1, LinkFollowed DEF NavigationInv
<1>5. ASSUME NEW p \in Paths, FollowTab(p) PROVE NavigationInv'
  <2>1. NavigationTypeOK' /\ TimerHoldsBox'
    BY <1>0, <1>5, TabFollowed DEF FollowTab, NavigationTypeOK, TimerHoldsBox
  <2>. QED  BY <1>0, <1>5, <2>1, TabFollowed DEF NavigationInv
<1>5a. ASSUME NEW p \in Paths, FollowButton(p) PROVE NavigationInv'
  <2>1. NavigationTypeOK' /\ TimerHoldsBox'
    BY <1>0, <1>5a, ButtonFollowed DEF FollowButton, NavigationTypeOK, TimerHoldsBox
  <2>. QED  BY <1>0, <1>5a, <2>1, ButtonFollowed DEF NavigationInv
<1>5b. CASE FollowSources
  <2>1. /\ path' = "integrations" /\ via' = "sources"
        /\ UNCHANGED <<role, known, granted, palette>>
    BY <1>5b DEF FollowSources, Go
  <2>2. NavigationTypeOK' /\ TimerHoldsBox' /\ LinkMet'
    BY <1>0, <2>1, MapRoutes DEF NavigationTypeOK, TimerHoldsBox, LinkMet
  <2>. QED  BY <2>2 DEF NavigationInv
<1>6. ASSUME NEW p \in Paths, VisitAddress(p) PROVE NavigationInv'
  <2>1. NavigationTypeOK' /\ TimerHoldsBox' /\ via' = "other"
    BY <1>0, <1>6 DEF VisitAddress, Go, NavigationTypeOK, TimerHoldsBox
  <2>. QED  BY <1>0, <1>6, <2>1, NoLink DEF VisitAddress, NavigationInv
<1>7. ASSUME Elsewhere, palette' \in Palette, TimerHoldsBox' PROVE NavigationInv'
  <2>1. NavigationTypeOK'
    BY <1>0, <1>7 DEF Elsewhere, NavigationTypeOK
  <2>. QED  BY <1>0, <1>7, <2>1, NoLink DEF Elsewhere, NavigationInv
<1>. USE DEF Palette, Terms, NoTimer
<1>8. palette \in Palette
  BY <1>0 DEF NavigationTypeOK
<1>9. ASSUME NEW text \in Terms, TypeCommand(text) PROVE NavigationInv'
  <2>1. palette' \in Palette /\ TimerHoldsBox'
    BY <1>8, <1>9 DEF TypeCommand, Typed, TimerHoldsBox
  <2>. QED  BY <1>7, <1>9, <2>1 DEF TypeCommand
<1>10. CASE OpenPalette
  <2>1. palette' \in Palette /\ TimerHoldsBox'
    BY <1>0, <1>8, <1>10 DEF OpenPalette, TimerHoldsBox
  <2>. QED  BY <1>7, <1>10, <2>1 DEF OpenPalette
<1>11. CASE ClosePalette
  <2>1. palette' \in Palette /\ TimerHoldsBox'
    BY <1>0, <1>8, <1>11 DEF ClosePalette, TimerHoldsBox
  <2>. QED  BY <1>7, <1>11, <2>1 DEF ClosePalette
<1>12. CASE Debounced
  <2>1. palette' \in Palette /\ TimerHoldsBox'
    BY <1>0, <1>8, <1>12 DEF Debounced, TimerHoldsBox
  <2>. QED  BY <1>7, <1>12, <2>1 DEF Debounced
<1>13. CASE SearchAnswered \/ SearchDropped
  <2>1. PICK rest \in SUBSET Terms : palette' = [palette EXCEPT !.answers = rest]
    BY <1>8, <1>13 DEF SearchAnswered, SearchDropped
  <2>2. palette' \in Palette /\ TimerHoldsBox'
    BY <1>0, <1>8, <2>1 DEF TimerHoldsBox
  <2>. QED  BY <1>7, <1>13, <2>2 DEF SearchAnswered, SearchDropped
<1>14. ASSUME NEW p \in Paths, Executed, UNCHANGED <<role, known, granted>>,
             (path' = p /\ via' = "other") \/ UNCHANGED <<path, via>>
       PROVE NavigationInv'
  <2>1. palette' \in Palette /\ TimerHoldsBox'
    BY <1>0, <1>8, <1>14 DEF Executed, TimerHoldsBox
  <2>2. NavigationTypeOK'
    BY <1>0, <1>14, <2>1 DEF NavigationTypeOK
  <2>3. LinkMet'
    BY <1>0, <1>14, NoLink
  <2>. QED  BY <2>1, <2>2, <2>3 DEF NavigationInv
<1>15. ASSUME NEW p \in DOMAIN Commands, Execute(p) PROVE NavigationInv'
  <2>1. p \in Paths
    BY DEF Commands, Paths, Routes
  <2>. QED  BY <1>14, <1>15, <2>1 DEF Execute, Go
<1>16. CASE ExecuteEntity
  <2>1. "users" \in Paths
    BY DEF Paths, Routes
  <2>. QED  BY <1>14, <1>16, <2>1 DEF ExecuteEntity, Go
<1>. QED
  BY <1>1, <1>2, <1>3, <1>4, <1>5, <1>5a, <1>5b, <1>6, <1>9, <1>10, <1>11, <1>12,
     <1>13, <1>15, <1>16
  DEF NavigationNext

\* A side bar entry, tab or dashboard button that is shown leads to a page whose
\* guard lets the user stay; the buttons to the data sources only administrators
\* (App.tsx's guards against navigation.ts, Header.tsx and Dashboard.tsx).
THEOREM LinksLead == NavigationSpec => []LinksLeadThere
<1>1. NavigationInv => LinksLeadThere
  <2>1. ASSUME NavigationInv, via = "link" PROVE ~Refused(path)
    <3>1. Rank[role] >= Rank[Routes[path].minRole] /\ Met(Routes[path].need)
      BY <2>1 DEF NavigationInv, LinkMet
    <3>2. Rank[role] \in 1..3
      BY <2>1, Ranks DEF NavigationInv, NavigationTypeOK
    <3>3. Routes[path].minRole \in DOMAIN Rank
      BY <2>1, RouteRoles DEF NavigationInv, NavigationTypeOK
    <3>4. Rank[Routes[path].minRole] \in 1..3
      BY <3>3, Ranks
    <3>5. ~(Rank[role] < Rank[Routes[path].minRole])
      BY <3>1, <3>2, <3>4
    <3>. QED  BY <3>1, <3>5 DEF Refused
  <2>2. ASSUME NavigationInv, via = "sources" PROVE Refused(path) <=> role # "admin"
    <3>1. path = "integrations" /\ role \in {"viewer", "analyst", "admin"}
      BY <2>2 DEF NavigationInv, LinkMet, NavigationTypeOK, Rank
    <3>2. Routes[path].minRole = "admin" /\ Met(Routes[path].need)
      BY <3>1, MapRoutes DEF Guard, Met
    <3>3. Rank[role] < Rank["admin"] <=> role # "admin"
      BY <3>1 DEF Rank
    <3>. QED  BY <3>2, <3>3 DEF Refused
  <2>. QED  BY <2>1, <2>2 DEF LinksLeadThere
<1>. QED  BY <1>1, NavigationStart, NavigationStep, PTL DEF NavigationSpec

\* Once the debounce timer has run out, the entities are those of the text.
THEOREM EntitiesFollow == NavigationSpec => []EntitiesSettle
<1>1. NavigationInv => EntitiesSettle
  BY DEF NavigationInv, TimerHoldsBox, EntitiesSettle, EntitiesOf
<1>. QED  BY <1>1, NavigationStart, NavigationStep, PTL DEF NavigationSpec

-----------------------------------------------------------------------------
(* The report preview.                                                      *)

\* A report on its way, or shown, is of the selected type or was overtaken.
OfItsType(r) == r # NoReport => r \in Report /\ (r.type = reportType \/ r.overtaken)

ReportsInv ==
  ReportsTypeOK /\ OfItsType(generating) /\ OfItsType(preview) /\ PrintedUnderItsType

LEMMA ReportsStart == ReportsInit => ReportsInv
<1>1. "compliance" \in ReportTypes
  BY DEF ReportTypes, FilterFields
<1>. QED
  BY <1>1 DEF ReportsInit, ReportsInv, ReportsTypeOK, OfItsType, PrintedUnderItsType

LEMMA ReportsStep ==
  ASSUME ReportsInv, [ReportsNext]_reportVars
  PROVE  ReportsInv'
<1>. USE DEF ReportsInv, ReportsTypeOK, OfItsType, PrintedUnderItsType
<1>1. CASE UNCHANGED reportVars
  BY <1>1 DEF reportVars
<1>2. CASE Generate
  <2>1. BuildFilters \in SUBSET AllFields
    BY DEF BuildFilters
  <2>2. generating' \in Report /\ generating'.type = reportType
    BY <1>2, <2>1 DEF Generate, Report
  <2>. QED  BY <1>2, <2>2 DEF Generate
<1>3. CASE Generated
  BY <1>3 DEF Generated
<1>4. ASSUME NEW t \in ReportTypes, ChangeType(t) PROVE ReportsInv'
  <2>1. generating # NoReport =>
          generating' \in Report /\ generating'.overtaken
    BY <1>4 DEF ChangeType, Overtaken, Report
  <2>2. generating = NoReport => generating' = NoReport
    BY <1>4 DEF ChangeType, Overtaken
  <2>. QED  BY <1>4, <2>1, <2>2 DEF ChangeType
<1>5. ASSUME NEW field \in AllFields, SetFilter(field) PROVE ReportsInv'
  BY <1>5 DEF SetFilter
<1>6. CASE PrintReport
  <2>1. /\ printed' = <<reportType, preview.type, preview.overtaken>> /\ preview \in Report
        /\ UNCHANGED <<reportType, filterState, generating, preview>>
    BY <1>6 DEF PrintReport
  <2>2. preview.type \in ReportTypes /\ preview.overtaken \in BOOLEAN
    BY <2>1 DEF Report
  <2>3. printed' \in ReportTypes \X ReportTypes \X BOOLEAN
    BY <2>1, <2>2
  <2>4. printed'[2] = printed'[1] \/ printed'[3]
    <3>1. preview.type = reportType \/ preview.overtaken
      BY <1>6 DEF PrintReport
    <3>2. /\ printed'[1] = reportType /\ printed'[2] = preview.type
          /\ printed'[3] = preview.overtaken
      BY <2>1
    <3>. QED  BY <3>1, <3>2, Zenon
  <2>. QED  BY <2>1, <2>3, <2>4
<1>. QED  BY <1>1, <1>2, <1>3, <1>4, <1>5, <1>6 DEF ReportsNext

\* What is printed is of the type in its title, unless the type was changed while
\* it was generated (handlePrint takes the title from the selected type).
THEOREM PrintedRight == ReportsSpec => []PrintedUnderItsType
<1>1. ReportsInv => PrintedUnderItsType
  BY DEF ReportsInv
<1>. QED  BY <1>1, ReportsStart, ReportsStep, PTL DEF ReportsSpec

-----------------------------------------------------------------------------
(* The endpoints page: the selection, and the counts beside the filters.    *)

SelectedTicked == selected \subseteq ticked

LEMMA SelectionStep ==
  ASSUME SelectedTicked, [EndpointsNext]_endpointVars
  PROVE  SelectedTicked' /\ (posting = {} => posting' \subseteq ticked)
<1>. USE DEF SelectedTicked
<1>1. CASE UNCHANGED endpointVars
  BY <1>1 DEF endpointVars
<1>2. CASE EndpointsArrive \/ ProductsArrive \/ ToggleFilter \/ ReplaceFilters
                \/ OpenAssign \/ CloseAssign
  BY <1>2 DEF EndpointsArrive, ProductsArrive, ToggleFilter, ReplaceFilters, OpenAssign, CloseAssign
<1>3. CASE ToggleSelectAll
  <2>1. UNCHANGED posting
    BY <1>3 DEF ToggleSelectAll
  <2>2. selected' = {} \/ (selected' = Listed(filters) /\ ticked' = ticked \cup Listed(filters))
    BY <1>3, Zenon DEF ToggleSelectAll, SelectAll
  <2>. QED  BY <2>1, <2>2
<1>4. ASSUME NEW id \in Ids, ToggleSelect(id) PROVE SelectedTicked' /\ UNCHANGED posting
  BY <1>4 DEF ToggleSelect
<1>5. CASE ClearSelection
  BY <1>5 DEF ClearSelection
<1>6. CASE Assign
  BY <1>6 DEF Assign
<1>7. CASE Assigned
  BY <1>7 DEF Assigned
<1>. QED  BY <1>1, <1>2, <1>3, <1>4, <1>5, <1>6, <1>7 DEF EndpointsNext

\* Bulk assignment posts only what was ticked while it was listed and has not been
\* unticked since, for every fleet and every sequence of filters and answers.
THEOREM PostedWasTicked == EndpointsSpec => OnlyTickedArePosted
<1>1. EndpointsInit => SelectedTicked
  BY DEF EndpointsInit, SelectedTicked
<1>2. SelectedTicked /\ [EndpointsNext]_endpointVars =>
        [posting = {} => posting' \subseteq ticked]_endpointVars
  BY SelectionStep
<1>. QED  BY <1>1, <1>2, SelectionStep, PTL DEF EndpointsSpec, OnlyTickedArePosted

\* Every value offered but a search and a level of risk is counted by the very
\* predicate that filters.
LEMMA CountedMatches ==
  ASSUME NEW e, NEW f \in Offered, f[1] # "risk"
  PROVE  Counted(e, f[1], f[2]) = Matches(e, f[1], f[2])
<1>1. f[1] \in {"compliance", "os", "agent", "agentStatus", "owner"}
  BY DEF Offered
<1>2. CASE f[1] = "compliance"
  BY <1>2 DEF Counted, Matches
<1>3. CASE f[1] = "os"
  BY <1>3 DEF Counted, Matches
<1>4. CASE f[1] = "agent"
  BY <1>4 DEF Counted, Matches
<1>5. CASE f[1] = "agentStatus"
  BY <1>5 DEF Counted, Matches
<1>6. CASE f[1] = "owner"
  BY <1>6 DEF Counted, Matches
<1>. QED  BY <1>1, <1>2, <1>3, <1>4, <1>5, <1>6

\* No value that is offered now is ignored: what Effective drops are the values of
\* products that are no longer configured.
LEMMA OfferedIsEffective ==
  ASSUME NEW f \in Offered
  PROVE  Effective({f}) = {f}
<1>1. ASSUME f[1] = "agent" PROVE f[2][1] \in EndpointProducts
  BY <1>1 DEF Offered
<1>2. ASSUME f[1] = "agentStatus"
      PROVE  \/ f[2] = "disabled_agent"
             \/ f[2] \in {"s1_active", "s1_inactive"} /\ "sentinelone" \in configured
             \/ f[2] \in {"dlp_active", "dlp_inactive"} /\ "symantec_dlp" \in configured
  BY <1>2 DEF Offered
<1>. QED  BY <1>1, <1>2 DEF Effective

\* The number beside a value is the number of rows it lists, for every fleet and
\* whatever is configured and answered: facetCounts and the filter of the endpoints
\* page agree on every facet but risk.
THEOREM CountsAreRows == EndpointsSpec => []CountIsWhatItShows
<1>1. ASSUME NEW id \in raw, NEW f \in Offered, f[1] # "risk"
      PROVE  Counted(Fleet[id], f[1], f[2]) <=> id \in Listed({f})
  <2>1. Effective({f}) = {f}
    BY OfferedIsEffective
  <2>2. Listed({f}) = {i \in raw : Matches(Fleet[i], f[1], f[2])}
    BY <2>1 DEF Listed
  <2>3. Counted(Fleet[id], f[1], f[2]) <=> Matches(Fleet[id], f[1], f[2])
    BY <1>1, CountedMatches
  <2>. QED  BY <2>2, <2>3
<1>2. CountIsWhatItShows
  BY <1>1 DEF CountIsWhatItShows
<1>. QED  BY <1>2, PTL

-----------------------------------------------------------------------------
(* The paged lists, for answers of any number of pages.                     *)

\* A pager never shows more pages than were promised.
ListInv ==
  /\ ListsTypeOK
  /\ pages <= promised
  /\ PagePromised
  /\ SearchSettles

USE PagesBound

LEMMA ListInit == ListsInit => ListInv
<1>. SUFFICES ASSUME ListsInit PROVE ListInv
  OBVIOUS
<1>1. page = 1 /\ pages = 1 /\ promised = 1 /\ box = FALSE /\ timer = FALSE /\ term = FALSE
  BY DEF ListsInit
<1>2. 1 \in 1..(MaxPages + 1) /\ 1 \in 1..MaxPages
  OBVIOUS
<1>3. ListsTypeOK
  <2>1. list \in Lists /\ filtered \in BOOLEAN /\ offer = "unread"
    BY DEF ListsInit
  <2>. QED  BY <1>1, <1>2, <2>1, Zenon DEF ListsTypeOK
<1>4. PagePromised /\ SearchSettles /\ pages <= promised
  <2>1. SearchSettles
    BY <1>1, Zenon DEF SearchSettles
  <2>2. page <= promised /\ pages <= promised
    BY <1>1
  <2>. QED  BY <2>1, <2>2 DEF PagePromised
<1>. QED  BY <1>3, <1>4 DEF ListInv

\* The ways to search that the lists have.
LEMMA Searches ==
  \A l \in Lists : l.searches \in {"never", "at once", "after a pause", "in the page"}
<1>1. /\ Users.searches = "at once" /\ Endpoints.searches = "at once"
      /\ DlpSearch.searches = "at once"
  BY DEF Users, Endpoints, DlpSearch, List
<1>2. /\ Activity.searches = "never" /\ ChangeLog.searches = "never"
      /\ AuditLog.searches = "in the page"
  BY DEF Activity, ChangeLog, AuditLog, List
<1>3. /\ PuppetFacts.searches = "after a pause" /\ LinuxAudit.searches = "after a pause"
      /\ ProxyAudit.searches = "after a pause" /\ Vulnerable.searches = "after a pause"
  BY DEF PuppetFacts, LinuxAudit, ProxyAudit, Vulnerable, List
<1>. QED  BY <1>1, <1>2, <1>3, Zenon DEF Lists

\* Another search or other filters: the first page of what is promised then.
LEMMA FirstPage ==
  ASSUME ListInv, ResetPage
  PROVE  /\ page' \in 1..(MaxPages + 1) /\ pages' \in 1..MaxPages /\ promised' \in 1..MaxPages
         /\ pages' <= promised' /\ page' <= promised'
  BY DEF ResetPage, Rows

\* The pages shown so far, and those of another answer.
LEMMA MorePromised ==
  ASSUME ListInv, Rows, promised' = Larger(promised, pages')
  PROVE  /\ pages' \in 1..MaxPages /\ promised' \in 1..MaxPages
         /\ pages' <= promised' /\ promised <= promised'
  BY DEF ListInv, ListsTypeOK, Rows, Larger

LEMMA ListStep ==
  ASSUME ListInv, [ListsNext]_listVars
  PROVE  ListInv'
<1>. USE DEF ListInv
<1>0. ListsTypeOK
  OBVIOUS
<1>1. CASE UNCHANGED listVars
  BY <1>1 DEF listVars, ListsTypeOK, PagePromised, SearchSettles
<1>2. CASE Type
  <2>1. CASE list.searches = "after a pause"
    BY <1>2, <2>1 DEF Type, ListsTypeOK, PagePromised, SearchSettles
  <2>2. CASE list.searches = "at once"
    <3>1. ResetPage /\ term' = box' /\ box' = ~box /\ UNCHANGED <<timer, list, filtered, offer>>
      BY <1>2, <2>2 DEF Type
    <3>. QED  BY <3>1, FirstPage DEF ListsTypeOK, PagePromised, SearchSettles
  <2>3. CASE list.searches = "in the page"
    <3>1. /\ term' = box' /\ box' = ~box /\ UNCHANGED <<timer, list, filtered, offer>>
          /\ \/ page' = 1 /\ Rows /\ promised' = Larger(promised, pages')
             \/ UNCHANGED <<page, pages, promised>>
      BY <1>2, <2>3 DEF Type
    <3>2. CASE UNCHANGED <<page, pages, promised>>
      BY <3>1, <3>2 DEF ListsTypeOK, PagePromised, SearchSettles
    <3>3. CASE page' = 1 /\ Rows /\ promised' = Larger(promised, pages')
      BY <3>1, <3>3, MorePromised DEF ListsTypeOK, PagePromised, SearchSettles
    <3>. QED  BY <3>1, <3>2, <3>3
  <2>. QED  BY <1>2, <2>1, <2>2, <2>3, Searches DEF Type, ListsTypeOK
<1>3. CASE Settle
  <2>1. CASE term' = term
    BY <1>3, <2>1 DEF Settle, ListsTypeOK, PagePromised, SearchSettles
  <2>2. CASE term' # term
    <3>1. ResetPage
      BY <1>3, <2>2 DEF Settle
    <3>. QED  BY <1>3, <3>1, FirstPage DEF Settle, ListsTypeOK, PagePromised, SearchSettles
  <2>. QED  BY <2>1, <2>2
<1>4. CASE ChooseFilter
  BY <1>4, FirstPage DEF ChooseFilter, ListsTypeOK, PagePromised, SearchSettles
<1>5. ASSUME NEW search \in BOOLEAN, ApplyDefinition(search), list' = list,
             offer' \in {"unread", "applied", "none"}
      PROVE  ListInv'
  BY <1>5, FirstPage DEF ApplyDefinition, ListsTypeOK, PagePromised, SearchSettles
<1>6. CASE ChooseView
  BY <1>6, <1>5 DEF ChooseView, ListsTypeOK
<1>7. CASE DefaultView
  <2>1. CASE UNCHANGED <<box, timer, term, filtered, page, pages, promised>>
    BY <1>7, <2>1 DEF DefaultView, ListsTypeOK, PagePromised, SearchSettles
  <2>. QED  BY <1>7, <1>5, <2>1 DEF DefaultView
<1>8. ASSUME Turn, page' \in 1..(MaxPages + 1), list.pager # "unequal" => page' <= promised
      PROVE  ListInv'
  <2>1. UNCHANGED <<list, box, timer, term, filtered, offer>>
    BY <1>8 DEF Turn
  <2>2. /\ pages' \in 1..MaxPages /\ promised' \in 1..MaxPages
        /\ pages' <= promised' /\ promised <= promised'
    BY <1>8, MorePromised DEF Turn
  <2>. QED  BY <1>8, <2>1, <2>2 DEF ListsTypeOK, PagePromised, SearchSettles
<1>9. CASE Previous
  BY <1>9, <1>8 DEF Previous, ListsTypeOK, PagePromised
<1>10. CASE NextPage
  BY <1>10, <1>8 DEF NextPage, ListsTypeOK, PagePromised
<1>11. CASE RowsArrive
  <2>1. UNCHANGED <<list, box, timer, term, filtered, page, offer>>
    BY <1>11 DEF RowsArrive
  <2>2. /\ pages' \in 1..MaxPages /\ promised' \in 1..MaxPages
        /\ pages' <= promised' /\ promised <= promised'
    BY <1>11, MorePromised DEF RowsArrive
  <2>. QED  BY <2>1, <2>2 DEF ListsTypeOK, PagePromised, SearchSettles
<1>. QED  BY <1>1, <1>2, <1>3, <1>4, <1>6, <1>7, <1>9, <1>10, <1>11 DEF ListsNext

\* A page beyond every page count shown is never asked for (the pagers and the
\* setPage(1) of every filter, search and view).
THEOREM PagesPromised == ListsSpec => []PagePromised
<1>1. ListInv => PagePromised
  BY DEF ListInv
<1>. QED  BY <1>1, ListInit, ListStep, PTL DEF ListsSpec

\* Once no timer runs, the rows are those of the text in the box.
THEOREM SearchesSettle == ListsSpec => []SearchSettles
<1>1. ListInv => SearchSettles
  BY DEF ListInv
<1>. QED  BY <1>1, ListInit, ListStep, PTL DEF ListsSpec

HIDE PagesBound

-----------------------------------------------------------------------------
(* The floating panels, for any number of panels and any limit.             *)

Panel == [id: PanelIds, minimized: BOOLEAN]

\* No two panels of the store have the same id.
Distinct(ps) == \A i, j \in DOMAIN ps : ps[i].id = ps[j].id => i = j

\* The contents that something can be typed in.
Mounted(ps) == {id \in IdsOf(ps) : \A i \in DOMAIN ps : ps[i].id = id => ~ps[i].minimized}

\* Windows that play their closing animation.
Crossed == dismissed \cup reopened

PanelsTypeOK == panels \in Seq(Panel) /\ Crossed \subseteq PanelIds

PanelsInv ==
  /\ PanelsTypeOK
  /\ Len(panels) <= MaxPanels /\ Distinct(panels)
  /\ timers \subseteq Crossed /\ Crossed \subseteq OpenIds
  /\ typed \subseteq Mounted(panels)

LEMMA PanelsStart == PanelsInit => PanelsInv
<1>1. ASSUME panels = <<>> PROVE panels \in Seq(Panel) /\ Len(panels) = 0 /\ DOMAIN panels = {}
  BY <1>1, EmptySeq
<1>. QED  BY <1>1, PanelLimit DEF PanelsInit, PanelsInv, PanelsTypeOK, Crossed, Distinct

\* Removing the panel with a given id from a store without duplicates.
LEMMA RemovePanel ==
  ASSUME NEW ps \in Seq(Panel), Distinct(ps), NEW k \in DOMAIN ps
  PROVE  LET rs == RemoveFirstMatch(ps, LAMBDA p : p.id = ps[k].id)
         IN  /\ rs \in Seq(Panel) /\ Len(rs) = Len(ps) - 1
             /\ \A i \in DOMAIN rs : rs[i] = IF i < k THEN ps[i] ELSE ps[i + 1]
<1>. DEFINE I == {i \in 1..Len(ps) : ps[i].id = ps[k].id}
            rs == RemoveFirstMatch(ps, LAMBDA p : p.id = ps[k].id)
<1>1. Len(ps) \in Nat /\ DOMAIN ps = 1..Len(ps) /\ k \in 1..Len(ps)
  BY LenProperties
<1>2. I = {k}
  BY <1>1 DEF Distinct
<1>3. Min(I) = k
  BY <1>1, <1>2 DEF Min
<1>4. rs = RemoveAt(ps, k)
  <2>1. \E i \in 1..Len(ps) : ps[i].id = ps[k].id
    BY <1>1
  <2>2. SelectInSeq(ps, LAMBDA p : p.id = ps[k].id) = k
    BY <1>2, <1>3 DEF SelectInSeq
  <2>. QED  BY <2>1, <2>2 DEF RemoveFirstMatch
<1>5. rs = SubSeq(ps, 1, k - 1) \o SubSeq(ps, k + 1, Len(ps))
  BY <1>4 DEF RemoveAt
<1>. DEFINE u == SubSeq(ps, 1, k - 1)
            v == SubSeq(ps, k + 1, Len(ps))
<1>6. /\ u \in Seq(Panel) /\ Len(u) = k - 1
      /\ \A i \in 1..(k - 1) : u[i] = ps[i]
  BY <1>1, SubSeqProperties
<1>7. /\ v \in Seq(Panel) /\ Len(v) = Len(ps) - k
      /\ \A i \in 1..(Len(ps) - k) : v[i] = ps[k + i]
  BY <1>1, SubSeqProperties
<1>8. rs = u \o v
  BY <1>5
<1>. HIDE DEF u, v, rs
<1>9. /\ rs \in Seq(Panel) /\ Len(rs) = Len(ps) - 1
      /\ \A i \in 1..(Len(ps) - 1) :
           rs[i] = IF i <= k - 1 THEN u[i] ELSE v[i - (k - 1)]
  <2>1. Len(u) + Len(v) = Len(ps) - 1
    BY <1>1, <1>6, <1>7
  <2>2. u \in Seq(Panel) /\ v \in Seq(Panel)
    BY <1>6, <1>7
  <2>3. /\ u \o v \in Seq(Panel) /\ Len(u \o v) = Len(u) + Len(v)
        /\ \A i \in 1..(Len(u) + Len(v)) :
             (u \o v)[i] = IF i <= Len(u) THEN u[i] ELSE v[i - Len(u)]
    BY <2>2, ConcatProperties
  <2>4. Len(u) = k - 1
    BY <1>6
  <2>. QED  BY <1>8, <2>1, <2>3, <2>4
<1>10. ASSUME NEW i \in DOMAIN rs
       PROVE  rs[i] = IF i < k THEN ps[i] ELSE ps[i + 1]
  <2>1. i \in 1..(Len(ps) - 1)
    BY <1>9, LenProperties
  <2>2. CASE i < k
    BY <1>1, <1>6, <1>9, <2>1, <2>2
  <2>3. CASE ~(i < k)
    <3>1. rs[i] = v[i - (k - 1)] /\ i - (k - 1) \in 1..(Len(ps) - k)
      BY <1>1, <1>9, <2>1, <2>3
    <3>2. k + (i - (k - 1)) = i + 1
      BY <1>1, <2>1
    <3>. QED  BY <1>1, <1>7, <2>3, <3>1, <3>2
  <2>. QED  BY <2>2, <2>3
<1>. QED  BY <1>9, <1>10 DEF rs

\* Opening a panel that is not open: the oldest makes room at the limit.
LEMMA AddPanel ==
  ASSUME PanelsInv, NEW id \in PanelIds, OpenPanel(id), id \notin OpenIds
  PROVE  /\ PanelsInv'
         /\ \A old \in OpenIds \ IdsOf(panels') :
              Len(panels) = MaxPanels /\ old = panels[1].id
<1>. DEFINE kept == IF Len(panels) >= MaxPanels THEN Tail(panels) ELSE panels
            shift == IF Len(panels) >= MaxPanels THEN 1 ELSE 0
            new  == [id |-> id, minimized |-> FALSE]
<1>0. Len(panels) \in Nat /\ Len(panels) <= MaxPanels /\ MaxPanels \in Nat /\ MaxPanels # 0
  BY LenProperties, PanelLimit DEF PanelsInv, PanelsTypeOK
<1>1. /\ panels \in Seq(Panel) /\ Len(panels) \in Nat /\ DOMAIN panels = 1..Len(panels)
      /\ Len(panels) <= MaxPanels /\ MaxPanels \in Nat \ {0}
  BY LenProperties, PanelLimit DEF PanelsInv, PanelsTypeOK
<1>2. /\ panels' = Append(kept, new)
      /\ timers' = timers \cap IdsOf(panels') /\ Crossed' = Crossed \cap IdsOf(panels')
      /\ typed' = typed \cap IdsOf(panels')
  BY DEF OpenPanel, RestorePanel, Room, Unmount, Crossed
<1>3. new \in Panel
  BY DEF Panel
\* What is kept, up to the shift by one place when the oldest goes.
<1>4. /\ kept \in Seq(Panel) /\ Len(kept) = Len(panels) - shift
      /\ \A i \in 1..Len(kept) : kept[i] = panels[i + shift]
  <2>1. CASE Len(panels) >= MaxPanels
    <3>1. panels # <<>> /\ kept = Tail(panels) /\ shift = 1
      BY <1>1, <2>1
    <3>2. /\ Tail(panels) \in Seq(Panel) /\ Len(Tail(panels)) = Len(panels) - 1
          /\ \A i \in 1..Len(Tail(panels)) : Tail(panels)[i] = panels[i + 1]
      BY <1>1, <3>1, HeadTailProperties
    <3>. HIDE DEF kept, shift
    <3>. QED  BY <3>1, <3>2
  <2>2. CASE ~(Len(panels) >= MaxPanels)
    <3>1. kept = panels /\ shift = 0
      BY <2>2
    <3>2. \A i \in 1..Len(panels) : i + 0 = i
      BY <1>1
    <3>. HIDE DEF kept, shift
    <3>. QED  BY <1>1, <3>1, <3>2
  <2>. QED  BY <2>1, <2>2
<1>4a. /\ shift \in {0, 1} /\ (shift = 1 => Len(panels) = MaxPanels)
       /\ Len(kept) \in Nat /\ Len(kept) < MaxPanels
  <2>1. /\ shift \in {0, 1} /\ (shift = 1 => Len(panels) = MaxPanels)
        /\ Len(panels) - shift < MaxPanels
    BY <1>0
  <2>2. Len(kept) \in Nat
    BY <1>4, LenProperties
  <2>. HIDE DEF kept, shift
  <2>. QED  BY <1>4, <2>1, <2>2
<1>. HIDE DEF kept, shift
<1>5. /\ panels' \in Seq(Panel) /\ Len(panels') = Len(kept) + 1
      /\ panels'[Len(kept) + 1] = new
      /\ \A i \in 1..Len(kept) : panels'[i] = kept[i]
  <2>. HIDE DEF new
  <2>. QED  BY <1>2, <1>3, <1>4, AppendProperties
<1>6. /\ DOMAIN panels' = 1..(Len(kept) + 1)
      /\ Len(panels') <= MaxPanels
  <2>1. DOMAIN panels' = 1..Len(panels')
    BY <1>5, LenProperties
  <2>2. Len(kept) + 1 <= MaxPanels
    BY <1>4a, PanelLimit
  <2>. QED  BY <1>5, <2>1, <2>2
<1>7. \A i \in 1..Len(kept) : i + shift \in DOMAIN panels /\ panels'[i] = panels[i + shift]
  <2>1. ASSUME NEW i \in 1..Len(kept) PROVE i + shift \in 1..Len(panels)
    <3>1. Len(kept) = Len(panels) - shift
      BY <1>4
    <3>. QED  BY <1>0, <1>4a, <3>1
  <2>. QED  BY <1>1, <1>4, <1>5, <2>1
<1>8. \A i \in DOMAIN panels : panels[i].id # id
  BY DEF OpenIds, IdsOf
<1>9. Distinct(panels')
  <2>1. SUFFICES ASSUME NEW i \in DOMAIN panels', NEW j \in DOMAIN panels',
                        panels'[i].id = panels'[j].id
                 PROVE  i = j
    BY DEF Distinct
  <2>2. CASE i \in 1..Len(kept) /\ j \in 1..Len(kept)
    <3>1. i + shift = j + shift
      BY <1>7, <2>1, <2>2 DEF PanelsInv, Distinct
    <3>. QED  BY <1>4a, <2>2, <3>1
  <2>3. CASE ~(i \in 1..Len(kept) /\ j \in 1..Len(kept))
    <3>1. ASSUME NEW l \in 1..Len(kept) PROVE panels'[l].id # new.id
      BY <1>7, <1>8
    <3>2. i = Len(kept) + 1 \/ i \in 1..Len(kept)
      BY <1>6
    <3>3. j = Len(kept) + 1 \/ j \in 1..Len(kept)
      BY <1>6
    <3>. QED  BY <1>5, <2>1, <2>3, <3>1, <3>2, <3>3
  <2>. QED  BY <2>2, <2>3
<1>10. \A old \in OpenIds \ IdsOf(panels') : Len(panels) = MaxPanels /\ old = panels[1].id
  <2>1. SUFFICES ASSUME NEW k \in DOMAIN panels, panels[k].id \notin IdsOf(panels')
                 PROVE  Len(panels) = MaxPanels /\ k = 1
    BY DEF OpenIds, IdsOf
  <2>2. k - shift \notin 1..Len(kept)
    <3>1. ASSUME k - shift \in 1..Len(kept) PROVE FALSE
      <4>1. k - shift + shift = k /\ k - shift \in 1..(Len(kept) + 1)
        <5>1. k \in Int
          BY <1>1
        <5>. QED  BY <1>4a, <3>1, <5>1
      <4>2. panels'[k - shift] = panels[k] /\ k - shift \in DOMAIN panels'
        BY <1>6, <1>7, <3>1, <4>1
      <4>. QED  BY <2>1, <4>2 DEF IdsOf
    <3>. QED  BY <3>1
  <2>3. k \in 1..Len(panels)
    BY <1>1
  <2>4. Len(kept) = Len(panels) - shift
    BY <1>4
  <2>. QED  BY <1>0, <1>4a, <2>2, <2>3, <2>4
<1>11. typed' \subseteq Mounted(panels')
  <2>1. SUFFICES ASSUME NEW t \in typed', NEW i \in DOMAIN panels', panels'[i].id = t
                 PROVE  ~panels'[i].minimized
    BY <1>2 DEF Mounted
  <2>2. t \in Mounted(panels)
    BY <1>2, <2>1 DEF PanelsInv
  <2>3. CASE i \in 1..Len(kept)
    BY <1>7, <2>1, <2>2, <2>3 DEF Mounted
  <2>4. CASE i = Len(kept) + 1
    <3>1. panels'[i] = new
      BY <1>5, <2>4
    <3>. QED  BY <3>1
  <2>. QED  BY <1>6, <2>3, <2>4
<1>12. timers' \subseteq Crossed' /\ Crossed' \subseteq IdsOf(panels')
  BY <1>2 DEF PanelsInv
<1>13. Crossed' \subseteq PanelIds
  BY <1>2 DEF PanelsInv, PanelsTypeOK
<1>. QED  BY <1>5, <1>6, <1>9, <1>10, <1>11, <1>12, <1>13 DEF PanelsInv, PanelsTypeOK, OpenIds

\* Closing a panel: no other window is touched.
LEMMA DropPanel ==
  ASSUME PanelsInv, NEW id \in PanelIds, ClosePanel(id)
  PROVE  /\ PanelsInv'
         /\ OpenIds \ IdsOf(panels') \subseteq Crossed
<1>1. /\ panels \in Seq(Panel) /\ Len(panels) \in Nat /\ DOMAIN panels = 1..Len(panels)
      /\ Distinct(panels) /\ Len(panels) <= MaxPanels /\ MaxPanels \in Nat
  BY LenProperties, PanelLimit DEF PanelsInv, PanelsTypeOK
<1>2. PICK k \in DOMAIN panels : panels[k].id = id
  BY DEF ClosePanel, PanelsInv, OpenIds, IdsOf
<1>3. /\ panels' = RemoveFirstMatch(panels, LAMBDA p : p.id = panels[k].id)
      /\ timers' = (timers \ {id}) \cap IdsOf(panels')
      /\ Crossed' = Crossed \cap IdsOf(panels')
      /\ typed' = typed \ {id} /\ id \in Crossed
  <2>1. Unmount(RemoveFirstMatch(panels, LAMBDA p : p.id = panels[k].id), timers \ {id})
    BY <1>2 DEF ClosePanel
  <2>2. /\ panels' = RemoveFirstMatch(panels, LAMBDA p : p.id = panels[k].id)
        /\ timers' = (timers \ {id}) \cap IdsOf(panels')
        /\ Crossed' = Crossed \cap IdsOf(panels')
    BY <2>1 DEF Unmount, Crossed
  <2>3. typed' = typed \ {id} /\ id \in Crossed
    BY DEF ClosePanel, PanelsInv
  <2>. QED  BY <2>2, <2>3
<1>4. /\ panels' \in Seq(Panel) /\ Len(panels') = Len(panels) - 1
      /\ \A i \in DOMAIN panels' : panels'[i] = IF i < k THEN panels[i] ELSE panels[i + 1]
  BY <1>1, <1>3, RemovePanel
<1>5. DOMAIN panels' = 1..(Len(panels) - 1) /\ k \in 1..Len(panels)
  BY <1>1, <1>4, LenProperties
<1>. DEFINE at(i) == IF i < k THEN i ELSE i + 1
<1>6. \A i \in DOMAIN panels' : /\ at(i) \in DOMAIN panels /\ at(i) # k
                                 /\ panels'[i] = panels[at(i)]
  BY <1>1, <1>4, <1>5
<1>7. Distinct(panels')
  <2>1. \A i, j \in DOMAIN panels' : at(i) = at(j) => i = j
    BY <1>1, <1>5
  <2>. HIDE DEF at
  <2>. QED  BY <1>1, <1>6, <2>1 DEF Distinct
<1>8. IdsOf(panels') = OpenIds \ {id}
  <2>1. ASSUME NEW j \in DOMAIN panels, j # k
        PROVE  panels[j].id \in IdsOf(panels')
    <3>. DEFINE i == IF j < k THEN j ELSE j - 1
    <3>1. i \in DOMAIN panels' /\ at(i) = j
      BY <1>1, <1>5, <2>1
    <3>. HIDE DEF at, i
    <3>. QED  BY <1>6, <3>1 DEF IdsOf
  <2>2. ASSUME NEW i \in DOMAIN panels' PROVE panels'[i].id \in OpenIds \ {id}
    <3>. HIDE DEF at
    <3>. QED  BY <1>1, <1>2, <1>6 DEF Distinct, OpenIds, IdsOf
  <2>. QED  BY <1>2, <2>1, <2>2 DEF OpenIds, IdsOf
<1>9. typed' \subseteq Mounted(panels')
  <2>1. SUFFICES ASSUME NEW t \in typed, t # id
                 PROVE  t \in Mounted(panels')
    BY <1>3
  <2>2. t \in Mounted(panels) /\ t \in IdsOf(panels')
    BY <1>8, <2>1 DEF PanelsInv, Mounted, OpenIds
  <2>. HIDE DEF at
  <2>. QED  BY <1>6, <2>2 DEF Mounted
<1>10. timers' \subseteq Crossed' /\ Crossed' \subseteq IdsOf(panels')
       /\ Crossed' \subseteq PanelIds
  BY <1>3 DEF PanelsInv, PanelsTypeOK
<1>11. Len(panels') <= MaxPanels
  BY <1>1, <1>4
<1>. QED  BY <1>3, <1>4, <1>7, <1>8, <1>9, <1>10, <1>11 DEF PanelsInv, PanelsTypeOK, OpenIds

\* What a step may do to the store.
LEMMA PanelsStep ==
  ASSUME PanelsInv, [PanelsNext]_panelVars
  PROVE  /\ PanelsInv'
         /\ \A id \in OpenIds \ IdsOf(panels') :
              \/ id \in dismissed
              \/ id \in reopened
              \/ Len(panels) = MaxPanels /\ id = panels[1].id
<1>. DEFINE Goal == /\ PanelsInv'
                    /\ \A id \in OpenIds \ IdsOf(panels') :
                         \/ id \in dismissed
                         \/ id \in reopened
                         \/ Len(panels) = MaxPanels /\ id = panels[1].id
<1>0. /\ panels \in Seq(Panel) /\ Len(panels) \in Nat /\ DOMAIN panels = 1..Len(panels)
      /\ \A i \in DOMAIN panels : panels[i] \in Panel
  BY LenProperties, ElementOfSeq DEF PanelsInv, PanelsTypeOK
<1>1. CASE UNCHANGED panelVars
  BY <1>1 DEF panelVars, PanelsInv, PanelsTypeOK, OpenIds, Crossed
\* A store with the same ids in the same places.
<1>2. ASSUME panels' \in [DOMAIN panels -> Panel],
             \A i \in DOMAIN panels : panels'[i].id = panels[i].id
      PROVE  /\ panels' \in Seq(Panel) /\ Len(panels') = Len(panels)
             /\ Distinct(panels') /\ IdsOf(panels') = OpenIds
  <2>1. panels' \in Seq(Panel) /\ DOMAIN panels' = DOMAIN panels
    BY <1>0, <1>2
  <2>2. Len(panels') = Len(panels)
    BY <1>0, <2>1, LenProperties
  <2>3. Distinct(panels') /\ IdsOf(panels') = OpenIds
    BY <1>2, <2>1 DEF PanelsInv, Distinct, IdsOf, OpenIds
  <2>. QED  BY <2>1, <2>2, <2>3
<1>3. ASSUME NEW id \in PanelIds, OpenPanel(id) PROVE Goal
  <2>1. CASE id \in OpenIds
    <3>1. /\ panels' = [i \in DOMAIN panels |->
                [panels[i] EXCEPT !.minimized = panels[i].minimized /\ panels[i].id # id]]
          /\ UNCHANGED <<timers, typed>> /\ Crossed' = Crossed
      BY <1>3, <2>1 DEF OpenPanel, RestorePanel, Crossed
    <3>2. ASSUME NEW i \in DOMAIN panels
          PROVE  /\ panels'[i] \in Panel /\ panels'[i].id = panels[i].id
                 /\ panels'[i].minimized => panels[i].minimized
      <4>1. (panels[i].minimized /\ panels[i].id # id) \in BOOLEAN
        OBVIOUS
      <4>2. panels'[i] = [panels[i] EXCEPT !.minimized = panels[i].minimized /\ panels[i].id # id]
        BY <3>1
      <4>. QED  BY <1>0, <4>1, <4>2 DEF Panel
    <3>3. panels' \in [DOMAIN panels -> Panel]
      BY <3>1, <3>2
    <3>4. /\ panels' \in Seq(Panel) /\ Len(panels') = Len(panels)
          /\ Distinct(panels') /\ IdsOf(panels') = OpenIds
      BY <1>2, <3>2, <3>3
    <3>5. Mounted(panels) \subseteq Mounted(panels')
      BY <3>2, <3>3, <3>4 DEF Mounted, OpenIds
    <3>. QED  BY <3>1, <3>4, <3>5 DEF PanelsInv, PanelsTypeOK, OpenIds
  <2>2. CASE id \notin OpenIds
    BY <1>3, <2>2, AddPanel
  <2>. QED  BY <2>1, <2>2
<1>4. ASSUME NEW id \in PanelIds, Dismiss(id) PROVE Goal
  <2>1. /\ panels' = panels /\ typed' = typed /\ id \in OpenIds
        /\ Crossed' = Crossed \cup {id} /\ timers' = timers \cup {id}
    BY <1>4 DEF Dismiss, Crossed
  <2>. QED  BY <2>1 DEF PanelsInv, PanelsTypeOK, OpenIds
<1>5. ASSUME NEW id \in PanelIds, ClosePanel(id) PROVE Goal
  BY <1>5, DropPanel DEF Crossed
<1>6. ASSUME NEW id \in PanelIds, ToggleMinimize(id) PROVE Goal
  <2>1. /\ panels' = [i \in DOMAIN panels |->
              IF panels[i].id = id THEN [panels[i] EXCEPT !.minimized = ~panels[i].minimized]
                                   ELSE panels[i]]
        /\ typed' = typed \ {id} /\ UNCHANGED <<timers, Crossed>>
    BY <1>6 DEF ToggleMinimize, Crossed
  <2>2. ASSUME NEW i \in DOMAIN panels
        PROVE  /\ panels'[i] \in Panel /\ panels'[i].id = panels[i].id
               /\ panels[i].id # id => panels'[i] = panels[i]
    <3>1. (~panels[i].minimized) \in BOOLEAN
      OBVIOUS
    <3>. QED  BY <1>0, <2>1, <3>1 DEF Panel
  <2>3. panels' \in [DOMAIN panels -> Panel]
    BY <2>1, <2>2
  <2>4. /\ panels' \in Seq(Panel) /\ Len(panels') = Len(panels)
        /\ Distinct(panels') /\ IdsOf(panels') = OpenIds
    BY <1>2, <2>2, <2>3
  <2>5. Mounted(panels) \ {id} \subseteq Mounted(panels')
    BY <2>2, <2>3, <2>4 DEF Mounted, OpenIds
  <2>. QED  BY <2>1, <2>4, <2>5 DEF PanelsInv, PanelsTypeOK, OpenIds
<1>7. ASSUME NEW id \in PanelIds, TypeInPanel(id) PROVE Goal
  <2>1. id \in Mounted(panels)
    <3>1. ASSUME NEW i \in DOMAIN panels, panels[i].id = id PROVE ~panels[i].minimized
      BY <1>7, <3>1 DEF TypeInPanel, Minimized
    <3>. QED  BY <1>7, <3>1, Zenon DEF TypeInPanel, OpenIds, Mounted
  <2>. QED  BY <1>7, <2>1 DEF TypeInPanel, PanelsInv, PanelsTypeOK, OpenIds, Crossed
<1>. QED  BY <1>1, <1>3, <1>4, <1>5, <1>6, <1>7, Zenon DEF PanelsNext

\* The store never holds more panels than fit nor one twice, every closing timer is
\* that of an open window, and what is typed is in a window that is not minimized,
\* however opens, dismissals, timers and toggles interleave (store/panels.ts).
THEOREM PanelsAlwaysFit == PanelsSpec => []PanelsFit
<1>1. PanelsInv => PanelsFit
  <2>1. PanelsInv => IsInjective([i \in DOMAIN panels |-> panels[i].id])
    BY DEF PanelsInv, Distinct, IsInjective
  <2>2. ASSUME PanelsInv, NEW t \in typed PROVE t \in OpenIds /\ ~Minimized(t)
    BY <2>2, Zenon DEF PanelsInv, Mounted, Minimized, OpenIds
  <2>. QED  BY <2>1, <2>2 DEF PanelsInv, PanelsFit
<1>. QED  BY <1>1, PanelsStart, PanelsStep, PTL DEF PanelsSpec

\* No panel goes away but one whose cross was clicked in this very window, or the
\* oldest at the limit: Unmount clears the timer with the window it belongs to, so
\* no timer outlives it to close one that was opened again after it went.  The
\* statement has the exception: one that is opened again before (FloatingPanels.tsx
\* does not clear the timer then) goes with the animation.
THEOREM ClosedOnPurpose == PanelsSpec => OnlyDismissedClose
<1>1. PanelsInv /\ [PanelsNext]_panelVars =>
        [\A id \in OpenIds \ IdsOf(panels') :
           \/ id \in dismissed
           \/ id \in reopened
           \/ Len(panels) = MaxPanels /\ id = panels[1].id]_panelVars
  BY PanelsStep
<1>. QED  BY <1>1, PanelsStart, PanelsStep, PTL DEF PanelsSpec, OnlyDismissedClose

-----------------------------------------------------------------------------
\* The workspace implements each of its parts: what is proved of a part's own
\* specification, here and in the modules of the parts, holds of the console.
THEOREM EachPart ==
  WorkspaceSpec =>
    /\ EndpointsSpec /\ ListsSpec /\ DraftsSpec /\ PanelsSpec
    /\ MapSpec /\ NavigationSpec /\ ReportsSpec
<1>1. WorkspaceInit =>
        /\ EndpointsInit /\ ListsInit /\ DraftsInit /\ PanelsInit
        /\ MapInit /\ NavigationInit /\ ReportsInit
  BY DEF WorkspaceInit
<1>2. [WorkspaceNext]_workspaceVars =>
        /\ [EndpointsNext]_endpointVars /\ [ListsNext]_listVars /\ [DraftsNext]_draftVars
        /\ [PanelsNext]_panelVars /\ [MapNext]_mapVars
        /\ [NavigationNext]_navigationVars /\ [ReportsNext]_reportVars
  BY Zenon DEF WorkspaceNext, workspaceVars
<1>. QED
  BY <1>1, <1>2, PTL
  DEF WorkspaceSpec, EndpointsSpec, ListsSpec, DraftsSpec, PanelsSpec, MapSpec,
      NavigationSpec, ReportsSpec

=============================================================================
