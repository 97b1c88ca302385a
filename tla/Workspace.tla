------------------------------- MODULE Workspace -------------------------------
(***************************************************************************)
(* The console's own state, part by part: the endpoints page, the paged    *)
(* lists, the forms, the floating panels, the Network Map, navigation and  *)
(* the palette, and the report preview.  Each part is component state of   *)
(* its own in React, or a store that the others only call into, so their   *)
(* steps never touch each other's variables; a behaviour is one of the     *)
(* parts, chosen in its initial state, and every claim is about that part. *)
(***************************************************************************)
EXTENDS EndpointsPage, ListPages, Drafts, FloatingPanels, MapView, Navigation,
        ReportPreview

VARIABLE area

Areas == {"endpoints", "lists", "forms", "panels", "map", "navigation", "reports"}

workspaceVars == <<area, endpointVars, listVars, draftVars, panelVars, mapVars,
                   navigationVars, reportVars>>

(* Of the parts that a behaviour is not about, one initial state is enough. *)
AtRest(a, p) == area # a => p

WorkspaceInit ==
  /\ area \in Areas
  /\ EndpointsInit /\ PanelsInit /\ ReportsInit
  /\ ListsInit /\ AtRest("lists", list = Users /\ ~filtered)
  /\ DraftsInit /\ AtRest("forms", form = NoteBox)
  /\ MapInit
  /\ AtRest("map", \A e \in Equipment : placed[e] = Nothing)
  /\ AtRest("map", \A a \in Attachments : attached[a] = Nothing)
  /\ AtRest("map", managed = {})
  /\ NavigationInit /\ AtRest("navigation", role = "viewer" /\ path = "dashboard")

WorkspaceNext ==
  \/ /\ area = "endpoints" /\ EndpointsNext
     /\ UNCHANGED <<area, listVars, draftVars, panelVars, mapVars,
                    navigationVars, reportVars>>
  \/ /\ area = "lists" /\ ListsNext
     /\ UNCHANGED <<area, endpointVars, draftVars, panelVars, mapVars,
                    navigationVars, reportVars>>
  \/ /\ area = "forms" /\ DraftsNext
     /\ UNCHANGED <<area, endpointVars, listVars, panelVars, mapVars,
                    navigationVars, reportVars>>
  \/ /\ area = "panels" /\ PanelsNext
     /\ UNCHANGED <<area, endpointVars, listVars, draftVars, mapVars,
                    navigationVars, reportVars>>
  \/ /\ area = "map" /\ MapNext
     /\ UNCHANGED <<area, endpointVars, listVars, draftVars, panelVars,
                    navigationVars, reportVars>>
  \/ /\ area = "navigation" /\ NavigationNext
     /\ UNCHANGED <<area, endpointVars, listVars, draftVars, panelVars,
                    mapVars, reportVars>>
  \/ /\ area = "reports" /\ ReportsNext
     /\ UNCHANGED <<area, endpointVars, listVars, draftVars, panelVars,
                    mapVars, navigationVars>>

WorkspaceSpec == WorkspaceInit /\ [][WorkspaceNext]_workspaceVars

=============================================================================
