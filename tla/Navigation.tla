------------------------------- MODULE Navigation -------------------------------
(***************************************************************************)
(* Where a signed-in user can go: the guards of the routes, the entries of *)
(* the side bar, and the command palette with its debounced search.  The   *)
(* guards are asked again on every render, and so are the entries, while   *)
(* polls of the integrations come in.                                      *)
(*                                                                         *)
(* What a guard or an entry asks of the integrations is one need: a feature*)
(* or a connected integration, or one of several.                          *)
(***************************************************************************)
EXTENDS Naturals

VARIABLES role,      \* of the signed-in user
          known,     \* the integrations and the three feature switches were read
          granted,   \* the needs that are met
          path,
          via,       \* how the user came here: a "link" of the page, the "sources"
                     \* button, or "other" (a command, an address, a guard)
          palette    \* the command palette

navigationVars == <<role, known, granted, path, via, palette>>

Rank == [viewer |-> 1, analyst |-> 2, admin |-> 3]
NoNeed == "none"

Guard(minRole, need) == [minRole |-> minRole, need |-> need]

(* The elements around the pages in the route table.                        *)
Routes == [
  dashboard |-> Guard("viewer", NoNeed), endpoints |-> Guard("viewer", NoNeed),
  users |-> Guard("viewer", NoNeed), compliance |-> Guard("viewer", NoNeed),
  activity |-> Guard("viewer", "event source"),
  vulnerabilities |-> Guard("viewer", "vulnerabilities"),
  puppet |-> Guard("analyst", "puppet"), map |-> Guard("viewer", "map"),
  maptable |-> Guard("viewer", "map"), mapconfig |-> Guard("admin", "map"),
  linux |-> Guard("viewer", "linux"), proxy |-> Guard("viewer", "proxy"),
  dlp |-> Guard("analyst", "dlp"), reports |-> Guard("analyst", NoNeed),
  integrations |-> Guard("admin", NoNeed), security |-> Guard("admin", NoNeed),
  settings |-> Guard("viewer", NoNeed)]

Paths == DOMAIN Routes
Needs == {Routes[p].need : p \in Paths} \ {NoNeed}

(* NAV_ITEMS: what each entry of the side bar asks for.                     *)
Entries == [
  dashboard |-> Guard("viewer", NoNeed), endpoints |-> Guard("viewer", NoNeed),
  users |-> Guard("viewer", NoNeed), activity |-> Guard("viewer", "event source"),
  compliance |-> Guard("viewer", NoNeed),
  vulnerabilities |-> Guard("viewer", "vulnerabilities"),
  linux |-> Guard("viewer", "linux"), proxy |-> Guard("viewer", "proxy"),
  dlp |-> Guard("analyst", "dlp"), puppet |-> Guard("analyst", "puppet"),
  map |-> Guard("viewer", "map"), reports |-> Guard("analyst", NoNeed),
  integrations |-> Guard("admin", NoNeed), security |-> Guard("admin", NoNeed),
  settings |-> Guard("admin", NoNeed)]

(* The palette's commands, quick ones included, ask for integrations and    *)
(* features, and never for a role.                                          *)
Commands == [
  dashboard |-> NoNeed, endpoints |-> NoNeed, users |-> NoNeed, compliance |-> NoNeed,
  activity |-> "event source", vulnerabilities |-> "vulnerabilities",
  puppet |-> "puppet", linux |-> "linux", proxy |-> "proxy", dlp |-> "dlp",
  reports |-> NoNeed, security |-> NoNeed, integrations |-> NoNeed, settings |-> NoNeed]

Met(need) == need \in granted \cup {NoNeed}

\* Mutant: the role is not compared.
VisibleToAll(p) == Met(Entries[p].need)

(* visibleNavigation.                                                       *)
Visible(p) == Rank[role] >= Rank[Entries[p].minRole] /\ Met(Entries[p].need)

(* AdminOnly and AnalystOnly send away at once; the others show a loader    *)
(* until the integrations were read.                                        *)
Refused(p) ==
  \/ Rank[role] < Rank[Routes[p].minRole]
  \/ known /\ ~Met(Routes[p].need)

-----------------------------------------------------------------------------
Terms == {"", "one", "two"}       \* what is typed: nothing, or one of two names
NoTimer == "no timer"

NavigationInit ==
  /\ role \in DOMAIN Rank
  /\ known = FALSE /\ granted = {}
  /\ path \in Paths /\ via = "other"
  /\ palette = [open |-> FALSE, box |-> "", timer |-> NoTimer, term |-> "", answers |-> {}]

Go(p, how) == path' = p /\ via' = how

(* An answer of the polled queries.  A source that fails its sync is not    *)
(* connected until it succeeds again.                                       *)
PollArrives ==
  /\ known' = TRUE
  /\ granted' \in {{}, Needs} \cup {Needs \ {n} : n \in Needs}
  /\ via' = IF granted' = granted THEN via ELSE "other"
  /\ UNCHANGED <<role, path, palette>>

(* <Navigate to="/dashboard" replace />.                                    *)
GuardRedirects ==
  /\ Refused(path) /\ Go("dashboard", "other")
  /\ UNCHANGED <<role, known, granted, palette>>

FollowLink(p) ==
  /\ ~Refused(path) /\ Visible(p) /\ Go(p, "link")
  /\ UNCHANGED <<role, known, granted, palette>>

(* The tabs of the Network Map, on its pages once they are rendered; Config *)
(* is offered to administrators.                                            *)
FollowTab(p) ==
  /\ path \in {"map", "maptable", "mapconfig"} /\ Met("map") /\ ~Refused(path)
  /\ p \in {"map", "maptable"} \cup (IF role = "admin" THEN {"mapconfig"} ELSE {})
  /\ Go(p, "link")
  /\ UNCHANGED <<role, known, granted, palette>>

(* The buttons of the dashboard; the timeline's needs a source of events.   *)
FollowButton(p) ==
  /\ path = "dashboard"
  /\ p \in {"endpoints", "users", "compliance"} \/ (p = "activity" /\ Met("event source"))
  /\ Go(p, "link")
  /\ UNCHANGED <<role, known, granted, palette>>

(* The buttons to the data sources, in the header of every page and on the  *)
(* dashboard, are offered to every role.                                    *)
FollowSources ==
  /\ ~Refused(path) /\ Go("integrations", "sources")
  /\ UNCHANGED <<role, known, granted, palette>>

(* An address typed or bookmarked.                                          *)
VisitAddress(p) ==
  /\ Go(p, "other")
  /\ UNCHANGED <<role, known, granted, palette>>

-----------------------------------------------------------------------------
(* The palette.                                                             *)
Elsewhere == UNCHANGED <<role, known, granted, path, via>>

\* Mutant: a timer that runs already is not started again.
TypedFirst(text) ==
  palette' = [palette EXCEPT !.box = text, !.timer = IF @ = NoTimer THEN text ELSE @]

(* useDebounce: every change clears the timer and starts it with the text.  *)
Typed(text) == palette' = [palette EXCEPT !.box = text, !.timer = text]

TypeCommand(text) ==
  /\ palette.open /\ text # palette.box
  /\ Typed(text) /\ Elsewhere

(* Cmd-K opens and closes it; it opens with an empty box.                   *)
OpenPalette ==
  /\ ~palette.open
  /\ palette' = [palette EXCEPT !.open = TRUE, !.box = "",
                   !.timer = IF palette.box = "" THEN @ ELSE ""]
  /\ Elsewhere

ClosePalette ==
  /\ palette.open /\ palette' = [palette EXCEPT !.open = FALSE]
  /\ Elsewhere

Debounced ==
  /\ palette.timer # NoTimer
  /\ palette' = [palette EXCEPT !.term = palette.timer, !.timer = NoTimer]
  /\ Elsewhere

(* The answer of a search, kept under its term; dropped when it is old.     *)
SearchAnswered ==
  /\ palette.term # ""
  /\ palette' = [palette EXCEPT !.answers = @ \cup {palette.term}]
  /\ Elsewhere

SearchDropped ==
  /\ \E t \in palette.answers \ {palette.term} :
        palette' = [palette EXCEPT !.answers = @ \ {t}]
  /\ Elsewhere

(* The entities listed: those of the answer to the debounced term, and none *)
(* while the box is empty.                                                  *)
EntitiesOf ==
  IF palette.box # "" /\ palette.term \in palette.answers THEN {palette.term} ELSE {}

(* execute: a command navigates, a user navigates to the users page, an     *)
(* endpoint opens its panel where the user is.                              *)
Executed == palette.open /\ palette' = [palette EXCEPT !.open = FALSE]

Execute(p) ==
  /\ Executed /\ Met(Commands[p]) /\ Go(p, "other")
  /\ UNCHANGED <<role, known, granted>>

ExecuteEntity ==
  /\ Executed /\ EntitiesOf # {}
  /\ Go("users", "other") \/ UNCHANGED <<path, via>>
  /\ UNCHANGED <<role, known, granted>>

NavigationNext ==
  \/ PollArrives \/ GuardRedirects \/ FollowSources
  \/ \E p \in DOMAIN Entries : FollowLink(p)
  \/ \E p \in Paths : FollowTab(p) \/ FollowButton(p) \/ VisitAddress(p)
  \/ \E text \in Terms : TypeCommand(text)
  \/ OpenPalette \/ ClosePalette \/ Debounced \/ SearchAnswered \/ SearchDropped
  \/ ExecuteEntity
  \/ \E p \in DOMAIN Commands : Execute(p)

NavigationSpec == NavigationInit /\ [][NavigationNext]_navigationVars

-----------------------------------------------------------------------------
(* Safety: an entry of the side bar, a tab of the map and a button of the   *)
(* dashboard that is shown leads where it says: the page it opens does not  *)
(* send the user away, unless an integration is lost while the user is      *)
(* there.  What is shown and what the guards ask stands in two tables in    *)
(* two files.  The exception are the buttons to the data sources: they send *)
(* everybody who is no administrator straight to the dashboard.  And the    *)
(* palette's commands are not claimed to keep to it: they ignore the role.  *)
LinksLeadThere ==
  /\ via = "link" => ~Refused(path)
  /\ via = "sources" => (Refused(path) <=> role # "admin")

(* Safety: when no debounce timer runs, the entities in the palette are     *)
(* those of the text in its box: opening it again, closing it half-way and  *)
(* late answers do not leave those of an older text to be executed.         *)
EntitiesSettle == palette.timer = NoTimer => EntitiesOf \subseteq {palette.box}

=============================================================================
