--------------------------------- MODULE Drafts ---------------------------------
(***************************************************************************)
(* Forms over cached answers: the settings tabs, the connection dialogs,   *)
(* the endpoint panel's sections.  A form copies a cached answer into a    *)
(* draft, the user edits the draft, the draft is sent; meanwhile the       *)
(* answer is fetched again, other administrators save, and the form may be *)
(* closed and opened on something else while its call is in flight.        *)
(*                                                                         *)
(* Each form is a row.  What it edits is abstracted to two fields:         *)
(*   main    the fields it is for;                                         *)
(*   side    for the settings forms the feature switches, for a schedule   *)
(*           its report filters, for the others fields like any.           *)
(* The record of a form with a test or a sync also has a status (counts,  *)
(* their last times, whether credentials are stored), which calls, other   *)
(* users and jobs change.                                                  *)
(***************************************************************************)
EXTENDS Naturals

CONSTANTS Objects,    \* what forms are opened on: endpoints, integrations, ...
          None,
          MaxChanges  \* bound: changes by others and calls submitted

ASSUME NoneIsNoObject == Objects # {} /\ None \notin Objects
ASSUME ChangesBound == MaxChanges \in Nat

Fields == {"main", "side"}

(* loads: the fields of the draft taken from the answer, the others blank.  *)
(* syncs: when the draft follows the answer: "mount" (initial state only),  *)
(* "once" (current ?? answer), "status" (when the status changes), "always" *)
(* (an effect on the answer).  posts: the fields sent.  ends: what success  *)
(* does: "stays", "blanks" the draft, "resets" it to what was sent,         *)
(* "closes" through a callback of the page.  A form that closes takes       *)
(* whatever is open then.                                                   *)
Form(loads, syncs, posts, ends) ==
  [loads |-> loads, syncs |-> syncs, posts |-> posts, ends |-> ends]

\* Mutant: the whole form is sent, with the switches it was loaded with.
PlatformTabWhole == Form(Fields, "once", Fields, "stays")

PlatformTab == Form(Fields, "once", {"main"}, "stays")
FeaturesTab == Form({"side"}, "always", {"side"}, "stays")
SsoTab == Form(Fields, "once", Fields, "stays")
SiemTab == Form(Fields, "always", Fields, "stays")
ConnectionDialog == Form(Fields, "always", Fields, "closes")
IntegrationPanel == Form({}, "status", Fields, "stays")
ExclusionDialog == Form(Fields, "mount", Fields, "closes")
ComplianceScopeControl == Form(Fields, "mount", Fields, "resets")
RiskOverrideSection == Form(Fields, "mount", Fields, "stays")
ScheduleModal == Form({"main"}, "mount", Fields, "closes")
NoteBox == Form({}, "mount", {"main"}, "blanks")
AddCustomModal == Form({}, "mount", Fields, "closes")
UploadDialog == Form({}, "mount", Fields, "closes")
AutomationDialog == Form({}, "mount", {"main"}, "blanks")
CreateUser == Form({}, "mount", Fields, "blanks")
CreateApiKey == Form({}, "mount", Fields, "blanks")
CertificateTab == Form({}, "mount", Fields, "blanks")

Settings == {PlatformTab, FeaturesTab}   \* two forms over one record
Testable == {SiemTab, ConnectionDialog, IntegrationPanel}   \* test, or sync now
Clearable == {ComplianceScopeControl, RiskOverrideSection}   \* a button that clears

Forms == Settings \cup Testable \cup
  {SsoTab, ExclusionDialog, ComplianceScopeControl, RiskOverrideSection, ScheduleModal,
   NoteBox, AddCustomModal, UploadDialog, AutomationDialog, CreateUser, CreateApiKey,
   CertificateTab}

(* Over one record, or none: no page opens these on another.                *)
OfOneRecord == Settings \cup
  {SsoTab, SiemTab, ConnectionDialog, AddCustomModal, UploadDialog, AutomationDialog,
   CreateUser, CreateApiKey, CertificateTab}

VARIABLES form,     \* the form of this behaviour
          saved,    \* object -> its record on the server
          cache,    \* object -> the record last fetched
          shown,    \* the object the form is open on, or None
          draft,
          base,     \* what the record it was taken from says
          touched,  \* the fields edited since
          calls,    \* the save and the test in flight
          result,   \* the message shown: of which object, and whether late
          changes   \* how many changes and calls there were

draftVars == <<form, saved, cache, shown, draft, base, touched, calls, result, changes>>

(* The objects that the form of this behaviour is opened on.                *)
Opened == IF form \in OfOneRecord THEN {CHOOSE o \in Objects : TRUE} ELSE Objects

Records == [main: BOOLEAN, side: BOOLEAN, status: BOOLEAN]
Drafted == [Fields -> BOOLEAN]
Blank == [f \in Fields |-> FALSE]
Kinds == {"save", "test"}
NoCall == [of |-> None]
NoCalls == [k \in Kinds |-> NoCall]
NoResult == [of |-> None, late |-> FALSE]

DraftsInit ==
  /\ form \in Forms
  /\ saved = [o \in Objects |-> [main |-> FALSE, side |-> TRUE, status |-> FALSE]]
  /\ cache = saved
  /\ shown = None /\ draft = Blank /\ base = Blank
  /\ touched = {} /\ calls = NoCalls /\ result = NoResult /\ changes = 0

(* What the record says of the fields the form loads, for the comparison    *)
(* with what is sent.                                                       *)
Values(record) == [f \in Fields |-> IF f \in form.loads THEN record[f] ELSE FALSE]

\* Mutant: a field is not loaded from the answer.
LoadedWithoutSide(record) == [f \in Fields |-> f = "main" /\ f \in form.loads /\ record[f]]

(* The draft a record gives: what the form does not load is blank.          *)
Loaded(record) == [f \in Fields |-> f \in form.loads /\ record[f]]

Take(record) == draft' = Loaded(record) /\ base' = Values(record) /\ touched' = {}

\* Mutant: the message of the object shown before stays.
OpenKeepingResult(o) ==
  /\ shown = None /\ o \in Opened /\ shown' = o
  /\ Take(cache[o])
  /\ UNCHANGED <<form, saved, cache, calls, result, changes>>

(* Open on an object, from the cached answer.                               *)
Open(o) ==
  /\ shown = None /\ o \in Opened /\ shown' = o
  /\ Take(cache[o]) /\ result' = NoResult
  /\ UNCHANGED <<form, saved, cache, calls, changes>>

Gone == shown' = None /\ draft' = Blank /\ base' = Blank /\ touched' = {}

(* The calls in flight, once the form they were sent from is gone.          *)
Left == [k \in Kinds |-> IF calls[k] = NoCall THEN NoCall ELSE [calls[k] EXCEPT !.here = FALSE]]

Close ==
  /\ shown # None /\ Gone
  /\ calls' = Left
  /\ UNCHANGED <<form, saved, cache, result, changes>>

(* The controls for a field the form sends.                                 *)
Edit(f) ==
  /\ shown # None /\ f \in form.posts
  /\ draft' = [draft EXCEPT ![f] = ~@] /\ touched' = touched \cup {f}
  /\ UNCHANGED <<form, saved, cache, shown, base, calls, result, changes>>

\* Mutant: the effect sets the draft from every answer.
FollowedAlways(before, after) == after # before

(* Whether an answer that differs from the last replaces the draft.         *)
Followed(before, after) ==
  \/ form.syncs = "always" /\ after # before
  \/ form.syncs = "status" /\ after.status # before.status

(* An answer of the form's query: a refetch, a poll, an invalidation.       *)
Fetched ==
  /\ cache' = saved
  /\ IF shown # None /\ Followed(cache[shown], saved[shown])
       THEN /\ Take(saved[shown])
            /\ result' = IF form.syncs = "status" THEN NoResult ELSE result
       ELSE UNCHANGED <<draft, base, touched, result>>
  /\ UNCHANGED <<form, saved, shown, calls, changes>>

(* One of the bounded changes and calls is made.                            *)
Spend == changes < MaxChanges /\ changes' = changes + 1

(* What other administrators change of a record, and jobs of a tested one.  *)
Changed == Fields \cup (IF form \in Testable THEN {"status"} ELSE {})

OthersChange ==
  /\ Spend
  /\ \E o \in Opened, f \in Changed : saved' = [saved EXCEPT ![o][f] = ~@]
  /\ UNCHANGED <<form, cache, shown, draft, base, touched, calls, result>>

(* A button is disabled while its own call is pending, so a save and a test *)
(* may be in flight together.  Some forms empty their message first.        *)
Post(kind, sent, fresh) ==
  /\ shown # None /\ calls[kind] = NoCall /\ Spend
  /\ calls' = [calls EXCEPT ![kind] = [of |-> shown, here |-> TRUE, done |-> FALSE,
                                      fresh |-> fresh, base |-> base, sent |-> sent]]
  /\ result' \in {result, NoResult}
  /\ UNCHANGED <<form, saved, cache, shown, base>>

(* The draft is sent.  The compliance scope drops the agents beside "all"   *)
(* and a reason without an exclusion; two fields do not tell that apart.    *)
Submit(kind) ==
  /\ kind = "test" => form \in Testable
  /\ Post(kind, draft, touched = {})
  /\ UNCHANGED <<draft, touched>>

(* "Remove exclusions" and "Clear override", when the cached answer has     *)
(* some: a blank is sent whatever the draft says.  The override's draft is  *)
(* blank at once, the scope's when the call succeeds.                       *)
Clear ==
  /\ form \in Clearable /\ Post("save", Blank, FALSE)
  /\ cache[shown].main \/ (form = ComplianceScopeControl /\ cache[shown].side)
  /\ IF form = RiskOverrideSection
       THEN draft' = Blank /\ touched' = Fields
       ELSE UNCHANGED <<draft, touched>>

(* The server handles the call: a save leaves its fields, most tests their  *)
(* time or their outcome.                                                   *)
Commit(kind) ==
  /\ calls[kind] # NoCall /\ ~calls[kind].done
  /\ LET call == calls[kind]
     IN \/ /\ kind = "save"
           /\ saved' = [saved EXCEPT ![call.of] =
                [x \in DOMAIN @ |-> IF x \in form.posts THEN call.sent[x] ELSE @[x]]]
        \/ kind = "test" /\ saved' \in {saved, [saved EXCEPT ![call.of].status = ~@]}
  /\ calls' = [calls EXCEPT ![kind].done = TRUE]
  /\ UNCHANGED <<form, cache, shown, draft, base, touched, result, changes>>

Answered(kind) == result' = [of |-> calls[kind].of, late |-> ~calls[kind].here]

(* What a save that succeeded does to the draft of a form still open: the   *)
(* edits made since it was sent are lost in forms that blank or reset it.   *)
Settled(call) ==
  \/ /\ form.ends = "blanks" /\ draft' = Blank /\ touched' = {}
     /\ UNCHANGED <<shown, base>>
  \/ /\ form.ends = "resets" /\ draft' = call.sent /\ base' = call.sent /\ touched' = {}
     /\ UNCHANGED shown
  \/ form.ends = "stays" /\ UNCHANGED <<shown, draft, base, touched>>

(* Its answer, wherever the form is by then.  The invalidation is Fetched.  *)
Succeeded(kind) ==
  /\ calls[kind] # NoCall /\ calls[kind].done /\ Answered(kind)
  /\ IF kind = "save" /\ form.ends = "closes"
       THEN Gone /\ calls' = [Left EXCEPT ![kind] = NoCall]
       ELSE /\ calls' = [calls EXCEPT ![kind] = NoCall]
            /\ IF kind = "save" /\ calls[kind].here
                 THEN Settled(calls[kind])
                 ELSE UNCHANGED <<shown, draft, base, touched>>
  /\ UNCHANGED <<form, saved, cache, changes>>

(* Refused, or the answer is lost after the server has done it.             *)
CallFailed(kind) ==
  /\ calls[kind] # NoCall /\ Answered(kind)
  /\ calls' = [calls EXCEPT ![kind] = NoCall]
  /\ UNCHANGED <<form, saved, cache, shown, draft, base, touched, changes>>

DraftsNext ==
  \/ \E o \in Objects : Open(o)
  \/ Close \/ Fetched \/ OthersChange \/ Clear
  \/ \E f \in Fields : Edit(f)
  \/ \E kind \in Kinds :
       Submit(kind) \/ Commit(kind) \/ Succeeded(kind) \/ CallFailed(kind)

DraftsSpec == DraftsInit /\ [][DraftsNext]_draftVars

-----------------------------------------------------------------------------
(* Safety: saving the platform settings never undoes another administrator's*)
(* feature switch, however old the form is, and the other way around.  The  *)
(* forms that send every field they load (the SSO and SIEM tabs among them) *)
(* do undo what was saved since they were opened.                           *)
NoToggleUndone ==
  [][Commit("save") =>
       LET o == calls["save"].of
       IN /\ form = PlatformTab => saved'[o].side = saved[o].side
          /\ form = FeaturesTab => saved'[o].main = saved[o].main]_draftVars

(* Safety: an answer that arrives while the user edits does not take the    *)
(* edits away.  Not so in the forms that follow their answer: the features  *)
(* tab, the SIEM tab and the proxy connection; and an integration's draft   *)
(* is dropped when its mode or stored credentials change.  Nor is it about  *)
(* the form's own save, which takes edits made meanwhile (Settled).         *)
EditsSurvive ==
  [][/\ shown # None /\ form.syncs # "always" /\ Fetched
     /\ form.syncs = "status" => saved[shown].status = cache[shown].status
     => \A f \in touched : draft'[f] = draft[f]]_draftVars

(* Safety: saving a form in which nothing was edited changes nothing, if    *)
(* what it had loaded is what the server still has.  Not so for a scheduled *)
(* report, whose filters are not loaded and are sent blank, and for forms   *)
(* that start blank.                                                        *)
UntouchedSaveChangesNothing ==
  [][/\ Commit("save") /\ calls["save"].fresh /\ form.posts \subseteq form.loads
     /\ \A f \in form.posts : calls["save"].base[f] = saved[calls["save"].of][f]
     => saved' = saved]_draftVars

(* Safety: the message of a test, sync or save appears under the object it  *)
(* is about, unless the form was closed while the call was in flight.       *)
ResultUnderItsHeading ==
  shown # None /\ result.of # None => result.of = shown \/ result.late

=============================================================================
