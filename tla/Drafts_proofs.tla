------------------------------ MODULE Drafts_proofs ------------------------------
(***************************************************************************)
(* What the forms keep to, for any objects and any number of changes by    *)
(* others while they are open.                                             *)
(***************************************************************************)
EXTENDS Drafts, TLAPS

Call == [of: Objects, here: BOOLEAN, done: BOOLEAN,
         fresh: BOOLEAN, base: Drafted, sent: Drafted]

DraftsTypeOK ==
  /\ form \in Forms
  /\ saved \in [Objects -> Records] /\ cache \in [Objects -> Records]
  /\ shown \in Objects \cup {None}
  /\ draft \in Drafted /\ base \in Drafted /\ touched \in SUBSET Fields
  /\ calls \in [Kinds -> Call \cup {NoCall}]
  /\ result \in [of: Objects \cup {None}, late: BOOLEAN]

\* A call that is not late is of the object shown; what was not edited is what was
\* loaded, and so was what an untouched form has sent.
CallOk(c) == c # NoCall => /\ c.here => shown = c.of
                           /\ c.fresh => \A f \in form.loads : c.sent[f] = c.base[f]

CallsOk == \A kind \in Kinds : CallOk(calls[kind])

Untouched == touched = {} => \A f \in form.loads : draft[f] = base[f]

DraftInv ==
  /\ DraftsTypeOK /\ CallsOk /\ Untouched /\ ResultUnderItsHeading

-----------------------------------------------------------------------------
\* Forms load and send fields; the ones that blank their draft load none.
LEMMA FormShapes ==
  \A f \in Forms : /\ f.loads \subseteq Fields /\ f.posts \subseteq Fields
                   /\ f.ends = "blanks" => f.loads = {}
<1>. USE DEF Form, Fields
<1>1. \A f \in Settings \cup Testable \cup {SsoTab, ExclusionDialog} :
        f.loads \subseteq Fields /\ f.posts \subseteq Fields /\ f.ends # "blanks"
  BY DEF Settings, Testable, PlatformTab, FeaturesTab, SiemTab, ConnectionDialog,
         IntegrationPanel, SsoTab, ExclusionDialog
<1>2. \A f \in {ComplianceScopeControl, RiskOverrideSection, ScheduleModal} :
        f.loads \subseteq Fields /\ f.posts \subseteq Fields /\ f.ends # "blanks"
  BY DEF ComplianceScopeControl, RiskOverrideSection, ScheduleModal
<1>3. \A f \in {NoteBox, AddCustomModal, UploadDialog, AutomationDialog, CreateUser,
                CreateApiKey, CertificateTab} :
        f.loads = {} /\ f.posts \subseteq Fields
  BY DEF NoteBox, AddCustomModal, UploadDialog, AutomationDialog, CreateUser,
         CreateApiKey, CertificateTab
<1>. QED  BY <1>1, <1>2, <1>3 DEF Forms

\* A form is opened on objects.
LEMMA OpenedAreObjects == Opened \subseteq Objects
  BY NoneIsNoObject DEF Opened

\* A call in flight is a record, and no call is not one of them.
LEMMA Calls == \A c \in Call : c # NoCall
  BY NoneIsNoObject DEF Call, NoCall

\* The draft of a record: its values in the fields the form loads.
LEMMA Taken ==
  ASSUME form \in Forms, NEW r \in Records, Take(r)
  PROVE  /\ draft' \in Drafted /\ base' \in Drafted /\ touched' = {}
         /\ \A f \in form.loads : draft'[f] = base'[f]
<1>1. form.loads \subseteq Fields
  BY FormShapes
<1>2. \A f \in Fields : r[f] \in BOOLEAN
  BY DEF Records, Fields
<1>. QED  BY <1>1, <1>2 DEF Take, Loaded, Values, Drafted

LEMMA DraftsStart == DraftsInit => DraftInv
<1>. SUFFICES ASSUME DraftsInit PROVE DraftInv
  OBVIOUS
<1>1. /\ form \in Forms /\ saved \in [Objects -> Records] /\ cache = saved
      /\ shown = None /\ draft = Blank /\ base = Blank /\ touched = {}
      /\ calls \in [Kinds -> {NoCall}] /\ result = NoResult
  BY DEF DraftsInit, Records, NoCalls
<1>2. Blank \in Drafted /\ result \in [of: Objects \cup {None}, late: BOOLEAN]
  BY <1>1 DEF Blank, Drafted, NoResult
<1>3. calls \in [Kinds -> Call \cup {NoCall}]
  BY <1>1
<1>4. DraftsTypeOK
  BY <1>1, <1>2, <1>3, Zenon DEF DraftsTypeOK
<1>5. CallsOk /\ Untouched /\ ResultUnderItsHeading
  BY <1>1 DEF CallsOk, CallOk, Untouched, ResultUnderItsHeading
<1>. QED  BY <1>4, <1>5 DEF DraftInv

\* Another record, or none, is taken while no call of a record shown is late.
LEMMA TakenInv ==
  ASSUME DraftInv, NEW r \in Records, Take(r), UNCHANGED form
  PROVE  draft' \in Drafted /\ base' \in Drafted /\ touched' \in SUBSET Fields /\ Untouched'
<1>1. form \in Forms
  BY DEF DraftInv, DraftsTypeOK
<1>. QED  BY <1>1, Taken DEF Untouched

LEMMA GoneInv ==
  ASSUME DraftInv, Gone
  PROVE  /\ shown' = None /\ draft' \in Drafted /\ base' \in Drafted /\ touched' \in SUBSET Fields
         /\ \A f \in Fields : draft'[f] = base'[f]
  BY DEF Gone, Blank, Drafted

\* A form that is gone leaves its calls late, and otherwise as they were.
LEMMA LeftLate ==
  ASSUME DraftInv
  PROVE  /\ Left \in [Kinds -> Call \cup {NoCall}]
         /\ \A kind \in Kinds : Left[kind] # NoCall =>
              /\ calls[kind] # NoCall /\ ~Left[kind].here
              /\ Left[kind].fresh = calls[kind].fresh
              /\ Left[kind].sent = calls[kind].sent /\ Left[kind].base = calls[kind].base
<1>1. \A kind \in Kinds : calls[kind] \in Call \cup {NoCall}
  BY DEF DraftInv, DraftsTypeOK
<1>2. \A c \in Call : LET l == [c EXCEPT !.here = FALSE]
                      IN /\ l \in Call /\ ~l.here /\ l.fresh = c.fresh
                         /\ l.sent = c.sent /\ l.base = c.base
  BY DEF Call
<1>. QED  BY <1>1, <1>2, Calls DEF Left

\* Every step keeps the invariant.
LEMMA DraftStep ==
  ASSUME DraftInv, [DraftsNext]_draftVars
  PROVE  DraftInv'
<1>0. DraftsTypeOK /\ CallsOk /\ Untouched /\ ResultUnderItsHeading
  BY DEF DraftInv
<1>f. form.loads \subseteq Fields /\ form.posts \subseteq Fields
      /\ (form.ends = "blanks" => form.loads = {})
  BY <1>0, FormShapes DEF DraftsTypeOK
<1>r. NoResult \in [of: Objects \cup {None}, late: BOOLEAN] /\ NoResult.of = None
  BY DEF NoResult
<1>c. calls \in [Kinds -> Call \cup {NoCall}]
  BY <1>0 DEF DraftsTypeOK
<1>1. CASE UNCHANGED draftVars
  BY <1>0, <1>1 DEF draftVars, DraftInv, DraftsTypeOK, CallsOk, CallOk, Untouched,
                    ResultUnderItsHeading
<1>2. ASSUME NEW o \in Objects, Open(o) PROVE DraftInv'
  <2>1. /\ shown = None /\ shown' = o /\ Take(cache[o]) /\ result' = NoResult
        /\ UNCHANGED <<form, saved, cache, calls, changes>>
    BY <1>2 DEF Open
  <2>2. draft' \in Drafted /\ base' \in Drafted /\ touched' \in SUBSET Fields /\ Untouched'
    <3>1. cache[o] \in Records
      BY <1>0 DEF DraftsTypeOK
    <3>. QED  BY <2>1, <3>1, TakenInv
  <2>3. DraftsTypeOK'
    BY <1>0, <2>1, <2>2 DEF DraftsTypeOK, NoResult
  <2>4. CallsOk'
    <3>1. \A c \in Call : c.of \in Objects
      BY DEF Call
    <3>2. \A kind \in Kinds : calls[kind] # NoCall => ~calls[kind].here
      BY <1>0, <1>c, <2>1, <3>1, NoneIsNoObject DEF CallsOk, CallOk
    <3>. QED  BY <1>0, <2>1, <3>2 DEF CallsOk, CallOk
  <2>5. ResultUnderItsHeading'
    BY <2>1 DEF ResultUnderItsHeading, NoResult
  <2>. QED  BY <2>2, <2>3, <2>4, <2>5 DEF DraftInv
<1>3. CASE Close
  <2>1. Gone /\ calls' = Left /\ UNCHANGED <<form, saved, cache, result, changes>>
    BY <1>3 DEF Close
  <2>2. DraftsTypeOK'
    BY <1>0, <2>1, LeftLate, GoneInv DEF DraftsTypeOK
  <2>3. CallsOk'
    BY <1>0, <2>1, LeftLate DEF CallsOk, CallOk
  <2>4. Untouched' /\ ResultUnderItsHeading'
    BY <1>f, <2>1, GoneInv DEF Untouched, ResultUnderItsHeading
  <2>. QED  BY <2>2, <2>3, <2>4 DEF DraftInv
<1>4. ASSUME NEW f \in Fields, Edit(f) PROVE DraftInv'
  <2>1. /\ touched' = touched \cup {f} /\ draft' = [draft EXCEPT ![f] = ~@]
        /\ UNCHANGED <<form, saved, cache, shown, base, calls, result, changes>>
    BY <1>4 DEF Edit
  <2>2. draft' \in Drafted
    BY <1>0, <2>1 DEF DraftsTypeOK, Drafted
  <2>3. DraftsTypeOK' /\ Untouched'
    BY <1>0, <2>1, <2>2 DEF DraftsTypeOK, Untouched
  <2>. QED  BY <1>0, <2>1, <2>3 DEF DraftInv, CallsOk, CallOk, ResultUnderItsHeading
<1>5. CASE Fetched
  <2>1. /\ cache' = saved /\ UNCHANGED <<form, saved, shown, calls, changes>>
        /\ \/ /\ shown \in Objects /\ Take(saved[shown])
              /\ result' = NoResult \/ result' = result
           \/ UNCHANGED <<draft, base, touched, result>>
    BY <1>0, <1>5 DEF Fetched, DraftsTypeOK
  <2>2. /\ draft' \in Drafted /\ base' \in Drafted /\ touched' \in SUBSET Fields /\ Untouched'
        /\ result' = NoResult \/ result' = result
    <3>1. CASE shown \in Objects /\ Take(saved[shown])
      <4>1. saved[shown] \in Records
        BY <1>0, <3>1 DEF DraftsTypeOK
      <4>2. UNCHANGED form /\ (result' = NoResult \/ result' = result)
        BY <2>1
      <4>. QED  BY <3>1, <4>1, <4>2, TakenInv
    <3>2. CASE UNCHANGED <<draft, base, touched, result>>
      BY <1>0, <2>1, <3>2 DEF DraftsTypeOK, Untouched
    <3>. QED  BY <2>1, <3>1, <3>2
  <2>3. result' \in [of: Objects \cup {None}, late: BOOLEAN] /\ ResultUnderItsHeading'
    BY <1>0, <1>r, <2>1, <2>2 DEF DraftsTypeOK, ResultUnderItsHeading
  <2>4. DraftsTypeOK' /\ CallsOk'
    BY <1>0, <2>1, <2>2, <2>3 DEF DraftsTypeOK, CallsOk, CallOk
  <2>. QED  BY <2>2, <2>3, <2>4 DEF DraftInv
<1>6. CASE OthersChange
  <2>1. /\ UNCHANGED <<form, cache, shown, draft, base, touched, calls, result>>
        /\ \E o \in Objects, x \in Fields \cup {"status"} : saved' = [saved EXCEPT ![o][x] = ~@]
    BY <1>6, OpenedAreObjects DEF OthersChange, Changed
  <2>2. saved' \in [Objects -> Records]
    <3>1. PICK o \in Objects, x \in Fields \cup {"status"} : saved' = [saved EXCEPT ![o][x] = ~@]
      BY <2>1
    <3>2. saved \in [Objects -> Records] /\ saved[o] \in Records
      BY <1>0 DEF DraftsTypeOK
    <3>3. [saved[o] EXCEPT ![x] = ~@] \in Records
      BY <3>2 DEF Records, Fields
    <3>. HIDE DEF Records
    <3>. QED  BY <3>1, <3>2, <3>3
  <2>. QED
    BY <1>0, <2>1, <2>2 DEF DraftInv, DraftsTypeOK, CallsOk, CallOk, Untouched,
                            ResultUnderItsHeading
<1>7. ASSUME NEW kind \in Kinds, NEW d \in Drafted, NEW b \in BOOLEAN, Post(kind, d, b),
             b => \A f \in form.loads : d[f] = base[f],
             \/ UNCHANGED <<draft, touched>>
             \/ draft' = Blank /\ touched' = Fields
      PROVE  DraftInv'
  <2>. DEFINE sent == [of |-> shown, here |-> TRUE, done |-> FALSE,
                       fresh |-> b, base |-> base, sent |-> d]
  <2>1. /\ shown # None /\ UNCHANGED <<form, saved, cache, shown, base>>
        /\ calls' = [calls EXCEPT ![kind] = sent]
        /\ result' = NoResult \/ result' = result
    BY <1>7 DEF Post
  <2>2. sent \in Call /\ sent.of = shown /\ (sent.fresh => b)
        /\ sent.base = base /\ sent.sent = d
    BY <1>0, <2>1 DEF Call, DraftsTypeOK
  <2>. HIDE DEF sent
  <2>3. result' \in [of: Objects \cup {None}, late: BOOLEAN] /\ ResultUnderItsHeading'
    BY <1>0, <1>r, <2>1 DEF DraftsTypeOK, ResultUnderItsHeading
  <2>4. calls' \in [Kinds -> Call \cup {NoCall}]
    BY <1>c, <2>1, <2>2
  <2>5. draft' \in Drafted /\ touched' \in SUBSET Fields /\ Untouched'
    <3>1. CASE UNCHANGED <<draft, touched>>
      BY <1>0, <2>1, <3>1 DEF DraftsTypeOK, Untouched
    <3>2. CASE draft' = Blank /\ touched' = Fields
      BY <3>2 DEF Untouched, Blank, Drafted, Fields
    <3>. QED  BY <1>7, <3>1, <3>2
  <2>6. DraftsTypeOK'
    BY <1>0, <2>1, <2>3, <2>4, <2>5 DEF DraftsTypeOK
  <2>7. CallsOk'
    BY <1>0, <1>c, <1>7, <2>1, <2>2 DEF CallsOk, CallOk
  <2>. QED  BY <2>3, <2>5, <2>6, <2>7 DEF DraftInv
<1>7s. ASSUME NEW kind \in Kinds, Submit(kind) PROVE DraftInv'
  <2>1. draft \in Drafted /\ (touched = {}) \in BOOLEAN
        /\ (touched = {} => \A f \in form.loads : draft[f] = base[f])
    BY <1>0 DEF DraftsTypeOK, Untouched
  <2>2. Post(kind, draft, touched = {}) /\ UNCHANGED <<draft, touched>>
    BY <1>7s DEF Submit
  <2>. QED  BY <1>7, <2>1, <2>2
<1>7c. ASSUME Clear PROVE DraftInv'
  <2>1. Blank \in Drafted /\ "save" \in Kinds
    BY DEF Blank, Drafted, Kinds
  <2>2. /\ Post("save", Blank, FALSE)
        /\ (UNCHANGED <<draft, touched>> \/ (draft' = Blank /\ touched' = Fields))
    BY <1>7c DEF Clear
  <2>. QED  BY <1>7, <2>1, <2>2
<1>8. ASSUME NEW kind \in Kinds, Commit(kind) PROVE DraftInv'
  <2>1. /\ calls[kind] # NoCall /\ calls' = [calls EXCEPT ![kind].done = TRUE]
        /\ UNCHANGED <<form, cache, shown, draft, base, touched, result, changes>>
    BY <1>8 DEF Commit
  <2>. DEFINE handled == [calls[kind] EXCEPT !.done = TRUE]
  <2>2. /\ calls[kind] \in Call /\ handled \in Call /\ handled.of = calls[kind].of
        /\ handled.here = calls[kind].here /\ handled.fresh = calls[kind].fresh
        /\ handled.base = calls[kind].base /\ handled.sent = calls[kind].sent
    BY <1>c, <2>1 DEF Call
  <2>3. calls' = [calls EXCEPT ![kind] = handled]
    BY <2>1
  <2>. HIDE DEF handled
  <2>4. saved' \in [Objects -> Records]
    <3>1. /\ calls[kind].of \in Objects /\ saved[calls[kind].of] \in Records
          /\ \A x \in Fields : calls[kind].sent[x] \in BOOLEAN
      BY <1>0, <2>2 DEF DraftsTypeOK, Call, Drafted
    <3>2. CASE saved' = [saved EXCEPT ![calls[kind].of] =
                 [x \in DOMAIN @ |-> IF x \in form.posts THEN calls[kind].sent[x] ELSE @[x]]]
      <4>1. [x \in DOMAIN saved[calls[kind].of] |->
              IF x \in form.posts THEN calls[kind].sent[x] ELSE saved[calls[kind].of][x]]
            \in Records
        BY <1>f, <3>1 DEF Records
      <4>. QED  BY <1>0, <3>1, <3>2, <4>1 DEF DraftsTypeOK
    <3>3. CASE saved' = [saved EXCEPT ![calls[kind].of].status = ~@]
      BY <1>0, <3>1, <3>3 DEF DraftsTypeOK, Records
    <3>4. CASE saved' = saved
      BY <1>0, <3>4 DEF DraftsTypeOK
    <3>. QED  BY <1>8, <3>2, <3>3, <3>4 DEF Commit
  <2>5. calls' \in [Kinds -> Call \cup {NoCall}]
    BY <1>c, <2>2, <2>3
  <2>6. DraftsTypeOK' /\ Untouched' /\ ResultUnderItsHeading'
    BY <1>0, <2>1, <2>4, <2>5 DEF DraftsTypeOK, Untouched, ResultUnderItsHeading
  <2>7. CallsOk'
    BY <1>0, <1>c, <2>1, <2>2, <2>3 DEF CallsOk, CallOk
  <2>. QED  BY <2>6, <2>7 DEF DraftInv
<1>9. ASSUME NEW kind \in Kinds, calls[kind] # NoCall, Answered(kind),
             UNCHANGED <<form, saved, cache>>,
             \/ Gone /\ calls' = [Left EXCEPT ![kind] = NoCall]
             \/ /\ calls' = [calls EXCEPT ![kind] = NoCall]
                /\ UNCHANGED <<shown, draft, base, touched>>
             \/ /\ calls' = [calls EXCEPT ![kind] = NoCall]
                /\ form.ends = "blanks" /\ draft' = Blank /\ touched' = {}
                /\ UNCHANGED <<shown, base>>
             \/ /\ calls' = [calls EXCEPT ![kind] = NoCall] /\ UNCHANGED shown
                /\ draft' = calls[kind].sent /\ base' = calls[kind].sent /\ touched' = {}
      PROVE  DraftInv'
  <2>1. calls[kind] \in Call /\ calls[kind].of \in Objects
    BY <1>c, <1>9 DEF Call
  <2>2. /\ shown' \in {shown, None} /\ draft' \in Drafted /\ base' \in Drafted
        /\ touched' \in SUBSET Fields /\ Untouched'
    <3>1. CASE Gone
      BY <1>f, <1>9, <3>1, GoneInv DEF Untouched
    <3>2. CASE UNCHANGED <<shown, draft, base, touched>>
      BY <1>0, <1>9, <3>2 DEF DraftsTypeOK, Untouched
    <3>3. CASE /\ form.ends = "blanks" /\ draft' = Blank /\ touched' = {}
               /\ UNCHANGED <<shown, base>>
      BY <1>0, <1>f, <1>9, <3>3 DEF DraftsTypeOK, Untouched, Blank, Drafted
    <3>4. CASE /\ draft' = calls[kind].sent /\ base' = calls[kind].sent /\ touched' = {}
               /\ UNCHANGED shown
      BY <1>f, <1>9, <2>1, <3>4 DEF Untouched, Call
    <3>. QED  BY <1>9, <3>1, <3>2, <3>3, <3>4
  <2>3. result' \in [of: Objects \cup {None}, late: BOOLEAN]
        /\ result' = [of |-> calls[kind].of, late |-> ~calls[kind].here]
    BY <1>9, <2>1 DEF Answered, Call
  <2>4. calls' \in [Kinds -> Call \cup {NoCall}] /\ CallsOk'
    <3>1. CASE Gone /\ calls' = [Left EXCEPT ![kind] = NoCall]
      BY <1>0, <1>9, <3>1, LeftLate DEF CallsOk, CallOk
    <3>2. CASE calls' = [calls EXCEPT ![kind] = NoCall] /\ UNCHANGED <<shown, form>>
      BY <1>0, <1>c, <3>2 DEF CallsOk, CallOk
    <3>. QED  BY <1>9, <3>1, <3>2
  <2>5. DraftsTypeOK'
    BY <1>0, <1>9, <2>2, <2>3, <2>4 DEF DraftsTypeOK
  <2>6. ResultUnderItsHeading'
    BY <1>0, <1>9, <2>2, <2>3 DEF CallsOk, CallOk, ResultUnderItsHeading
  <2>. QED  BY <2>2, <2>4, <2>5, <2>6 DEF DraftInv
<1>10. ASSUME NEW kind \in Kinds, Succeeded(kind) PROVE DraftInv'
  <2>1. calls[kind] # NoCall /\ Answered(kind) /\ UNCHANGED <<form, saved, cache>>
    BY <1>10 DEF Succeeded
  <2>2. \/ Gone /\ calls' = [Left EXCEPT ![kind] = NoCall]
        \/ /\ calls' = [calls EXCEPT ![kind] = NoCall]
           /\ UNCHANGED <<shown, draft, base, touched>>
        \/ /\ calls' = [calls EXCEPT ![kind] = NoCall]
           /\ form.ends = "blanks" /\ draft' = Blank /\ touched' = {}
           /\ UNCHANGED <<shown, base>>
        \/ /\ calls' = [calls EXCEPT ![kind] = NoCall] /\ UNCHANGED shown
           /\ draft' = calls[kind].sent /\ base' = calls[kind].sent /\ touched' = {}
    BY <1>10, Zenon DEF Succeeded, Settled
  <2>. QED  BY <1>9, <2>1, <2>2
<1>11. ASSUME NEW kind \in Kinds, CallFailed(kind) PROVE DraftInv'
  BY <1>9, <1>11 DEF CallFailed
<1>. QED
  BY <1>1, <1>2, <1>3, <1>4, <1>5, <1>6, <1>7s, <1>7c, <1>8, <1>10, <1>11 DEF DraftsNext

-----------------------------------------------------------------------------
\* The message of a test, sync or save appears under the object it is about,
\* unless the form was closed while the call was in flight.
THEOREM ResultsBelong == DraftsSpec => []ResultUnderItsHeading
<1>1. DraftInv => ResultUnderItsHeading
  BY DEF DraftInv
<1>. QED  BY <1>1, DraftsStart, DraftStep, PTL DEF DraftsSpec

\* A save of the platform settings leaves the feature switches as they are on the
\* server, and the other way around, however old either form is.
THEOREM TogglesKept == DraftsSpec => NoToggleUndone
<1>1. ASSUME DraftInv, Commit("save")
      PROVE  LET o == calls["save"].of
             IN /\ form = PlatformTab => saved'[o].side = saved[o].side
                /\ form = FeaturesTab => saved'[o].main = saved[o].main
  <2>. DEFINE call == calls["save"]
  <2>1. call.of \in Objects /\ saved \in [Objects -> Records]
    BY <1>1 DEF DraftInv, DraftsTypeOK, Commit, Call, Kinds
  <2>2. saved' = [saved EXCEPT ![call.of] =
          [x \in DOMAIN @ |-> IF x \in form.posts THEN call.sent[x] ELSE @[x]]]
    BY <1>1 DEF Commit
  <2>3. saved'[call.of] = [x \in {"main", "side", "status"} |->
          IF x \in form.posts THEN call.sent[x] ELSE saved[call.of][x]]
    BY <2>1, <2>2 DEF Records
  <2>4. (form = PlatformTab => form.posts = {"main"}) /\ (form = FeaturesTab => form.posts = {"side"})
    BY DEF PlatformTab, FeaturesTab, Form
  <2>. QED  BY <2>3, <2>4
<1>. QED  BY <1>1, DraftsStart, DraftStep, PTL DEF DraftsSpec, NoToggleUndone

\* An answer leaves the edits of every form that does not follow its answers.
THEOREM EditsKept == DraftsSpec => EditsSurvive
<1>1. ASSUME Fetched, shown # None, form.syncs # "always",
             form.syncs = "status" => saved[shown].status = cache[shown].status
      PROVE  draft' = draft
  <2>1. ~Followed(cache[shown], saved[shown])
    BY <1>1 DEF Followed
  <2>. QED  BY <1>1, <2>1 DEF Fetched
<1>2. [DraftsNext]_draftVars =>
        [/\ shown # None /\ form.syncs # "always" /\ Fetched
         /\ form.syncs = "status" => saved[shown].status = cache[shown].status
         => \A f \in touched : draft'[f] = draft[f]]_draftVars
  BY <1>1
<1>. QED  BY <1>2, PTL DEF DraftsSpec, EditsSurvive

\* Saving a form in which nothing was edited, and whose fields are still what the
\* server has, changes nothing there.
THEOREM UntouchedSaves == DraftsSpec => UntouchedSaveChangesNothing
<1>1. ASSUME DraftInv, Commit("save"), calls["save"].fresh, form.posts \subseteq form.loads,
             \A f \in form.posts : calls["save"].base[f] = saved[calls["save"].of][f]
      PROVE  saved' = saved
  <2>. DEFINE call == calls["save"]
  <2>1. call.of \in Objects /\ saved \in [Objects -> Records] /\ call # NoCall
    BY <1>1 DEF DraftInv, DraftsTypeOK, Commit, Call, Kinds
  <2>2. \A f \in form.posts : call.sent[f] = saved[call.of][f]
    BY <1>1, <2>1 DEF DraftInv, CallsOk, CallOk, Kinds
  <2>3. saved' = [saved EXCEPT ![call.of] =
          [x \in DOMAIN @ |-> IF x \in form.posts THEN call.sent[x] ELSE @[x]]]
    BY <1>1 DEF Commit
  <2>4. [x \in DOMAIN saved[call.of] |->
          IF x \in form.posts THEN call.sent[x] ELSE saved[call.of][x]] = saved[call.of]
    BY <2>1, <2>2 DEF Records
  <2>. QED  BY <2>1, <2>3, <2>4
<1>. QED  BY <1>1, DraftsStart, DraftStep, PTL DEF DraftsSpec, UntouchedSaveChangesNothing

=============================================================================
