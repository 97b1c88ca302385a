---------------------------- MODULE InventoryChanges ----------------------------
(***************************************************************************)
(* The change log of the endpoint inventory.  A compliance run             *)
(* (run_full_compliance) deletes the status rows of unavailable endpoints, *)
(* evaluates the others, and in the same transaction compares the          *)
(* inventory with its last snapshot and logs the differences               *)
(* (capture_inventory_changes).  The scheduler runs it, and so do requests *)
(* at any time; some requests only take the snapshot.                      *)
(*                                                                         *)
(* The sessions have autoflush off: a row that an evaluation has changed   *)
(* shows its new values to the snapshot's query, a row it has added does   *)
(* not show at all, because the query goes to the database.                *)
(***************************************************************************)
EXTENDS Naturals

CONSTANTS
  Endpoints,  \* identities of endpoint rows, never used twice
  Products,   \* the agent products of COMPLIANCE_AGENTS
  Runs,       \* what can run at once: the scheduler's job and requests
  Scheduled,  \* the scheduler's job
  NoState,    \* no snapshot of the endpoint
  NoRow,      \* no status row of the endpoint
  MaxChanges  \* bound: changes of the inventory, and runs that die

ASSUME RunsAssumption  == Scheduled \in Runs
ASSUME BoundAssumption == MaxChanges \in Nat

VARIABLES
  inventory,   \* the endpoint rows
  installed,   \* the products the collectors report for an endpoint
  required,    \* the products that integrations and product tags require
  excluded,    \* the compliance exclusions of an endpoint
  status,      \* the compliance status rows
  snapshot,    \* the entity state snapshots
  initialized, \* the tracking marker exists
  session,     \* per run: its transaction
  changes,     \* changes of the inventory and deaths so far
  told,        \* history: what the events say of an endpoint the log knows
  altered,     \* history: products whose report changed since the endpoint's first
  overlapped   \* history: two runs were active at once

database    == <<inventory, installed, required, excluded, status>>
tracking    == <<snapshot, initialized>>
historyVars == <<told, altered, overlapped>>
vars == <<database, tracking, session, changes, historyVars>>

Verdicts == {"compliant", "partial", "non_compliant"}
Rows     == [present : SUBSET Products, verdict : Verdicts]
States   == [active : BOOLEAN, verdict : Verdicts \cup {"not_evaluated"},
             tracked : SUBSET Products, present : SUBSET Products]
Sessions ==
  [stage : {"idle", "listing", "evaluating", "captured"}, required : SUBSET Products,
   todo : SUBSET Endpoints, deleted : SUBSET Endpoints, added : SUBSET Endpoints,
   rows : [Endpoints -> Rows \cup {NoRow}], first : BOOLEAN,
   old : [Endpoints -> States \cup {NoState}], new : [Endpoints -> States \cup {NoState}]]

NoRows   == [e \in Endpoints |-> NoRow]
NoStates == [e \in Endpoints |-> NoState]

Idle == [stage |-> "idle", required |-> {}, todo |-> {}, deleted |-> {}, added |-> {},
         rows |-> NoRows, first |-> FALSE, old |-> NoStates, new |-> NoStates]

\* What the events say: an activity and a verdict, and of a product that it was
\* added, that it went missing, or nothing.
Says == [active : BOOLEAN, verdict : Verdicts \cup {"not_evaluated"},
         added : SUBSET Products, missing : SUBSET Products]

ASSUME NoRowAssumption   == NoRow \notin Rows
ASSUME NoStateAssumption == NoState \notin States \cup Says

TypeOK ==
  /\ inventory \in [Endpoints -> {"absent", "active", "inactive", "gone"}]
  /\ installed \in [Endpoints -> SUBSET Products]
  /\ required \subseteq Products
  /\ excluded \in [Endpoints -> SUBSET Products]
  /\ status \in [Endpoints -> Rows \cup {NoRow}]
  /\ snapshot \in [Endpoints -> States \cup {NoState}]
  /\ initialized \in BOOLEAN
  /\ session \in [Runs -> Sessions]
  /\ changes \in 0..MaxChanges
  /\ told \in [Endpoints -> Says \cup {NoState}]
  /\ altered \in [Endpoints -> SUBSET Products]
  /\ overlapped \in BOOLEAN

Init ==
  /\ inventory = [e \in Endpoints |-> "absent"]
  /\ installed = [e \in Endpoints |-> {}]
  /\ required \in SUBSET Products
  /\ excluded = [e \in Endpoints |-> {}]
  /\ status = NoRows
  /\ snapshot = NoStates
  /\ initialized = FALSE
  /\ session = [r \in Runs |-> Idle]
  /\ changes = 0
  /\ told = NoStates
  /\ altered = [e \in Endpoints |-> {}]
  /\ overlapped = FALSE

Change == changes < MaxChanges /\ changes' = changes + 1

Current == {e \in Endpoints : inventory[e] = "active"}
Exists  == {e \in Endpoints : inventory[e] \in {"active", "inactive"}}
HasRow  == {e \in Endpoints : status[e] # NoRow}

--------------------------------------------------------------------------------
(* evaluate_endpoint. *)

\* Mutant: an endpoint without checks has a verdict the column does not know.
VerdictOfSome(present, checks) ==
  IF checks = {} THEN "not_applicable"
  ELSE IF checks \subseteq present THEN "compliant"
  ELSE IF checks \cap present = {} THEN "non_compliant" ELSE "partial"

\* A check per product that is required and not excluded; none at all passes.
Verdict(present, checks) ==
  IF checks \subseteq present THEN "compliant"
  ELSE IF checks \cap present = {} THEN "non_compliant" ELSE "partial"

Evaluation(e, needed) ==
  LET present == installed[e] \cap needed
  IN  [present |-> present, verdict |-> Verdict(present, needed \ excluded[e])]

--------------------------------------------------------------------------------
(* A run: run_full_compliance, or capture_inventory_changes by itself. *)

Starts(r, s) ==
  /\ session[r].stage = "idle"
  /\ session' = [session EXCEPT ![r] = s]
  /\ overlapped' = (overlapped \/ \E q \in Runs : session[q].stage # "idle")
  /\ UNCHANGED <<database, tracking, changes, told, altered>>

\* Mutant: status rows outlive their endpoint's availability.
NothingStale == {}

\* The status rows that no current endpoint owns, which a run begins by deleting.
Stale == HasRow \ Current

\* The rows whose deletion another run has not committed yet: writers wait.
Deleting(r) == UNION {session[q].deleted : q \in Runs \ {r}}

Begin(r) ==
  /\ Stale \cap Deleting(r) = {}
  /\ Starts(r, [Idle EXCEPT !.stage = "listing", !.required = required, !.deleted = Stale])

\* The second query: the endpoints to evaluate, as they are by now.
ListCurrent(r) ==
  /\ session[r].stage = "listing"
  /\ session' = [session EXCEPT ![r].stage = "evaluating", ![r].todo = Current]
  /\ UNCHANGED <<database, tracking, changes, historyVars>>

\* import_active_directory, and sync_integration of a product without agents.
BeginCapture(r) ==
  /\ r # Scheduled
  /\ Starts(r, [Idle EXCEPT !.stage = "evaluating"])

\* The result is staged in the session: an update of the row that is there, or a
\* new row, also in place of one that the run has deleted.  An endpoint that has become unavailable is passed over.
Evaluate(r, e) ==
  /\ session[r].stage = "evaluating"
  /\ e \in session[r].todo
  /\ session' = [session EXCEPT
       ![r].todo  = @ \ {e},
       ![r].rows  = IF e \in Current
                    THEN [@ EXCEPT ![e] = Evaluation(e, session[r].required)] ELSE @,
       ![r].added = IF e \in Current \ HasRow THEN @ \cup {e} ELSE @]
  /\ UNCHANGED <<database, tracking, changes, historyVars>>

\* The status row that the snapshot's query finds: the session's own additions have
\* not been flushed.
Seen(r, e) ==
  LET s == session[r]
  IN  IF e \in s.deleted THEN NoRow
      ELSE IF s.rows[e] # NoRow /\ e \notin s.added THEN s.rows[e]
      ELSE status[e]

\* _endpoint_state.
EndpointState(r, e) ==
  LET row == Seen(r, e)
  IN  [active  |-> inventory[e] = "active",
       verdict |-> IF row = NoRow THEN "not_evaluated" ELSE row.verdict,
       tracked |-> required,
       present |-> IF row = NoRow THEN {} ELSE row.present \cap required]

\* The queries of capture_inventory_changes and the comparison they lead to.
Capture(r) ==
  /\ session[r].stage = "evaluating"
  /\ session[r].todo = {}
  /\ session' = [session EXCEPT
       ![r].stage = "captured",
       ![r].first = ~ initialized,
       ![r].old   = snapshot,
       ![r].new   = [e \in Endpoints |-> IF e \in Exists THEN EndpointState(r, e) ELSE NoState]]
  /\ UNCHANGED <<database, tracking, changes, historyVars>>

--------------------------------------------------------------------------------
(* The events of a capture, by what they add to the log. *)

\* A product that was not tracked only gets a baseline.
Compared(old, new) == new.tracked \cap old.tracked

Added(old, new)   == Compared(old, new) \cap (new.present \ old.present)

\* Mutant: what an unavailable endpoint lacks is not reported.
MissingIfActive(old, new) ==
  IF new.active THEN Compared(old, new) \cap (old.present \ new.present) ELSE {}

Missing(old, new) == Compared(old, new) \cap (old.present \ new.present)

\* detected and removed, or the differences: enabled, disabled, compliance_changed,
\* product_added and product_missing.  What is said of a product ends with its tracking.
Report(said, old, new) ==
  IF new = NoState THEN NoState
  ELSE IF old = NoState \/ said = NoState
  THEN [active |-> new.active, verdict |-> new.verdict, added |-> {}, missing |-> {}]
  ELSE [active  |-> IF old.active # new.active THEN new.active ELSE said.active,
        verdict |-> IF old.verdict # new.verdict THEN new.verdict ELSE said.verdict,
        added   |-> ((said.added \cap new.tracked) \ Missing(old, new)) \cup Added(old, new),
        missing |-> ((said.missing \cap new.tracked) \ Added(old, new)) \cup Missing(old, new)]

--------------------------------------------------------------------------------
(* The end of a run. *)

\* What the flush may not meet: a row that another transaction has added, an updated
\* row that another has deleted or is deleting, an endpoint that no longer exists.
FlushSucceeds(r) ==
  LET s == session[r]
  IN  /\ s.first => ~ initialized
      /\ \A e \in Endpoints :
           /\ s.old[e] = NoState /\ s.new[e] # NoState => snapshot[e] = NoState
           /\ s.old[e] # NoState /\ s.new[e] # NoState => snapshot[e] # NoState
           /\ s.rows[e] # NoRow => /\ e \in Exists \ Deleting(r)
                                  /\ e \in s.added <=> e \notin HasRow

Ends(r) == session' = [session EXCEPT ![r] = Idle]

Commit(r) ==
  LET s == session[r]
  IN  /\ s.stage = "captured"
      /\ FlushSucceeds(r)
      /\ Ends(r)
      /\ status' = [e \in Endpoints |->
                      IF s.rows[e] # NoRow THEN s.rows[e]
                      ELSE IF e \in s.deleted THEN NoRow ELSE status[e]]
      /\ snapshot' = [e \in Endpoints |->
                        IF s.old[e] = NoState /\ s.new[e] = NoState
                        THEN snapshot[e] ELSE s.new[e]]
      /\ initialized' = TRUE
      /\ told' = [e \in Endpoints |->
                    IF s.old[e] = NoState /\ s.new[e] = NoState
                    THEN told[e] ELSE Report(told[e], s.old[e], s.new[e])]
      /\ UNCHANGED <<inventory, installed, required, excluded, changes, altered, overlapped>>

\* The capture's handler logs the failed flush, and the commit then fails as well.
FlushFails(r) ==
  /\ session[r].stage = "captured"
  /\ ~ FlushSucceeds(r)
  /\ Ends(r)
  /\ UNCHANGED <<database, tracking, changes, historyVars>>

Dies(r) ==
  /\ session[r].stage # "idle"
  /\ Change
  /\ Ends(r)
  /\ UNCHANGED <<database, tracking, historyVars>>

--------------------------------------------------------------------------------
(* The rest of the system. *)

\* The collectors create endpoints, with what they report of them.
Discover(e) ==
  /\ inventory[e] = "absent"
  /\ Change
  /\ inventory' = [inventory EXCEPT ![e] = "active"]
  /\ \E products \in SUBSET Products : installed' = [installed EXCEPT ![e] = products]
  /\ UNCHANGED <<required, excluded, status, tracking, session, historyVars>>

\* Agents come and go on an endpoint.
Reinstall(e, products) ==
  /\ e \in Exists
  /\ products # installed[e]
  /\ Change
  /\ installed' = [installed EXCEPT ![e] = products]
  /\ altered' = [altered EXCEPT ![e] =
       @ \cup (products \ installed[e]) \cup (installed[e] \ products)]
  /\ UNCHANGED <<inventory, required, excluded, status, tracking, session, told, overlapped>>

\* JumpCloud no longer lists the endpoint: its status row and all it shows will go.
Deactivate(e) ==
  /\ inventory[e] = "active"
  /\ Change
  /\ inventory' = [inventory EXCEPT ![e] = "inactive"]
  /\ altered' = [altered EXCEPT ![e] = Products]
  /\ UNCHANGED <<installed, required, excluded, status, tracking, session, told, overlapped>>

Reactivate(e) ==
  /\ inventory[e] = "inactive"
  /\ Change
  /\ inventory' = [inventory EXCEPT ![e] = "active"]
  /\ UNCHANGED <<installed, required, excluded, status, tracking, session, historyVars>>

\* deduplicate_endpoints deletes the row, and the database what refers to it.  A
\* status row that the kept endpoint inherits for want of its own is left out: to the
\* change log it is an evaluation of that endpoint.
MergeAway(e) ==
  /\ e \in Exists
  /\ Change
  /\ inventory' = [inventory EXCEPT ![e] = "gone"]
  /\ installed' = [installed EXCEPT ![e] = {}]
  /\ excluded' = [excluded EXCEPT ![e] = {}]
  /\ status' = [status EXCEPT ![e] = NoRow]
  /\ UNCHANGED <<required, tracking, session, historyVars>>

\* Integrations are configured, product tags are set.
Require(products) ==
  /\ products # required
  /\ Change
  /\ required' = products
  /\ UNCHANGED <<inventory, installed, excluded, status, tracking, session, historyVars>>

\* update_compliance_exclusions: one transaction, with an evaluation of its own.
Exclude(e, products) ==
  /\ e \in Exists \ UNION {session[r].deleted : r \in Runs}
  /\ products # excluded[e]
  /\ Change
  /\ excluded' = [excluded EXCEPT ![e] = products]
  /\ status' = IF e \notin Current THEN status
               ELSE LET present == installed[e] \cap required
                    IN  [status EXCEPT ![e] = [present |-> present,
                                               verdict |-> Verdict(present, required \ products)]]
  /\ UNCHANGED <<inventory, installed, required, tracking, session, historyVars>>

Environment ==
  \/ \E e \in Endpoints :
       \/ Discover(e) \/ Deactivate(e) \/ Reactivate(e) \/ MergeAway(e)
       \/ \E products \in SUBSET Products : Reinstall(e, products) \/ Exclude(e, products)
  \/ \E products \in SUBSET Products : Require(products)

Continue(r) ==
  \/ ListCurrent(r) \/ \E e \in Endpoints : Evaluate(r, e)
  \/ Capture(r) \/ Commit(r) \/ FlushFails(r)

Next ==
  \/ \E r \in Runs : Begin(r) \/ BeginCapture(r) \/ Continue(r) \/ Dies(r)
  \/ Environment

Spec == Init /\ [][Next]_vars

\* The scheduler starts its job for ever, and a run that has begun goes on.
Fairness ==
  /\ WF_vars(Begin(Scheduled))
  /\ \A r \in Runs : WF_vars(Continue(r))

FairSpec == Spec /\ Fairness

--------------------------------------------------------------------------------
(* Properties. *)

\* What the events say of an endpoint is what its snapshot records.
Follows(said, state) ==
  IF state = NoState THEN said = NoState
  ELSE /\ said # NoState
       /\ said.active = state.active
       /\ said.verdict = state.verdict
       /\ said.added \subseteq state.present
       /\ said.missing \subseteq state.tracked \ state.present

\* While no two runs have overlapped, whoever replays the log arrives at the
\* snapshot: no difference is left out of it, whatever happens during a run.
LogFollowsSnapshot == ~ overlapped => \A e \in Endpoints : Follows(told[e], snapshot[e])

\* What the inventory really shows.
Truth(e) ==
  IF e \notin Exists THEN NoState
  ELSE LET row == Evaluation(e, required)
           active == e \in Current
       IN  [active  |-> active,
            verdict |-> IF active THEN row.verdict ELSE "not_evaluated",
            tracked |-> required,
            present |-> IF active THEN row.present ELSE {}]

\* Once the inventory rests, the snapshot comes to show it and goes on doing so,
\* although runs overlap, overwrite each other's results and fail on conflicts.
EventuallyAccurate == <>[](\A e \in Endpoints : snapshot[e] = Truth(e))

\* "Changes are emitted only after a previously known state actually transitions"
\* (README.md): a product is said to be added or missing only after the report of it
\* has changed, or the endpoint was unavailable, since the endpoint was discovered.
RealChanges ==
  \A e \in Endpoints : told[e] # NoState => told[e].added \cup told[e].missing \subseteq altered[e]
================================================================================
