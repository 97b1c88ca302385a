------------------------- MODULE InventoryChanges_proofs -------------------------
(***************************************************************************)
(* The change log of the endpoint inventory, for all sets of endpoints,    *)
(* products and runs and every number of changes.                          *)
(***************************************************************************)
EXTENDS InventoryChanges, TLAPS

USE RunsAssumption, BoundAssumption, NoRowAssumption, NoStateAssumption

--------------------------------------------------------------------------------
(* What the operators return. *)

\* The verdict is one of the values of the status column's enumeration.
LEMMA VerdictType ==
  ASSUME NEW present, NEW checks
  PROVE  Verdict(present, checks) \in Verdicts
  BY DEF Verdict, Verdicts

\* An evaluation makes a status row.
LEMMA EvaluationType ==
  ASSUME NEW e \in Endpoints, NEW needed \in SUBSET Products, TypeOK
  PROVE  Evaluation(e, needed) \in Rows
<1>1. installed[e] \cap needed \in SUBSET Products
  BY DEF TypeOK
<1>. QED  BY <1>1, VerdictType DEF Evaluation, Rows

\* The snapshot's query finds a status row or none.
LEMMA SeenType ==
  ASSUME TypeOK, NEW r \in Runs, NEW e \in Endpoints
  PROVE  Seen(r, e) \in Rows \cup {NoRow}
<1>1. session[r].rows \in [Endpoints -> Rows \cup {NoRow}]
  BY DEF TypeOK, Sessions
<1>2. status[e] \in Rows \cup {NoRow} /\ session[r].rows[e] \in Rows \cup {NoRow}
  BY <1>1 DEF TypeOK
<1>. QED  BY <1>2 DEF Seen

\* _endpoint_state makes a state, which only knows products it tracks.
LEMMA EndpointStateType ==
  ASSUME TypeOK, NEW r \in Runs, NEW e \in Endpoints
  PROVE  /\ EndpointState(r, e) \in States
         /\ EndpointState(r, e).present \subseteq EndpointState(r, e).tracked
<1>. DEFINE row     == Seen(r, e)
            verdict == IF row = NoRow THEN "not_evaluated" ELSE row.verdict
            present == IF row = NoRow THEN {} ELSE row.present \cap required
<1>1. verdict \in Verdicts \cup {"not_evaluated"} /\ present \in SUBSET Products
  BY SeenType DEF Rows, TypeOK
<1>2. present \subseteq required /\ required \in SUBSET Products
  BY DEF TypeOK
<1>3. (inventory[e] = "active") \in BOOLEAN
  OBVIOUS
<1>4. EndpointState(r, e) =
        [active |-> inventory[e] = "active", verdict |-> verdict,
         tracked |-> required, present |-> present]
  BY DEF EndpointState
<1>. HIDE DEF verdict, present
<1>. QED  BY <1>1, <1>2, <1>3, <1>4 DEF States

\* The events of one capture say something the log can be read for.
LEMMA ReportType ==
  ASSUME NEW said \in Says \cup {NoState},
         NEW old \in States \cup {NoState}, NEW new \in States \cup {NoState}
  PROVE  /\ Report(said, old, new) \in Says \cup {NoState}
         /\ new # NoState => Report(said, old, new) # NoState
<1>1. CASE new = NoState
  BY <1>1 DEF Report
<1>2. CASE new # NoState /\ (old = NoState \/ said = NoState)
  <2>1. new \in States
    BY <1>2
  <2>2. Report(said, old, new) =
          [active |-> new.active, verdict |-> new.verdict, added |-> {}, missing |-> {}]
    BY <1>2 DEF Report
  <2>3. Report(said, old, new) \in Says
    BY <2>1, <2>2 DEF States, Says
  <2>. QED  BY <2>3
<1>3. CASE new # NoState /\ old # NoState /\ said # NoState
  <2>1. new \in States /\ old \in States /\ said \in Says
    BY <1>3
  <2>. DEFINE active  == IF old.active # new.active THEN new.active ELSE said.active
              verdict == IF old.verdict # new.verdict THEN new.verdict ELSE said.verdict
              added   == ((said.added \cap new.tracked) \ Missing(old, new)) \cup Added(old, new)
              missing == ((said.missing \cap new.tracked) \ Added(old, new)) \cup Missing(old, new)
  <2>2. active \in BOOLEAN /\ verdict \in Verdicts \cup {"not_evaluated"}
    BY <2>1 DEF States, Says
  <2>3. added \in SUBSET Products /\ missing \in SUBSET Products
    BY <2>1 DEF States, Says, Added, Missing, Compared
  <2>4. Report(said, old, new) =
          [active |-> active, verdict |-> verdict, added |-> added, missing |-> missing]
    BY <1>3 DEF Report
  <2>. HIDE DEF active, verdict, added, missing
  <2>5. Report(said, old, new) \in Says
    BY <2>2, <2>3, <2>4 DEF Says
  <2>. QED  BY <2>5
<1>. QED  BY <1>1, <1>2, <1>3

--------------------------------------------------------------------------------
(* Type correctness. *)

\* A run that is not in a transaction has nothing staged.
LEMMA IdleType == Idle \in Sessions
<1>1. NoRows \in [Endpoints -> Rows \cup {NoRow}]
  BY DEF NoRows
<1>2. NoStates \in [Endpoints -> States \cup {NoState}]
  BY DEF NoStates
<1>. QED  BY <1>1, <1>2 DEF Idle, Sessions

\* What a run stages while it evaluates an endpoint.
LEMMA EvaluateType ==
  ASSUME TypeOK, NEW r \in Runs, NEW e \in Endpoints, Evaluate(r, e)
  PROVE  session' \in [Runs -> Sessions]
<1>. DEFINE s     == session[r]
            rows  == IF e \in Current THEN [s.rows EXCEPT ![e] = Evaluation(e, s.required)]
                                      ELSE s.rows
            added == IF e \in Current \ HasRow THEN s.added \cup {e} ELSE s.added
            next  == [s EXCEPT !.todo = @ \ {e}, !.rows = rows, !.added = added]
<1>1. s \in Sessions /\ session \in [Runs -> Sessions]
  BY DEF TypeOK
<1>2. Evaluation(e, s.required) \in Rows
  BY <1>1, EvaluationType DEF Sessions
<1>3. s.rows \in [Endpoints -> Rows \cup {NoRow}] /\ s.added \in SUBSET Endpoints
  BY <1>1 DEF Sessions
<1>4. rows \in [Endpoints -> Rows \cup {NoRow}] /\ added \in SUBSET Endpoints
  BY <1>2, <1>3
<1>5. session' = [session EXCEPT ![r] = next]
  BY <1>1 DEF Evaluate
<1>. HIDE DEF rows, added
<1>6. next \in Sessions
  BY <1>1, <1>4 DEF Sessions
<1>. HIDE DEF next
<1>. QED  BY <1>1, <1>5, <1>6

\* What a capture compares.
LEMMA CaptureType ==
  ASSUME TypeOK, NEW r \in Runs, Capture(r)
  PROVE  session' \in [Runs -> Sessions]
<1>. DEFINE new  == [e \in Endpoints |-> IF e \in Exists THEN EndpointState(r, e) ELSE NoState]
            first == ~ initialized
            next == [session[r] EXCEPT !.stage = "captured", !.first = first,
                                       !.old = snapshot, !.new = new]
<1>1. session[r] \in Sessions /\ session \in [Runs -> Sessions]
  BY DEF TypeOK
<1>2. new \in [Endpoints -> States \cup {NoState}]
  BY EndpointStateType
<1>3. snapshot \in [Endpoints -> States \cup {NoState}] /\ first \in BOOLEAN
  BY DEF TypeOK
<1>4. session' = [session EXCEPT ![r] = next]
  BY <1>1 DEF Capture
<1>. HIDE DEF new, first
<1>5. next \in Sessions
  BY <1>1, <1>2, <1>3 DEF Sessions
<1>. HIDE DEF next
<1>. QED  BY <1>1, <1>4, <1>5

\* What a commit writes.
LEMMA CommitType ==
  ASSUME TypeOK, NEW r \in Runs, Commit(r)
  PROVE  TypeOK'
<1>. DEFINE s == session[r]
<1>1. s \in Sessions
  BY DEF TypeOK
<1>2. /\ s.rows \in [Endpoints -> Rows \cup {NoRow}]
      /\ s.old \in [Endpoints -> States \cup {NoState}]
      /\ s.new \in [Endpoints -> States \cup {NoState}]
  BY <1>1 DEF Sessions
<1>3. status' \in [Endpoints -> Rows \cup {NoRow}]
  BY <1>2 DEF Commit, TypeOK
<1>4. snapshot' \in [Endpoints -> States \cup {NoState}]
  BY <1>2 DEF Commit, TypeOK
<1>5. told' \in [Endpoints -> Says \cup {NoState}]
  <2>1. ASSUME NEW e \in Endpoints
        PROVE  Report(told[e], s.old[e], s.new[e]) \in Says \cup {NoState}
    <3>1. told[e] \in Says \cup {NoState}
      BY DEF TypeOK
    <3>2. s.old[e] \in States \cup {NoState} /\ s.new[e] \in States \cup {NoState}
      BY <1>2
    <3>. HIDE DEF s
    <3>. QED  BY <3>1, <3>2, ReportType
  <2>. QED  BY <2>1 DEF Commit, TypeOK
<1>6. session' \in [Runs -> Sessions]
  BY IdleType DEF Commit, Ends, TypeOK
<1>7. initialized' \in BOOLEAN
  BY DEF Commit
<1>8. UNCHANGED <<inventory, installed, required, excluded, changes, altered, overlapped>>
  BY DEF Commit
<1>. QED  BY <1>3, <1>4, <1>5, <1>6, <1>7, <1>8 DEF TypeOK

\* What an administrator's exclusion writes.
LEMMA ExcludeType ==
  ASSUME TypeOK, NEW e \in Endpoints, NEW products \in SUBSET Products, Exclude(e, products)
  PROVE  status' \in [Endpoints -> Rows \cup {NoRow}]
<1>. DEFINE present == installed[e] \cap required
            row     == [present |-> present, verdict |-> Verdict(present, required \ products)]
<1>1. present \in SUBSET Products
  BY DEF TypeOK
<1>2. row \in Rows
  BY <1>1, VerdictType DEF Rows
<1>3. status' = status \/ status' = [status EXCEPT ![e] = row]
  BY DEF Exclude
<1>. HIDE DEF row
<1>. QED  BY <1>2, <1>3 DEF TypeOK

\* The bound on the changes is kept.
LEMMA ChangeType ==
  ASSUME changes \in 0..MaxChanges, Change
  PROVE  changes' \in 0..MaxChanges
  BY DEF Change

\* Every state has the types of the tables' columns and of a run's session.
THEOREM TypeCorrect == Spec => []TypeOK
<1>1. Init => TypeOK
  <2>. SUFFICES ASSUME Init PROVE TypeOK
    OBVIOUS
  <2>1. session \in [Runs -> Sessions]
    BY IdleType DEF Init
  <2>2. status \in [Endpoints -> Rows \cup {NoRow}]
    BY DEF Init, NoRows
  <2>3. snapshot \in [Endpoints -> States \cup {NoState}] /\ told \in [Endpoints -> Says \cup {NoState}]
    BY DEF Init, NoStates
  <2>4. changes \in 0..MaxChanges
    BY DEF Init
  <2>5. initialized \in BOOLEAN /\ overlapped \in BOOLEAN
    BY DEF Init
  <2>6. /\ inventory \in [Endpoints -> {"absent", "active", "inactive", "gone"}]
        /\ installed \in [Endpoints -> SUBSET Products]
        /\ excluded \in [Endpoints -> SUBSET Products]
        /\ altered \in [Endpoints -> SUBSET Products]
        /\ required \subseteq Products
    BY DEF Init
  <2>. QED  BY <2>1, <2>2, <2>3, <2>4, <2>5, <2>6 DEF TypeOK
<1>2. TypeOK /\ [Next]_vars => TypeOK'
  <2>. SUFFICES ASSUME TypeOK, [Next]_vars PROVE TypeOK'
    OBVIOUS
  <2>. USE DEF database, tracking, historyVars
  <2>1. ASSUME NEW r \in Runs, NEW s \in Sessions, Starts(r, s) PROVE TypeOK'
    <3>1. session' \in [Runs -> Sessions]
      BY <2>1 DEF Starts, TypeOK
    <3>2. overlapped' \in BOOLEAN
      BY <2>1 DEF Starts, TypeOK
    <3>3. UNCHANGED <<database, tracking, changes, told, altered>>
      BY <2>1 DEF Starts
    <3>. QED  BY <3>1, <3>2, <3>3 DEF TypeOK
  <2>2. ASSUME NEW r \in Runs, Begin(r) PROVE TypeOK'
    <3>. DEFINE s == [Idle EXCEPT !.stage = "listing", !.required = required, !.deleted = Stale]
    <3>1. s \in Sessions
      BY IdleType DEF Sessions, TypeOK, Stale, HasRow
    <3>2. Starts(r, s)
      BY <2>2 DEF Begin
    <3>. HIDE DEF s
    <3>. QED  BY <2>1, <3>1, <3>2
  <2>3. ASSUME NEW r \in Runs, BeginCapture(r) PROVE TypeOK'
    <3>. DEFINE s == [Idle EXCEPT !.stage = "evaluating"]
    <3>1. s \in Sessions
      BY IdleType DEF Sessions
    <3>2. Starts(r, s)
      BY <2>3 DEF BeginCapture
    <3>. HIDE DEF s
    <3>. QED  BY <2>1, <3>1, <3>2
  <2>3l. ASSUME NEW r \in Runs, ListCurrent(r) PROVE TypeOK'
    <3>1. [session[r] EXCEPT !.stage = "evaluating", !.todo = Current] \in Sessions
      <4>1. session[r] \in Sessions /\ Current \in SUBSET Endpoints
        BY DEF TypeOK, Current
      <4>2. \A s \in Sessions, E \in SUBSET Endpoints :
              [s EXCEPT !.stage = "evaluating", !.todo = E] \in Sessions
        BY DEF Sessions
      <4>. QED  BY <4>1, <4>2
    <3>2. session' = [session EXCEPT ![r] = [session[r] EXCEPT !.stage = "evaluating",
                                                               !.todo = Current]]
      BY <2>3l DEF ListCurrent
    <3>3. session' \in [Runs -> Sessions]
      BY <3>1, <3>2 DEF TypeOK
    <3>4. UNCHANGED <<database, tracking, changes, historyVars>>
      BY <2>3l DEF ListCurrent
    <3>. QED  BY <3>3, <3>4 DEF TypeOK
  <2>4. ASSUME NEW r \in Runs, NEW e \in Endpoints, Evaluate(r, e) PROVE TypeOK'
    <3>1. UNCHANGED <<database, tracking, changes, historyVars>>
      BY <2>4 DEF Evaluate
    <3>. QED  BY <2>4, <3>1, EvaluateType DEF TypeOK
  <2>5. ASSUME NEW r \in Runs, Capture(r) PROVE TypeOK'
    <3>1. UNCHANGED <<database, tracking, changes, historyVars>>
      BY <2>5 DEF Capture
    <3>. QED  BY <2>5, <3>1, CaptureType DEF TypeOK
  <2>6. ASSUME NEW r \in Runs, Commit(r) PROVE TypeOK'
    BY <2>6, CommitType
  <2>7. ASSUME NEW r \in Runs, FlushFails(r) \/ Dies(r) PROVE TypeOK'
    <3>1. session' \in [Runs -> Sessions]
      BY <2>7, IdleType DEF FlushFails, Dies, Ends, TypeOK
    <3>2. changes' \in 0..MaxChanges
      BY <2>7, ChangeType DEF FlushFails, Dies, TypeOK
    <3>3. UNCHANGED <<database, tracking, historyVars>>
      BY <2>7 DEF FlushFails, Dies
    <3>. QED  BY <3>1, <3>2, <3>3 DEF TypeOK
  <2>8. ASSUME Environment PROVE TypeOK'
    <3>1. changes' \in 0..MaxChanges
      BY <2>8, ChangeType
         DEF Environment, Discover, Deactivate, Reactivate, MergeAway, Reinstall, Exclude, Require, TypeOK
    <3>2. UNCHANGED <<tracking, session, told, overlapped>>
      BY <2>8
         DEF Environment, Discover, Deactivate, Reactivate, MergeAway, Reinstall, Exclude, Require
    <3>3. status' \in [Endpoints -> Rows \cup {NoRow}]
      BY <2>8, ExcludeType
         DEF Environment, Discover, Deactivate, Reactivate, MergeAway, Reinstall, Require, TypeOK
    <3>4. ASSUME NEW e \in Endpoints, Discover(e)
          PROVE  /\ inventory' \in [Endpoints -> {"absent", "active", "inactive", "gone"}]
                 /\ installed' \in [Endpoints -> SUBSET Products]
                 /\ UNCHANGED <<excluded, required, altered>>
      BY <3>4 DEF Discover, TypeOK
    <3>5. ASSUME NEW e \in Endpoints, NEW products \in SUBSET Products, Reinstall(e, products)
          PROVE  /\ installed' \in [Endpoints -> SUBSET Products]
                 /\ altered' \in [Endpoints -> SUBSET Products]
                 /\ UNCHANGED <<inventory, excluded, required>>
      BY <3>5 DEF Reinstall, TypeOK
    <3>6. ASSUME NEW e \in Endpoints, Deactivate(e) \/ Reactivate(e)
          PROVE  /\ inventory' \in [Endpoints -> {"absent", "active", "inactive", "gone"}]
                 /\ altered' \in [Endpoints -> SUBSET Products]
                 /\ UNCHANGED <<installed, excluded, required>>
      BY <3>6 DEF Deactivate, Reactivate, TypeOK
    <3>7. ASSUME NEW e \in Endpoints, MergeAway(e)
          PROVE  /\ inventory' \in [Endpoints -> {"absent", "active", "inactive", "gone"}]
                 /\ installed' \in [Endpoints -> SUBSET Products]
                 /\ excluded' \in [Endpoints -> SUBSET Products]
                 /\ UNCHANGED <<required, altered>>
      BY <3>7 DEF MergeAway, TypeOK
    <3>8. ASSUME NEW products \in SUBSET Products, Require(products)
          PROVE  /\ required' \subseteq Products
                 /\ UNCHANGED <<inventory, installed, excluded, altered>>
      BY <3>8 DEF Require, TypeOK
    <3>9. ASSUME NEW e \in Endpoints, NEW products \in SUBSET Products, Exclude(e, products)
          PROVE  /\ excluded' \in [Endpoints -> SUBSET Products]
                 /\ UNCHANGED <<inventory, installed, required, altered>>
      BY <3>9 DEF Exclude, TypeOK
    <3>10. /\ inventory' \in [Endpoints -> {"absent", "active", "inactive", "gone"}]
           /\ installed' \in [Endpoints -> SUBSET Products]
           /\ excluded' \in [Endpoints -> SUBSET Products]
           /\ altered' \in [Endpoints -> SUBSET Products]
           /\ required' \subseteq Products
      BY <2>8, <3>4, <3>5, <3>6, <3>7, <3>8, <3>9 DEF Environment, TypeOK
    <3>. QED  BY <3>1, <3>2, <3>3, <3>10 DEF TypeOK
  <2>9. ASSUME UNCHANGED vars PROVE TypeOK'
    BY <2>9 DEF vars, TypeOK
  <2>. QED
    BY <2>2, <2>3, <2>3l, <2>4, <2>5, <2>6, <2>7, <2>8, <2>9 DEF Next, Continue
<1>. QED  BY <1>1, <1>2, PTL DEF Spec

--------------------------------------------------------------------------------
(* The log and the snapshot. *)

\* A state only knows the presence of products it tracks.
TrackedInv ==
  /\ \A e \in Endpoints :
       snapshot[e] # NoState => snapshot[e].present \subseteq snapshot[e].tracked
  /\ \A r \in Runs, e \in Endpoints :
       session[r].stage = "captured" /\ session[r].new[e] # NoState
         => session[r].new[e].present \subseteq session[r].new[e].tracked

\* A run that is alone compares with the snapshot that it will replace.
AloneInv ==
  ~ overlapped =>
    /\ \A q, r \in Runs :
         session[q].stage # "idle" /\ session[r].stage # "idle" => q = r
    /\ \A r \in Runs : session[r].stage = "captured" => session[r].old = snapshot

\* The events of one capture lead a reader of the log from the old state to the new
\* one (_emit_endpoint_changes leaves out no difference of a tracked product).
LEMMA ReportFollows ==
  ASSUME NEW said \in Says \cup {NoState},
         NEW old \in States \cup {NoState}, NEW new \in States \cup {NoState},
         Follows(said, old),
         old # NoState => old.present \subseteq old.tracked,
         new # NoState => new.present \subseteq new.tracked
  PROVE  Follows(Report(said, old, new), new)
<1>1. CASE new = NoState
  BY <1>1 DEF Report, Follows
<1>2. CASE new # NoState /\ old = NoState
  <2>1. Report(said, old, new) # NoState
    BY <1>2, ReportType
  <2>2. Report(said, old, new) =
          [active |-> new.active, verdict |-> new.verdict, added |-> {}, missing |-> {}]
    BY <1>2 DEF Report
  <2>. QED  BY <1>2, <2>1, <2>2 DEF Follows
<1>3. CASE new # NoState /\ old # NoState
  <2>1. said # NoState
    BY <1>3 DEF Follows
  <2>. DEFINE added   == ((said.added \cap new.tracked) \ Missing(old, new)) \cup Added(old, new)
              missing == ((said.missing \cap new.tracked) \ Added(old, new)) \cup Missing(old, new)
              report  == Report(said, old, new)
  <2>2. report # NoState
    BY <1>3, ReportType
  <2>3. report.active = new.active /\ report.verdict = new.verdict
    BY <1>3, <2>1 DEF Report, Follows
  <2>4. report.added = added /\ report.missing = missing
    BY <1>3, <2>1 DEF Report
  <2>5. said.added \subseteq old.present /\ said.missing \subseteq old.tracked \ old.present
    BY <1>3 DEF Follows
  <2>6. added \subseteq new.present
    BY <1>3, <2>5 DEF Added, Missing, Compared
  <2>7. missing \subseteq new.tracked \ new.present
    BY <1>3, <2>5 DEF Added, Missing, Compared
  <2>. QED  BY <1>3, <2>2, <2>3, <2>4, <2>6, <2>7 DEF Follows
<1>. QED  BY <1>1, <1>2, <1>3

\* A step of the inventory, of an evaluation or of a run that ends without a commit
\* leaves the log and the snapshot alone.
LEMMA TrackedStep ==
  ASSUME TypeOK, TrackedInv, [Next]_vars
  PROVE  TrackedInv'
<1>. USE DEF TrackedInv, database, tracking, historyVars
<1>0. session \in [Runs -> Sessions]
  BY DEF TypeOK
<1>1. ASSUME NEW r \in Runs, Begin(r) \/ BeginCapture(r) PROVE TrackedInv'
  <2>1. \A q \in Runs : session'[q].stage = "captured" => session'[q] = session[q]
    BY <1>0, <1>1 DEF Begin, BeginCapture, Starts, Idle
  <2>2. snapshot' = snapshot
    BY <1>1 DEF Begin, BeginCapture, Starts
  <2>. QED  BY <2>1, <2>2
<1>1l. ASSUME NEW r \in Runs, ListCurrent(r) PROVE TrackedInv'
  <2>1. \A q \in Runs : session'[q].stage = "captured" => session'[q] = session[q]
    BY <1>0, <1>1l DEF ListCurrent, Sessions
  <2>2. snapshot' = snapshot
    BY <1>1l DEF ListCurrent
  <2>. QED  BY <2>1, <2>2
<1>2. ASSUME NEW r \in Runs, NEW e \in Endpoints, Evaluate(r, e) PROVE TrackedInv'
  <2>1. \A q \in Runs : /\ session'[q].stage = session[q].stage
                        /\ session'[q].new = session[q].new
    BY <1>0, <1>2 DEF Evaluate, Sessions
  <2>2. snapshot' = snapshot
    BY <1>2 DEF Evaluate
  <2>. QED  BY <2>1, <2>2
<1>3. ASSUME NEW r \in Runs, Capture(r) PROVE TrackedInv'
  <2>1. \A e \in Endpoints : session'[r].new[e] # NoState =>
          session'[r].new[e] = EndpointState(r, e)
    BY <1>0, <1>3 DEF Capture, Sessions
  <2>2. \A q \in Runs \ {r} : session'[q] = session[q]
    BY <1>0, <1>3 DEF Capture
  <2>3. \A e \in Endpoints : EndpointState(r, e).present \subseteq EndpointState(r, e).tracked
    BY EndpointStateType
  <2>4. snapshot' = snapshot
    BY <1>3 DEF Capture
  <2>. QED  BY <2>1, <2>2, <2>3, <2>4
<1>4. ASSUME NEW r \in Runs, Commit(r) PROVE TrackedInv'
  <2>1. session[r].stage = "captured"
    BY <1>4 DEF Commit
  <2>2. \A e \in Endpoints : snapshot'[e] = snapshot[e] \/ snapshot'[e] = session[r].new[e]
    BY <1>4 DEF Commit
  <2>3. \A q \in Runs : session'[q].stage = "captured" => session'[q] = session[q]
    BY <1>0, <1>4 DEF Commit, Ends, Idle
  <2>. QED  BY <2>1, <2>2, <2>3
<1>5. ASSUME NEW r \in Runs, FlushFails(r) \/ Dies(r) PROVE TrackedInv'
  <2>1. \A q \in Runs : session'[q].stage = "captured" => session'[q] = session[q]
    BY <1>0, <1>5 DEF FlushFails, Dies, Ends, Idle
  <2>2. snapshot' = snapshot
    BY <1>5 DEF FlushFails, Dies
  <2>. QED  BY <2>1, <2>2
<1>6. ASSUME Environment \/ UNCHANGED vars PROVE TrackedInv'
  BY <1>6 DEF Environment, Discover, Deactivate, Reactivate, MergeAway, Reinstall, Exclude, Require, vars
<1>. QED
  BY <1>1, <1>1l, <1>2, <1>3, <1>4, <1>5, <1>6 DEF Next, Continue

\* Runs that do not overlap take turns, so nobody else changes the snapshot between
\* a capture's queries and its commit.
LEMMA AloneStep ==
  ASSUME TypeOK, AloneInv, [Next]_vars
  PROVE  AloneInv'
<1>. SUFFICES ASSUME ~ overlapped'
              PROVE  /\ \A q, r \in Runs :
                          session'[q].stage # "idle" /\ session'[r].stage # "idle" => q = r
                     /\ \A r \in Runs :
                          session'[r].stage = "captured" => session'[r].old = snapshot'
  BY DEF AloneInv
<1>. USE DEF database, tracking, historyVars
<1>0. session \in [Runs -> Sessions]
  BY DEF TypeOK
<1>1. CASE \E r \in Runs : Begin(r) \/ BeginCapture(r)
  <2>1. PICK r \in Runs : Begin(r) \/ BeginCapture(r)
    BY <1>1
  <2>2. /\ \A q \in Runs : session[q].stage = "idle"
        /\ \A q \in Runs \ {r} : session'[q] = session[q]
        /\ session'[r].stage # "captured"
    BY <1>0, <2>1 DEF Begin, BeginCapture, Starts, Idle
  <2>. QED  BY <2>2
<1>1l. CASE \E r \in Runs : ListCurrent(r)
  <2>1. PICK r \in Runs : ListCurrent(r)
    BY <1>1l
  <2>2. /\ session[r].stage = "listing" /\ session'[r].stage = "evaluating"
        /\ \A q \in Runs \ {r} : session'[q] = session[q]
    BY <1>0, <2>1 DEF ListCurrent, Sessions
  <2>3. snapshot' = snapshot /\ ~ overlapped
    BY <2>1 DEF ListCurrent
  <2>. QED  BY <2>2, <2>3 DEF AloneInv
<1>2. CASE \E r \in Runs : \E e \in Endpoints : Evaluate(r, e)
  <2>1. PICK r \in Runs, e \in Endpoints : Evaluate(r, e)
    BY <1>2
  <2>2. \A q \in Runs : /\ session'[q].stage = session[q].stage
                        /\ session'[q].old = session[q].old
    BY <1>0, <2>1 DEF Evaluate, Sessions
  <2>3. snapshot' = snapshot /\ ~ overlapped
    BY <2>1 DEF Evaluate
  <2>. QED  BY <2>2, <2>3 DEF AloneInv
<1>3. CASE \E r \in Runs : Capture(r)
  <2>1. PICK r \in Runs : Capture(r)
    BY <1>3
  <2>2. /\ session'[r].stage = "captured" /\ session'[r].old = snapshot
        /\ session[r].stage = "evaluating"
        /\ \A q \in Runs \ {r} : session'[q] = session[q]
    BY <1>0, <2>1 DEF Capture, Sessions
  <2>3. snapshot' = snapshot /\ ~ overlapped
    BY <2>1 DEF Capture
  <2>. QED  BY <2>2, <2>3 DEF AloneInv
<1>4. CASE \E r \in Runs : Commit(r) \/ FlushFails(r) \/ Dies(r)
  <2>1. PICK r \in Runs : Commit(r) \/ FlushFails(r) \/ Dies(r)
    BY <1>4
  <2>2. /\ session[r].stage # "idle"
        /\ session'[r].stage = "idle"
        /\ \A q \in Runs \ {r} : session'[q] = session[q]
        /\ ~ overlapped
    BY <1>0, <2>1 DEF Commit, FlushFails, Dies, Ends, Idle
  <2>. QED  BY <2>2 DEF AloneInv
<1>5. CASE Environment \/ UNCHANGED vars
  <2>1. UNCHANGED <<session, snapshot, overlapped>>
    BY <1>5
       DEF Environment, Discover, Deactivate, Reactivate, MergeAway, Reinstall, Exclude, Require, vars
  <2>. QED  BY <2>1 DEF AloneInv
<1>. QED
  BY <1>1, <1>1l, <1>2, <1>3, <1>4, <1>5 DEF Next, Continue

\* The log follows the snapshot through every step.
LEMMA FollowsStep ==
  ASSUME TypeOK, TrackedInv, AloneInv, LogFollowsSnapshot, [Next]_vars
  PROVE  LogFollowsSnapshot'
<1>. SUFFICES ASSUME ~ overlapped', NEW e \in Endpoints
              PROVE  Follows(told'[e], snapshot'[e])
  BY DEF LogFollowsSnapshot, Follows
<1>. USE DEF database, tracking, historyVars
<1>1. ASSUME NEW r \in Runs, Commit(r) PROVE Follows(told'[e], snapshot'[e])
  <2>. DEFINE old == session[r].old[e]
              new == session[r].new[e]
  <2>1. ~ overlapped /\ session[r].stage = "captured"
    BY <1>1 DEF Commit
  <2>2. session[r].old = snapshot
    BY <2>1 DEF AloneInv
  <2>3. Follows(told[e], old)
    BY <2>1, <2>2 DEF LogFollowsSnapshot
  <2>4. /\ told[e] \in Says \cup {NoState}
        /\ old \in States \cup {NoState}
        /\ new \in States \cup {NoState}
    BY DEF TypeOK, Sessions
  <2>5. /\ old # NoState => old.present \subseteq old.tracked
        /\ new # NoState => new.present \subseteq new.tracked
    BY <2>1, <2>2 DEF TrackedInv
  <2>6. /\ snapshot'[e] = IF old = NoState /\ new = NoState THEN snapshot[e] ELSE new
        /\ told'[e] = IF old = NoState /\ new = NoState
                      THEN told[e] ELSE Report(told[e], old, new)
    BY <1>1 DEF Commit
  <2>7. snapshot[e] = old
    BY <2>2
  <2>. HIDE DEF old, new
  <2>8. Follows(Report(told[e], old, new), new)
    BY <2>3, <2>4, <2>5, ReportFollows
  <2>. QED  BY <2>3, <2>6, <2>7, <2>8
<1>2. ASSUME NEW r \in Runs, Begin(r) \/ BeginCapture(r) PROVE Follows(told'[e], snapshot'[e])
  BY <1>2 DEF Begin, BeginCapture, Starts, LogFollowsSnapshot
<1>3. ASSUME NEW r \in Runs, \/ ListCurrent(r) \/ Capture(r) \/ FlushFails(r) \/ Dies(r)
                               \/ \E f \in Endpoints : Evaluate(r, f)
      PROVE  Follows(told'[e], snapshot'[e])
  BY <1>3 DEF ListCurrent, Capture, FlushFails, Dies, Evaluate, LogFollowsSnapshot
<1>4. ASSUME Environment \/ UNCHANGED vars PROVE Follows(told'[e], snapshot'[e])
  <2>1. UNCHANGED <<told, snapshot, overlapped>>
    BY <1>4
       DEF Environment, Discover, Deactivate, Reactivate, MergeAway, Reinstall, Exclude, Require, vars
  <2>. QED  BY <2>1 DEF LogFollowsSnapshot
<1>. QED
  BY <1>1, <1>2, <1>3, <1>4 DEF Next, Continue

\* Runs that do not overlap leave nothing out of the change log, whatever collectors,
\* administrators and failures do while they run (run_full_compliance).
THEOREM LogComplete == Spec => []LogFollowsSnapshot
<1>1. Init => TrackedInv /\ AloneInv /\ LogFollowsSnapshot
  BY DEF Init, TrackedInv, AloneInv, LogFollowsSnapshot, Follows, NoStates, Idle
<1>. QED
  BY <1>1, TypeCorrect, TrackedStep, AloneStep, FollowsStep, PTL DEF Spec
================================================================================
