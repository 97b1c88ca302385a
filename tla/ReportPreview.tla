----------------------------- MODULE ReportPreview -----------------------------
(***************************************************************************)
(* The ad-hoc report of the reports page: a type, the filters of that type *)
(* and the preview that was generated for them, which can be printed under *)
(* the title of the type.  The type and the filters can be changed while a *)
(* report is being generated; the button cannot be pressed again.          *)
(***************************************************************************)
CONSTANT NoReport

(* The filter fields of each type; one that is set is kept, whatever value. *)
FilterFields == [
  compliance |-> {"status"}, risk |-> {"min_score", "entity"},
  users |-> {"department", "risk_min"}, endpoints |-> {"compliance_status"},
  activity |-> {"days", "event_type", "suspicious_only"}]

ReportTypes == DOMAIN FilterFields
AllFields == UNION {FilterFields[t] : t \in ReportTypes}

(* A report asked for: whether the type was changed before it came.         *)
Report == [type: ReportTypes, filters: SUBSET AllFields, overtaken: BOOLEAN]

ASSUME NoReportIsNone == NoReport \notin Report

VARIABLES reportType,
          filterState,  \* the fields with a value
          generating,   \* the request in flight, or NoReport
          preview,      \* the report shown, or NoReport
          printed       \* what was printed last: the type in its title, that of its
                        \* rows and whether they were overtaken; or NoReport

reportVars == <<reportType, filterState, generating, preview, printed>>

ReportsTypeOK ==
  /\ reportType \in ReportTypes /\ filterState \in SUBSET AllFields
  /\ generating \in Report \cup {NoReport} /\ preview \in Report \cup {NoReport}
  /\ printed \in {NoReport} \cup (ReportTypes \X ReportTypes \X BOOLEAN)

ReportsInit ==
  /\ reportType = "compliance" /\ filterState = {}
  /\ generating = NoReport /\ preview = NoReport /\ printed = NoReport

(* buildFilters: of the fields that are set, those of the type.             *)
BuildFilters == filterState \cap FilterFields[reportType]

(* handleGenerate, up to the await.                                         *)
Generate ==
  /\ generating = NoReport
  /\ generating' = [type |-> reportType, filters |-> BuildFilters, overtaken |-> FALSE]
  /\ preview' = NoReport
  /\ UNCHANGED <<reportType, filterState, printed>>

(* ... and after it, with the report or with an error.                      *)
Generated ==
  /\ generating # NoReport /\ generating' = NoReport
  /\ preview' \in {generating, preview}
  /\ UNCHANGED <<reportType, filterState, printed>>

Overtaken == IF generating = NoReport THEN NoReport ELSE [generating EXCEPT !.overtaken = TRUE]

\* Mutant: the preview stays.
ChangeTypeKeepsPreview(t) ==
  /\ t # reportType /\ reportType' = t
  /\ filterState' = {} /\ generating' = Overtaken
  /\ UNCHANGED <<preview, printed>>

(* handleTypeChange: what is generated goes on being generated.             *)
ChangeType(t) ==
  /\ t # reportType /\ reportType' = t
  /\ filterState' = {} /\ preview' = NoReport /\ generating' = Overtaken
  /\ UNCHANGED printed

(* FilterPanel: a field of the type gets a value or is emptied.             *)
SetFilter(field) ==
  /\ field \in FilterFields[reportType]
  /\ filterState' \in {filterState \cup {field}, filterState \ {field}}
  /\ UNCHANGED <<reportType, generating, preview, printed>>

(* handlePrint: the rows of the preview, the title of the selected type.    *)
PrintReport ==
  /\ preview # NoReport
  /\ printed' = <<reportType, preview.type, preview.overtaken>>
  /\ UNCHANGED <<reportType, filterState, generating, preview>>

ReportsNext ==
  \/ Generate \/ Generated \/ PrintReport
  \/ \E t \in ReportTypes : ChangeType(t)
  \/ \E field \in AllFields : SetFilter(field)

ReportsSpec == ReportsInit /\ [][ReportsNext]_reportVars

-----------------------------------------------------------------------------
(* Safety: what is printed is a report of the type in its title, unless the *)
(* type was changed while it was generated: then the rows of the old type   *)
(* appear, and are printed, under the new one.                              *)
PrintedUnderItsType ==
  printed # NoReport => printed[2] = printed[1] \/ printed[3]

=============================================================================
