------------------------------- MODULE ProxySync -------------------------------
(***************************************************************************)
(* Proxy Audit: the sync runs of the backend, the flag sync_in_progress in *)
(* the connection's row, and the page that polls the flag and fetches the  *)
(* events again when it sees a sync end.                                   *)
(*                                                                         *)
(* A sync imports revisions and clears the flag in one commit.  A crash    *)
(* ends every run and leaves the flag as it is; the start-up statement     *)
(* resets it.  The events are abstracted to the number of commits that     *)
(* imported any, the events query to the one of the page's present search  *)
(* and filters.                                                            *)
(***************************************************************************)
EXTENDS Naturals

CONSTANTS MaxSyncs,   \* bound: sync runs asked for
          MaxFaults   \* bound: crashes, database errors and failed fetches

VARIABLES up,         \* backend: the process is alive
          flag,       \* backend: sync_in_progress
          run,        \* backend: the manual and the scheduled run
          revision,   \* backend: commits that imported events
          overlapped, \* whether both runs were ever in progress together
          broken,     \* whether a run of this process died without its last commit
          started,    \* how many runs were asked for
          faults,     \* how many faults have happened
          viewing,    \* the page is open
          request,    \* the page's POST /sync: "none", "sent" or "answered"
          conn,       \* the page's connection query: the flag it shows, its fetch
          was,        \* wasSyncing.current
          shown       \* the events query: the revision it shows, its fetch

backendVars == <<up, flag, run, revision, overlapped, broken, started, faults>>
pageVars == <<viewing, request, conn, was, shown>>
proxyVars == <<backendVars, pageVars>>

Runs == {"manual", "scheduled"}
Stages == {"none", "sent", "served"}

NoConnection ==
  [loaded |-> FALSE, failed |-> FALSE, flag |-> FALSE, st |-> "none", got |-> FALSE]
NoEvents ==
  [loaded |-> FALSE, failed |-> FALSE, revision |-> 0, st |-> "none", got |-> 0]

ProxyTypeOK ==
  /\ up \in BOOLEAN /\ flag \in BOOLEAN /\ overlapped \in BOOLEAN /\ broken \in BOOLEAN
  /\ run \in [Runs -> {"idle", "checked", "running"}]
  /\ revision \in 0..MaxSyncs /\ started \in 0..MaxSyncs /\ faults \in 0..MaxFaults
  /\ viewing \in BOOLEAN /\ was \in BOOLEAN
  /\ request \in {"none", "sent", "answered"}
  /\ conn \in [loaded: BOOLEAN, failed: BOOLEAN, flag: BOOLEAN, st: Stages, got: BOOLEAN]
  /\ shown \in [loaded: BOOLEAN, failed: BOOLEAN, revision: 0..MaxSyncs,
                st: Stages, got: 0..MaxSyncs]

ProxyInit ==
  /\ up = TRUE /\ flag = FALSE /\ run = [r \in Runs |-> "idle"]
  /\ revision = 0 /\ overlapped = FALSE /\ broken = FALSE /\ started = 0 /\ faults = 0
  /\ viewing = FALSE /\ request = "none" /\ was = FALSE
  /\ conn = NoConnection /\ shown = NoEvents

Fault == faults < MaxFaults /\ faults' = faults + 1

-----------------------------------------------------------------------------
(* The backend.                                                             *)

Begin(r) ==
  /\ run' = [run EXCEPT ![r] = "running"]
  /\ overlapped' = (overlapped \/ \E q \in Runs \ {r} : run[q] = "running")
  /\ flag' = TRUE

(* POST /sync: refused while the flag is set; else set, and committed       *)
(* before the background run.                                               *)
SyncNow ==
  /\ up /\ request = "sent" /\ request' = "answered"
  /\ IF flag THEN UNCHANGED <<flag, run, overlapped>> ELSE Begin("manual")
  /\ UNCHANGED <<up, revision, broken, started, faults, viewing, conn, was, shown>>

(* scheduled_proxy_audit_sync reads the flag in a session of its own ...    *)
ScheduledCheck ==
  /\ up /\ run["scheduled"] = "idle" /\ ~flag /\ started < MaxSyncs
  /\ run' = [run EXCEPT !["scheduled"] = "checked"] /\ started' = started + 1
  /\ UNCHANGED <<up, flag, revision, overlapped, broken, faults, pageVars>>

(* ... and run_proxy_audit_sync sets it in another one.                     *)
ScheduledStart ==
  /\ up /\ run["scheduled"] = "checked" /\ Begin("scheduled")
  /\ UNCHANGED <<up, revision, broken, started, faults, pageVars>>

(* The run's last commit: imported events, if there were any and it did not *)
(* fail, together with the flag.                                            *)
SyncEnds(r) ==
  /\ up /\ run[r] = "running"
  /\ run' = [run EXCEPT ![r] = "idle"]
  /\ flag' = FALSE
  /\ revision' \in {revision, revision + 1}
  /\ UNCHANGED <<up, overlapped, broken, started, faults, pageVars>>

(* A database error before the run's try, or in its handler: nothing is     *)
(* committed, and nobody takes the flag down.                               *)
SyncBreaks(r) ==
  /\ up /\ run[r] # "idle" /\ Fault
  /\ run' = [run EXCEPT ![r] = "idle"]
  /\ broken' = TRUE
  /\ UNCHANGED <<up, flag, revision, overlapped, started, pageVars>>

Crash ==
  /\ up /\ Fault
  /\ up' = FALSE /\ run' = [r \in Runs |-> "idle"]
  /\ request' = IF request = "sent" THEN "none" ELSE request
  /\ UNCHANGED <<flag, revision, overlapped, broken, started, viewing, conn, was, shown>>

\* Mutant: start-up leaves the flag as it finds it.
StartUpKeepsFlag ==
  /\ ~up /\ up' = TRUE /\ broken' = FALSE
  /\ UNCHANGED <<flag, run, revision, overlapped, started, faults, pageVars>>

StartUp ==
  /\ ~up /\ up' = TRUE /\ flag' = FALSE /\ broken' = FALSE
  /\ UNCHANGED <<run, revision, overlapped, started, faults, pageVars>>

-----------------------------------------------------------------------------
(* The page.  Its queries stay in the cache while it is closed, for a time; *)
(* the ref wasSyncing does not, and the effect runs on mount.               *)

(* A fetch that is asked for: one in flight is joined.  An error is shown   *)
(* until there is an answer, or while there never was one.                  *)
Ask(q) ==
  IF q.st = "none" THEN [q EXCEPT !.st = "sent", !.failed = @ /\ q.loaded] ELSE q

\* Mutant: an invalidation joins the fetch in flight, too.
InsistJoins(q) == Ask(q)

(* The caller insists (an invalidation): the fetch in flight is replaced if *)
(* there is something to show meanwhile, and else joined.                   *)
Insist(q) == IF q.loaded THEN [q EXCEPT !.st = "sent"] ELSE Ask(q)

(* A fetch and its two retries fail, before it was served or after: what is *)
(* shown stays, under an error.                                             *)
Fail(q) == [q EXCEPT !.st = "none", !.failed = TRUE]

(* What a mount finds: an answer no component shows may have been dropped   *)
(* (gcTime), and one that is left is fetched again if its age asks for it.  *)
Mounted(q, empty) ==
  LET found == {q} \cup (IF q.st = "none" THEN {empty} ELSE {})
  IN {Ask(f) : f \in found} \cup {f \in found : f.loaded}

(* The effect on the flag the page shows.                                   *)
Notice(syncing) ==
  /\ was' = syncing
  /\ shown' = IF was /\ ~syncing THEN Insist(shown) ELSE shown

OpenPage ==
  /\ ~viewing /\ viewing' = TRUE
  /\ conn' \in Mounted(conn, NoConnection)
  /\ shown' \in Mounted(shown, NoEvents)
  /\ was' = conn'.flag
  /\ UNCHANGED <<backendVars, request>>

ClosePage ==
  /\ viewing /\ viewing' = FALSE /\ was' = FALSE
  /\ UNCHANGED <<backendVars, request, conn, shown>>

(* The button, disabled while a sync is shown or being started, and until   *)
(* the connection is known.                                                 *)
PressSync ==
  /\ viewing /\ request = "none" /\ conn.loaded /\ ~conn.flag
  /\ started < MaxSyncs /\ started' = started + 1
  /\ request' = "sent"
  /\ UNCHANGED <<up, flag, run, revision, overlapped, broken, faults, viewing, conn, was, shown>>

(* The answer of POST /sync invalidates the connection query.               *)
SyncAnswered ==
  /\ request = "answered" /\ request' = "none"
  /\ conn' = IF viewing THEN Insist(conn) ELSE conn
  /\ UNCHANGED <<backendVars, viewing, was, shown>>

PollConnection ==
  /\ viewing /\ conn' = Ask(conn)
  /\ UNCHANGED <<backendVars, viewing, request, was, shown>>

ServeConnection ==
  /\ up /\ conn.st = "sent" /\ conn' = [conn EXCEPT !.st = "served", !.got = flag]
  /\ UNCHANGED <<backendVars, viewing, request, was, shown>>

ConnectionArrives ==
  /\ conn.st = "served"
  /\ conn' = [loaded |-> TRUE, failed |-> FALSE, flag |-> conn.got,
              st |-> "none", got |-> FALSE]
  /\ IF viewing THEN Notice(conn.got) ELSE UNCHANGED <<was, shown>>
  /\ UNCHANGED <<backendVars, viewing, request>>

ConnectionFails ==
  /\ conn.st # "none" /\ Fault /\ conn' = Fail(conn)
  /\ UNCHANGED <<up, flag, run, revision, overlapped, broken, started, viewing, request,
                 was, shown>>

ServeEvents ==
  /\ up /\ shown.st = "sent"
  /\ shown' = [shown EXCEPT !.st = "served", !.got = revision]
  /\ UNCHANGED <<backendVars, viewing, request, conn, was>>

EventsArrive ==
  /\ shown.st = "served"
  /\ shown' = [loaded |-> TRUE, failed |-> FALSE, revision |-> shown.got,
               st |-> "none", got |-> 0]
  /\ UNCHANGED <<backendVars, viewing, request, conn, was>>

EventsFail ==
  /\ shown.st # "none" /\ Fault /\ shown' = Fail(shown)
  /\ UNCHANGED <<up, flag, run, revision, overlapped, broken, started, viewing, request,
                 conn, was>>

ProxyNext ==
  \/ SyncNow \/ ScheduledCheck \/ ScheduledStart \/ Crash \/ StartUp
  \/ \E r \in Runs : SyncEnds(r) \/ SyncBreaks(r)
  \/ OpenPage \/ ClosePage \/ PressSync \/ SyncAnswered
  \/ PollConnection \/ ServeConnection \/ ConnectionArrives \/ ConnectionFails
  \/ ServeEvents \/ EventsArrive \/ EventsFail

(* A sync ends (every call to Management Center has a timeout), a crashed   *)
(* container is restarted, the page polls, requests are served or fail.     *)
ProxyFairness ==
  /\ \A r \in Runs : WF_proxyVars(SyncEnds(r))
  /\ WF_proxyVars(ScheduledStart) /\ WF_proxyVars(StartUp)
  /\ WF_proxyVars(PollConnection)
  /\ WF_proxyVars(ServeConnection) /\ WF_proxyVars(ConnectionArrives)
  /\ WF_proxyVars(ServeEvents) /\ WF_proxyVars(EventsArrive)

ProxySpec == ProxyInit /\ [][ProxyNext]_proxyVars /\ ProxyFairness

-----------------------------------------------------------------------------
(* Liveness: a page that has seen a sync in progress, and has a list, comes *)
(* to show what the sync imported by its end, however the polls, the        *)
(* fetches and further syncs fall; or it says that its data is unavailable. *)
(* Exceptions: the page is closed, two syncs overlapped and the flag fell   *)
(* with the first of them, or one broke and left the flag to the page.  A   *)
(* page whose list has not come yet owes nothing: the library joins the     *)
(* first fetch, which may have been served before the sync's commit, and    *)
(* nothing fetches it again.                                                *)
SeenSyncIsShown ==
  \A v \in 1..MaxSyncs :
    was /\ shown.loaded /\ ~flag /\ revision = v
      ~> shown.revision >= v \/ shown.failed \/ ~viewing \/ overlapped \/ broken

(* Liveness: the flag never blocks the sync for good: it falls with the end *)
(* of the run that set it, or with the restart after a crash; unless a run  *)
(* broke on the database where nothing catches it.                          *)
SyncNeverStuck == flag ~> ~flag \/ broken

=============================================================================
