------------------------------ MODULE ConsoleData ------------------------------
(***************************************************************************)
(* The two ways in which the console keeps its pages up to date: the query *)
(* cache, with its mutations and polls, and the proxy page, which follows  *)
(* a flag of the backend.  They share nothing (the proxy page's queries    *)
(* have no other readers and no other writers), so a behaviour is one of   *)
(* either, chosen in its initial state.                                    *)
(***************************************************************************)
EXTENDS QueryCache, ProxySync

VARIABLE part     \* "cache" or "proxy"

dataVars == <<part, cacheVars, proxyVars>>

InCache(A) == part = "cache" /\ A /\ UNCHANGED <<part, proxyVars>>
InProxy(A) == part = "proxy" /\ A /\ UNCHANGED <<part, cacheVars>>

DataTypeOK == part \in {"cache", "proxy"} /\ CacheTypeOK /\ ProxyTypeOK

DataInit ==
  /\ part \in {"cache", "proxy"} /\ ProxyInit
  /\ CacheInit /\ (part = "proxy" => key = "integrations")

DataNext == InCache(CacheNext) \/ InProxy(ProxyNext)

(* The fairness of each part: see CacheFairness and ProxyFairness.          *)
DataFairness ==
  /\ WF_dataVars(InCache(Poll)) /\ WF_dataVars(InCache(Serve)) /\ WF_dataVars(InCache(Arrive))
  /\ \A r \in Runs : WF_dataVars(InProxy(SyncEnds(r)))
  /\ WF_dataVars(InProxy(ScheduledStart)) /\ WF_dataVars(InProxy(StartUp))
  /\ WF_dataVars(InProxy(PollConnection))
  /\ WF_dataVars(InProxy(ServeConnection)) /\ WF_dataVars(InProxy(ConnectionArrives))
  /\ WF_dataVars(InProxy(ServeEvents)) /\ WF_dataVars(InProxy(EventsArrive))

DataSpec == DataInit /\ [][DataNext]_dataVars /\ DataFairness

=============================================================================
