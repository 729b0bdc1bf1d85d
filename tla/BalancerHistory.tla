--------------------------- MODULE BalancerHistory ---------------------------
(***************************************************************************)
(* Balancer observed by history variables.  They remember what a scan has  *)
(* overlapped with and which object a reload started from, so that what    *)
(* select_backend and apply_backends promise can be stated for scans and   *)
(* reloads that run while everything else moves.  No step of Balancer      *)
(* depends on them.                                                        *)
(***************************************************************************)
EXTENDS Balancer

VARIABLES
    shunned,    \* per request: the backends drained or unhealthy ever since its scan began
    peak,       \* per request: for each backend eligible ever since, the most connections it had
    raced,      \* per request: since its choice was counted, the choice gained a
                \* connection or lost capacity
    home        \* the backend each <<host, url>> named when the last reload began

historyVars == <<shunned, peak, raced, home>>
allVars == <<vars, historyVars>>

Larger(m, n) == IF m > n THEN m ELSE n

\* <<host, url>> -> the first backend the table lists for it
Positions == UNION {{k} \X DOMAIN members[groups[k]] : k \in DOMAIN groups}
Named(p, u) == {x \in Positions : host[groups[x[1]]] = p
                                  /\ url[members[groups[x[1]]][x[2]]] = u}
First(S) == CHOOSE x \in S : \A y \in S : x[1] < y[1] \/ (x[1] = y[1] /\ x[2] <= y[2])
Table == [n \in {m \in Pattern \X Url : Named(m[1], m[2]) # {}} |->
            LET x == First(Named(n[1], n[2])) IN members[groups[x[1]]][x[2]]]

HistoryInit ==
    /\ Init
    /\ shunned = [r \in Request |-> {}]
    /\ peak = [r \in Request |-> [b \in {} |-> 0]]
    /\ raced = [r \in Request |-> FALSE]
    /\ home = [n \in {} |-> NoBackend]

Observe ==
    /\ shunned' = [r \in Request |->
         IF pc'[r] \notin Scanning THEN {}
         ELSE {b \in IF pc[r] \in Scanning THEN shunned[r] ELSE Range(members[grp[r]]) :
                 drain'[b] \/ ~healthy'[b]}]
    /\ peak' = [r \in Request |->
         LET before == IF pc[r] \in Scanning THEN DOMAIN peak[r] ELSE Range(members[grp[r]])
             eligible == IF pc'[r] \notin Scanning THEN {}
                         ELSE {b \in before : /\ ~drain'[b] /\ healthy'[b]
                                              /\ active_connections'[b] < max_connections'[b]}
         IN [b \in eligible |-> IF pc[r] \in Scanning
                                THEN Larger(active_connections'[b], peak[r][b])
                                ELSE active_connections'[b]]]
    /\ raced' = [r \in Request |->
         /\ best[r] # NoBackend /\ best'[r] = best[r]
         /\ pc'[r] \in Scanning \cup Chosen
         /\ \/ raced[r]
            \/ active_connections'[best[r]] > active_connections[best[r]]
            \/ max_connections'[best[r]] < max_connections[best[r]]]
    /\ home' = IF route = 0 /\ route' # 0 THEN Table ELSE home

HistorySpec == HistoryInit /\ [][Next /\ Observe]_allVars
FairHistorySpec == HistorySpec /\ SchedulerFairness

-----------------------------------------------------------------------------
Decided(r) == pc[r] = "scan" /\ ~More(r)

(* A backend that was drained or unhealthy during the whole of a scan is   *)
(* not its result, however the flags of others and the counters change     *)
(* while it runs (select_backend).                                         *)
ScanSkipsShunned == \A r \in Request : Decided(r) => best[r] \notin shunned[r]

(* A backend that could have taken the connection during the whole of a    *)
(* scan is not passed over: the scan does not answer 503, and the count    *)
(* its choice won with is at most the most that backend ever had meanwhile *)
(* (select_backend: the fewest active connections).                        *)
ScanIsLeastLoaded ==
    \A r \in Request : Decided(r) =>
        \A b \in DOMAIN peak[r] : best[r] # NoBackend /\ best_count[r] <= peak[r][b]

(* The cap is exceeded by races only: if, from the load of the chosen      *)
(* backend's counter to the guard, no other guard was created on it and no *)
(* reload lowered its limit, then the new guard respects the limit.        *)
CapHoldsUnlessRaced ==
    [][\A r \in Request :
         pc[r] \in Chosen /\ pc'[r] \in Counted /\ ~raced[r]
           => active_connections'[best[r]] <= max_connections'[best[r]]]_allVars

(* A reload keeps every backend that both configurations list under the    *)
(* same host: after it the table names the same object, with its counter   *)
(* and its health, wherever the list has moved it (apply_backends:         *)
(* preserving connection counts for existing backends).                    *)
ReloadKeepsBackends ==
    route = 0 => \A n \in DOMAIN home \cap DOMAIN Table : home[n] = Table[n]
=============================================================================
