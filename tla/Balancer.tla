------------------------------ MODULE Balancer ------------------------------
(***************************************************************************)
(* The registry of routes and backends, the requests that run through it   *)
(* and the reload that changes it under them (src/src/backends.rs,         *)
(* handle_request in src/src/main.rs, src/src/http_proxy.rs and            *)
(* src/src/proxy.rs).                                                      *)
(*                                                                         *)
(* Every request is a process: it looks its route up, scans the backends   *)
(* of the route one atomic load at a time, and only then - after an await, *)
(* for a WebSocket - creates the ConnectionGuard that counts it.  The      *)
(* health checker and the reload loop run beside it.                       *)
(*                                                                         *)
(* Arc<BackendGroup> and Arc<Backend> are identities drawn from the pools  *)
(* Gid and Bid.  An identity nothing refers to any more is free, and a     *)
(* later allocation may take it.                                           *)
(***************************************************************************)
EXTENDS HostMatch, Integers, FiniteSets, Functions

CONSTANTS
    Host,           \* values of the Host header
    Pattern,        \* values of `host` in [[routes]]
    Url,            \* backend URLs
    Request,        \* concurrent requests
    Gid, Bid,       \* the pools of Arc<BackendGroup> and Arc<Backend>
    NoGroup, NoBackend,
    Config,         \* the route lists the configuration file may hold
    Boot            \* the one the program starts with

BackendConfig == [url : Url, max_connections : Nat, drain : BOOLEAN]
RouteConfig == [host : Pattern, backends : Seq(BackendConfig)]

\* Validation of all routes up-front, before the registry is touched.
Valid(c) == \A k \in DOMAIN c : ~Rejected(c[k].host)

ASSUME RequestAssumption == IsFiniteSet(Request)
ASSUME IdentityAssumption == NoGroup \notin Gid /\ NoBackend \notin Bid
ASSUME HostAssumption == /\ Host \subseteq [name : Seq(Label) \ {<<>>}, port : Seq(Label)]
                         /\ Pattern \subseteq Seq(Label) \ {<<>>}
ASSUME NonEmptyAssumption == Pattern # {} /\ Url # {}
ASSUME ConfigAssumption == Config \subseteq Seq(RouteConfig)
ASSUME BootAssumption == Boot \in Config /\ Valid(Boot)

VARIABLES
    \* BackendRegistry.groups, and the fields of each BackendGroup
    groups, host, members,
    \* the fields of each Backend
    url, max_connections, drain, healthy, active_connections,
    \* apply_config: the route list, the next route to apply (0: the write
    \* lock on `groups` is free), and new_groups so far
    cfg, route, built,
    \* per request: the program counter, the Arc<BackendGroup> it holds, and
    \* the locals of select_backend; best stays the Arc<Backend> in use
    pc, grp, i, best, best_count

groupVars == <<groups, host, members>>
configVars == <<url, max_connections, drain>>
applyVars == <<cfg, route, built>>
scanVars == <<grp, i, best_count>>
requestVars == <<pc, best, scanVars>>
vars == <<groupVars, configVars, healthy, active_connections, applyVars, requestVars>>

-----------------------------------------------------------------------------
(* Who refers to what.                                                     *)

\* select_backend holds the read lock of group.backends
Scanning == {"scan", "count"}
\* a ConnectionGuard is alive
Counted == {"http_dial", "ws_dial", "streaming", "session"}
\* an Arc<Backend> is held, and not yet counted
Chosen == {"picked", "upgrade"}

Users(b) == {r \in Request : best[r] = b}
Holders(b) == {r \in Request : pc[r] \in Counted /\ best[r] = b}

LiveGroups == Range(groups) \cup Range(built) \cup {grp[r] : r \in Request}
Routable == UNION {Range(members[g]) : g \in LiveGroups \ {NoGroup}}
LiveBackends == Routable \cup {best[r] : r \in Request}

FirstIndex(S) == CHOOSE k \in S : \A j \in S : k <= j
LastIndex(S) == CHOOSE k \in S : \A j \in S : j <= k

-----------------------------------------------------------------------------
(* A request: route lookup and backend selection.                          *)

\* find_group: the first exact match, else the longest suffix (max_by_key
\* keeps the last of equals); no index at all is a 404.
ExactAt(h) == {k \in DOMAIN groups : MatchesExact(h, host[groups[k]])}
WildcardAt(h) == {k \in DOMAIN groups : MatchesWildcard(h, host[groups[k]])}
AllWildcards(h) == WildcardAt(h)        \* mutant of Longest
Longest(h) == {k \in WildcardAt(h) : \A j \in WildcardAt(h) :
                  Len(Suffix(host[groups[j]])) <= Len(Suffix(host[groups[k]]))}
Lookup(h) ==
    LET exact == ExactAt(h)
        longest == Longest(h)
    IN {k \in DOMAIN groups : IF exact # {} THEN k = FirstIndex(exact)
                                            ELSE longest # {} /\ k = LastIndex(longest)}

FindGroup(r, h) ==
    /\ pc[r] = "idle"
    /\ route = 0
    /\ \E k \in Lookup(h) : grp' = [grp EXCEPT ![r] = groups[k]]
    /\ pc' = [pc EXCEPT ![r] = "found"]
    /\ UNCHANGED <<groupVars, configVars, healthy, active_connections, applyVars,
                   i, best, best_count>>

\* select_backend takes the read lock of the group's backends.
SelectBegin(r) ==
    /\ pc[r] = "found"
    /\ pc' = [pc EXCEPT ![r] = "scan"]
    /\ i' = [i EXCEPT ![r] = 1]
    /\ UNCHANGED <<groupVars, configVars, healthy, active_connections, applyVars,
                   grp, best, best_count>>

More(r) == i[r] \in DOMAIN members[grp[r]]
Current(r) == members[grp[r]][i[r]]

\* The two `continue`s on the flags, or on to the counter.
HealthOnly(b) == ~healthy[b]    \* mutant of Shunned
DrainOnly(b) == drain[b]        \* mutant of Shunned
Shunned(b) == drain[b] \/ ~healthy[b]
SelectFlags(r) ==
    /\ pc[r] = "scan"
    /\ More(r)
    /\ \/ /\ Shunned(Current(r))
          /\ i' = [i EXCEPT ![r] = i[r] + 1]
          /\ UNCHANGED pc
       \/ /\ ~Shunned(Current(r))
          /\ pc' = [pc EXCEPT ![r] = "count"]
          /\ UNCHANGED i
    /\ UNCHANGED <<groupVars, configVars, healthy, active_connections, applyVars,
                   grp, best, best_count>>

\* active_connections is loaded after the flags: a health check may have come
\* between.  best = NoBackend is best_count = usize::MAX.
FullAbove(b) == active_connections[b] > max_connections[b]   \* mutant of Full
FirstFit(r, b) == best[r] = NoBackend                        \* mutant of Better
Full(b) == active_connections[b] >= max_connections[b]
Better(r, b) == best[r] = NoBackend \/ active_connections[b] < best_count[r]
SelectCount(r) ==
    /\ pc[r] = "count"
    /\ pc' = [pc EXCEPT ![r] = "scan"]
    /\ i' = [i EXCEPT ![r] = i[r] + 1]
    /\ \/ /\ ~Full(Current(r)) /\ Better(r, Current(r))
          /\ best' = [best EXCEPT ![r] = Current(r)]
          /\ best_count' = [best_count EXCEPT ![r] = active_connections[Current(r)]]
       \/ /\ Full(Current(r)) \/ ~Better(r, Current(r))
          /\ UNCHANGED <<best, best_count>>
    /\ UNCHANGED <<groupVars, configVars, healthy, active_connections, applyVars, grp>>

\* The scan is over and the lock released: 503, or forward to the backend,
\* by HTTP at once or after the 101 response and the await of the upgrade.
SelectEnd(r) ==
    /\ pc[r] = "scan"
    /\ ~More(r)
    /\ \/ best[r] = NoBackend /\ pc' = [pc EXCEPT ![r] = "idle"]
       \/ best[r] # NoBackend /\ \E p \in Chosen : pc' = [pc EXCEPT ![r] = p]
    /\ grp' = [grp EXCEPT ![r] = NoGroup]
    /\ i' = [i EXCEPT ![r] = 0]
    /\ best_count' = [best_count EXCEPT ![r] = 0]
    /\ UNCHANGED <<groupVars, configVars, healthy, active_connections, applyVars, best>>

-----------------------------------------------------------------------------
(* A request: the connection to the backend it chose.                      *)

\* ConnectionGuard::drop
GuardDrop(r) ==
    /\ pc' = [pc EXCEPT ![r] = "idle"]
    /\ best' = [best EXCEPT ![r] = NoBackend]
    /\ active_connections' = [active_connections EXCEPT ![best[r]] = @ - 1]
    /\ UNCHANGED <<groupVars, configVars, healthy, applyVars, scanVars>>

\* proxy_http and proxy_websocket start by creating the guard.
GuardNotCounted(r) ==           \* mutant of ConnectionGuardNew
    /\ pc[r] \in Chosen
    /\ pc' = [pc EXCEPT ![r] = IF @ = "picked" THEN "http_dial" ELSE "ws_dial"]
    /\ UNCHANGED <<groupVars, configVars, healthy, active_connections, applyVars, best, scanVars>>
ConnectionGuardNew(r) ==
    /\ pc[r] \in Chosen
    /\ pc' = [pc EXCEPT ![r] = IF @ = "picked" THEN "http_dial" ELSE "ws_dial"]
    /\ active_connections' = [active_connections EXCEPT ![best[r]] = @ + 1]
    /\ UNCHANGED <<groupVars, configVars, healthy, applyVars, best, scanVars>>

\* hyper::upgrade::on fails: no guard was ever created.
UpgradeFailDrops(r) == pc[r] = "upgrade" /\ GuardDrop(r)     \* mutant of UpgradeFail
UpgradeFail(r) ==
    /\ pc[r] = "upgrade"
    /\ pc' = [pc EXCEPT ![r] = "idle"]
    /\ best' = [best EXCEPT ![r] = NoBackend]
    /\ UNCHANGED <<groupVars, configVars, healthy, active_connections, applyVars, scanVars>>

\* The backend answers: the guard moves into the response body (GuardedBody),
\* or stays in proxy_websocket for the session.
DialOk(r) ==
    /\ pc[r] \in {"http_dial", "ws_dial"}
    /\ pc' = [pc EXCEPT ![r] = IF @ = "http_dial" THEN "streaming" ELSE "session"]
    /\ UNCHANGED <<groupVars, configVars, healthy, active_connections, applyVars, best, scanVars>>

\* Every early return with the guard in scope: a URL that does not parse or
\* has no authority, an upgrade request that cannot be built, a failed dial.
DialFailLeaks(r) ==             \* mutant of DialFail
    /\ pc[r] \in {"http_dial", "ws_dial"}
    /\ pc' = [pc EXCEPT ![r] = "idle"]
    /\ best' = [best EXCEPT ![r] = NoBackend]
    /\ UNCHANGED <<groupVars, configVars, healthy, active_connections, applyVars, scanVars>>
DialFail(r) == pc[r] \in {"http_dial", "ws_dial"} /\ GuardDrop(r)

\* The body ends, or one direction of the session does.
Finish(r) == pc[r] \in {"streaming", "session"} /\ GuardDrop(r)

\* The client leaves: hyper drops the future of handle_request, or the body.
\* The task of a WebSocket is spawned, and does not notice while it dials.
Disconnect(r) == pc[r] \in {"http_dial", "streaming", "session"} /\ GuardDrop(r)

-----------------------------------------------------------------------------
(* The health checker: it stores the result of a probe at any time.  A     *)
(* sweep may still probe a backend that has left every route; nothing      *)
(* reads the flag of such a backend again, so that store is left out.      *)

HealthStore(b, ok) ==
    /\ b \in Routable
    /\ healthy' = [healthy EXCEPT ![b] = ok]
    /\ UNCHANGED <<groupVars, configVars, active_connections, applyVars, requestVars>>

-----------------------------------------------------------------------------
(* apply_config.  The write lock on `groups` is held from the first route  *)
(* to the last; each group's own lock only while that group is changed.    *)

ReloadStart(c) ==
    /\ route = 0
    /\ Valid(c)
    /\ cfg' = c
    /\ route' = 1
    /\ UNCHANGED <<groupVars, configVars, healthy, active_connections, built, requestVars>>

FreeGroups == Gid \ LiveGroups
FreeBackends == Bid \ LiveBackends

\* One of S, always the same: which free identity is taken does not matter.
AnyOf(S) == IF S = {} THEN {} ELSE {CHOOSE x \in S : TRUE}

\* The group of the OLD table with the same `host`, or a new one.
GroupAt(p) == {k \in DOMAIN groups : host[groups[k]] = p}
GroupFor(p) == IF GroupAt(p) # {} THEN {groups[FirstIndex(GroupAt(p))]}
                                  ELSE AnyOf(FreeGroups)

\* The backend of the OLD list with the same URL, or a new one.
BackendAt(s, u) == {k \in DOMAIN s : url[s[k]] = u}
AlwaysAdded(s, cs) == DOMAIN cs     \* mutant of Added
Added(s, cs) == {k \in DOMAIN cs : BackendAt(s, cs[k].url) = {}}
NewList(s, cs, fresh) ==
    [k \in DOMAIN cs |-> IF k \in Added(s, cs) THEN fresh[k]
                         ELSE s[FirstIndex(BackendAt(s, cs[k].url))]]

\* A new backend for each place in S.
Allocation(S) == AnyOf(Injection(S, FreeBackends))

\* The backends whose limit and drain flag are stored: all that are listed.
UpdatedNew(list, fresh) == Range(fresh)     \* mutant of Updated
Updated(list, fresh) == Range(list)

\* Of a backend listed twice the last entry wins; the counter and the health
\* are set for the new ones only.
Install(list, cs, fresh) ==
    LET last(b) == LastIndex({k \in DOMAIN list : list[k] = b}) IN
    /\ url' = [b \in Bid |-> IF b \in Range(fresh) THEN cs[last(b)].url ELSE url[b]]
    /\ max_connections' = [b \in Bid |-> IF b \in Updated(list, fresh)
                                         THEN cs[last(b)].max_connections ELSE max_connections[b]]
    /\ drain' = [b \in Bid |-> IF b \in Updated(list, fresh) THEN cs[last(b)].drain ELSE drain[b]]
    /\ healthy' = [b \in Bid |-> b \in Range(fresh) \/ healthy[b]]
    /\ active_connections' = [b \in Bid |-> IF b \in Range(fresh) THEN 0
                                            ELSE active_connections[b]]

\* apply_backends takes the write lock: no request is scanning this group.
NoWriteLock(g) == TRUE          \* mutant of WriteLockFree
LockedByUsers(g) == \A r \in Request : best[r] \notin Range(members[g])  \* another
WriteLockFree(g) == \A r \in Request : grp[r] = g => pc[r] \notin Scanning

\* One turn of the loop over the routes: apply_backends on the group that
\* exists, BackendGroup::new otherwise.
ApplyRoute ==
    /\ route \in DOMAIN cfg
    /\ \E g \in GroupFor(cfg[route].host) :
         LET cs == cfg[route].backends
             old == IF g \in Range(groups) THEN members[g] ELSE <<>>
         IN \E fresh \in Allocation(Added(old, cs)) :
              /\ WriteLockFree(g)
              /\ host' = [host EXCEPT ![g] = cfg[route].host]
              /\ members' = [members EXCEPT ![g] = NewList(old, cs, fresh)]
              /\ Install(NewList(old, cs, fresh), cs, fresh)
              /\ built' = Append(built, g)
    /\ route' = route + 1
    /\ UNCHANGED <<groups, cfg, requestVars>>

\* `*groups = new_groups`, and the lock is released.
ReloadFinish ==
    /\ route = Len(cfg) + 1
    /\ groups' = built
    /\ built' = <<>>
    /\ route' = 0
    /\ UNCHANGED <<host, members, configVars, healthy, active_connections, cfg, requestVars>>

-----------------------------------------------------------------------------
(* BackendRegistry::new builds its groups as apply_config does on an empty *)
(* table, so the initial state is the reload of Boot about to begin.  The  *)
(* fields of free identities are arbitrary and set on allocation.          *)
Init ==
    /\ groups = <<>> /\ built = <<>>
    /\ cfg = Boot /\ route = 1
    /\ host = [g \in Gid |-> CHOOSE p \in Pattern : TRUE]
    /\ members = [g \in Gid |-> <<>>]
    /\ url = [b \in Bid |-> CHOOSE u \in Url : TRUE]
    /\ max_connections = [b \in Bid |-> 0]
    /\ drain = [b \in Bid |-> FALSE]
    /\ healthy = [b \in Bid |-> TRUE]
    /\ active_connections = [b \in Bid |-> 0]
    /\ pc = [r \in Request |-> "idle"]
    /\ grp = [r \in Request |-> NoGroup]
    /\ i = [r \in Request |-> 0]
    /\ best = [r \in Request |-> NoBackend]
    /\ best_count = [r \in Request |-> 0]

Select(r) == SelectBegin(r) \/ SelectFlags(r) \/ SelectCount(r) \/ SelectEnd(r)

Next ==
    \/ \E r \in Request :
         \/ \E h \in Host : FindGroup(r, h)
         \/ Select(r)
         \/ ConnectionGuardNew(r)
         \/ UpgradeFail(r)
         \/ DialOk(r)
         \/ DialFail(r)
         \/ Finish(r)
         \/ Disconnect(r)
    \/ \E b \in Bid, ok \in BOOLEAN : HealthStore(b, ok)
    \/ \E c \in Config : ReloadStart(c)
    \/ ApplyRoute
    \/ ReloadFinish

Spec == Init /\ [][Next]_vars

-----------------------------------------------------------------------------
(* Properties.                                                             *)

TypeOK ==
    /\ groups \in Seq(Gid) /\ built \in Seq(Gid)
    /\ host \in [Gid -> Pattern]
    /\ members \in [Gid -> Seq(Bid)]
    /\ url \in [Bid -> Url]
    /\ max_connections \in [Bid -> Nat]
    /\ drain \in [Bid -> BOOLEAN] /\ healthy \in [Bid -> BOOLEAN]
    /\ active_connections \in [Bid -> Nat]
    /\ cfg \in Config /\ route \in 0 .. Len(cfg) + 1
    /\ pc \in [Request -> {"idle", "found"} \cup Scanning \cup Chosen \cup Counted]
    /\ grp \in [Request -> Gid \cup {NoGroup}]
    /\ i \in [Request -> Nat]
    /\ best \in [Request -> Bid \cup {NoBackend}]
    /\ best_count \in [Request -> Nat]

(* The counter of a backend is the number of requests whose guard on it is *)
(* alive, on every path a request may take and across every reload: no     *)
(* path drops a guard twice, forgets one, or wraps the counter below zero, *)
(* and no reload resets the counter of a backend in use (ConnectionGuard,  *)
(* apply_backends).                                                        *)
CountExact == \A b \in Bid : active_connections[b] = Cardinality(Holders(b))

(* The locks of a scan protect it from a reload: the list does not shrink  *)
(* under the index, and a backend chosen so far has not been drained since *)
(* its flag was read (select_backend against apply_backends).              *)
ScanIsStable ==
    \A r \in Request :
        /\ pc[r] \in Scanning =>
             /\ i[r] <= Len(members[grp[r]]) + 1
             /\ best[r] # NoBackend =>
                  /\ best[r] \in Range(members[grp[r]])
                  /\ ~drain[best[r]] /\ best_count[r] < max_connections[best[r]]
        /\ pc[r] = "count" => More(r) /\ ~drain[Current(r)]

(* The inductive invariant: with the above, which pointers a request holds *)
(* at which point, and that no two live groups share a backend - what      *)
(* keeps the reload of one group away from the scan of another.            *)
RequestShape ==
    \A r \in Request :
        /\ pc[r] \in {"idle", "found"} => best[r] = NoBackend
        /\ pc[r] \in {"found"} \cup Scanning => grp[r] # NoGroup
        /\ pc[r] \in Chosen \cup Counted => best[r] # NoBackend

GroupsDisjoint ==
    \A g1, g2 \in LiveGroups \ {NoGroup} :
        g1 # g2 => Range(members[g1]) \cap Range(members[g2]) = {}

IInv == TypeOK /\ RequestShape /\ GroupsDisjoint /\ ScanIsStable /\ CountExact

(* When no reload is running the table is the configuration: the routes in *)
(* order, and in each the backends in order with the URL, limit and drain  *)
(* flag of the file.  A file that lists a host or the URL of a route twice *)
(* is outside the format (lb.toml: one [[routes]] block per Host header).  *)
Distinct(c) ==
    /\ \A j, k \in DOMAIN c : c[j].host = c[k].host => j = k
    /\ \A n \in DOMAIN c : \A j, k \in DOMAIN c[n].backends :
         c[n].backends[j].url = c[n].backends[k].url => j = k

Shown(g) == [host |-> host[g],
             backends |-> [k \in DOMAIN members[g] |->
                 LET b == members[g][k]
                 IN [url |-> url[b], max_connections |-> max_connections[b],
                     drain |-> drain[b]]]]

TableMatchesConfig ==
    route = 0 /\ Distinct(cfg) => cfg = [k \in DOMAIN groups |-> Shown(groups[k])]

(* A request goes where the documentation sends it: to a route that covers *)
(* its header and that no other route of the table beats; and it is a 404  *)
(* only when no route covers it (find_group; README, host).                *)
RoutesAsDocumented ==
    route = 0 => \A h \in Host :
        LET routes == {host[groups[k]] : k \in DOMAIN groups}
            found == Lookup(h)
        IN
        /\ \A k \in found : host[groups[k]] \in Best(h, routes)
        /\ found = {} => \A p \in routes : ~Covers(p, h)

(* A drained backend only loses requests: from the reload that drains it   *)
(* on, no request comes to refer to it, neither as the choice of a scan    *)
(* nor as a connection (README: no new connections are routed here).       *)
DrainClosesDoor ==
    [][\A b \in Bid : drain[b] /\ drain'[b] => Users(b)' \subseteq Users(b)]_vars

(* The balancer implements Admission: a request is admitted when its scan  *)
(* is over, and is with that backend until its guard, or the upgrade that  *)
(* failed, lets go of it (handle_request, ConnectionGuard, apply_config).  *)
Promise == INSTANCE Admission WITH
    Backend <- Bid, None <- NoBackend,
    user <- [r \in Request |-> IF pc[r] \in Chosen \cup Counted THEN best[r] ELSE NoBackend],
    connected <- {r \in Request : pc[r] \in Counted},
    closed <- {b \in Bid : drain[b]},
    load <- active_connections

ImplementsAdmission == Promise!Spec

(* What the documentation says, and the code does not keep.                *)

(* README: max_connections is a "Hard cap on concurrent connections per    *)
(* backend".  Selection compares the counter with the limit, and the guard *)
(* raises it later: two requests may both see the last free place.         *)
HardCap == \A b \in Bid : active_connections[b] <= max_connections[b]

-----------------------------------------------------------------------------
(* Liveness.  The program's own steps are taken: threads and tasks are     *)
(* scheduled and no lock is held across an await.                          *)
SchedulerFairness ==
    /\ \A r \in Request : WF_vars(Select(r))
    /\ WF_vars(ApplyRoute \/ ReloadFinish)

(* What is outside the program ends: an upgrade or a dial gets an answer   *)
(* (neither has a timeout in the code) and a stream or session finishes.   *)
Connection(r) ==
    ConnectionGuardNew(r) \/ UpgradeFail(r) \/ DialOk(r) \/ DialFail(r) \/ Finish(r)
PeerFairness == \A r \in Request : WF_vars(Connection(r))

(* A reload that has begun is completed, whatever connections are open and *)
(* whatever peers do: it waits for scans only, never for a stream.         *)
ReloadCompletes == route # 0 ~> route = 0

(* A backend that is drained and stays so runs empty, if the peers of its  *)
(* connections answer and finish (README, rolling updates: watch the stats *)
(* until active_connections is 0).                                         *)
DrainCompletes ==
    PeerFairness =>
        \A b \in Bid : drain[b] ~> (active_connections[b] = 0 /\ Users(b) = {}) \/ ~drain[b]
=============================================================================
