--------------------------- MODULE BalancerProofs ---------------------------
(***************************************************************************)
(* Theorems about Balancer, for every set of requests, every pool of       *)
(* identities and every set of configurations.  They all rest on the       *)
(* inductive invariant IInv; the last is that Balancer implements          *)
(* Admission.                                                              *)
(***************************************************************************)
EXTENDS Balancer, FiniteSetTheorems, WellFoundedInduction, TLAPS

-----------------------------------------------------------------------------
(* Indices and sequences.                                                  *)

LEMMA SmallestIn ==
    ASSUME NEW S, S \subseteq Nat, S # {}
    PROVE  \E k \in S : \A j \in S : k <= j
<1> DEFINE R == OpToRel(<, Nat)
<1>1. IsWellFoundedOn(R, Nat)
  BY NatLessThanWellFounded
<1>2. \A j, k \in Nat : j < k => <<j, k>> \in R
  BY DEF OpToRel
<1> HIDE DEF R
<1>3. PICK k \in S : \A j \in S : ~(<<j, k>> \in R)
  BY <1>1, WFMin
<1>4. ASSUME NEW j \in S PROVE k <= j
  <2>1. j \in Nat /\ k \in Nat /\ ~(<<j, k>> \in R)
    BY <1>3
  <2>2. ~(j < k)
    BY <1>2, <2>1
  <2> QED BY <2>1, <2>2
<1> QED BY <1>4

LEMMA FirstIndexIn ==
    ASSUME NEW S, S \subseteq Nat, S # {}
    PROVE  FirstIndex(S) \in S /\ \A j \in S : FirstIndex(S) <= j
BY SmallestIn DEF FirstIndex

LEMMA LastIndexIn ==
    ASSUME NEW n \in Nat, NEW S, S \subseteq 1 .. n, S # {}
    PROVE  LastIndex(S) \in S
<1> DEFINE T == {n - k : k \in S}
<1>1. T \subseteq Nat /\ T # {}
  <2>1. \A k \in S : n - k \in Nat
    OBVIOUS
  <2>2. T \subseteq Nat
    BY <2>1
  <2>3. T # {}
    OBVIOUS
  <2> QED BY <2>2, <2>3
<1>2. PICK t \in T : \A u \in T : t <= u
  BY <1>1, SmallestIn
<1>3. PICK k \in S : t = n - k
  BY <1>2
<1>4. ASSUME NEW j \in S PROVE j <= k
  <2>1. n - j \in T
    OBVIOUS
  <2>2. n - k <= n - j
    BY <1>2, <1>3, <2>1
  <2>3. j \in Nat /\ k \in Nat
    OBVIOUS
  <2> QED BY <2>2, <2>3
<1> QED BY <1>4 DEF LastIndex

LEMMA RangeOfSeq ==
    ASSUME NEW S, NEW s \in Seq(S)
    PROVE  /\ Range(s) \subseteq S
           /\ \A k \in DOMAIN s : s[k] \in Range(s)
BY DEF Range

LEMMA RangeAppend ==
    ASSUME NEW S, NEW s \in Seq(S), NEW x \in S
    PROVE  Append(s, x) \in Seq(S) /\ Range(Append(s, x)) = Range(s) \cup {x}
<1>1. /\ Append(s, x) \in Seq(S)
      /\ DOMAIN Append(s, x) = 1 .. Len(s) + 1
      /\ \A k \in 1 .. Len(s) : Append(s, x)[k] = s[k]
      /\ Append(s, x)[Len(s) + 1] = x
  OBVIOUS
<1>2. DOMAIN s = 1 .. Len(s) /\ Len(s) \in Nat
  OBVIOUS
<1>3. \A k \in 1 .. Len(s) + 1 : k \in 1 .. Len(s) \/ k = Len(s) + 1
  BY <1>2
<1>4. ASSUME NEW y \in Range(Append(s, x)) PROVE y \in Range(s) \cup {x}
  BY <1>1, <1>2, <1>3 DEF Range
<1>5. ASSUME NEW y \in Range(s) \cup {x} PROVE y \in Range(Append(s, x))
  BY <1>1, <1>2 DEF Range
<1> QED BY <1>1, <1>4, <1>5

-----------------------------------------------------------------------------
(* Counting.                                                               *)

LEMMA HoldersFinite ==
    \A b : IsFiniteSet(Holders(b)) /\ Cardinality(Holders(b)) \in Nat
BY RequestAssumption, FS_Subset, FS_CardinalityType DEF Holders
(* Any one of a set is of that set (AnyOf stands for an allocation).     *)
LEMMA AnyOfIn == ASSUME NEW S, NEW x \in AnyOf(S) PROVE x \in S
BY DEF AnyOf

-----------------------------------------------------------------------------
(* What one turn of the loop of apply_config does, apart from how it finds *)
(* the group and the backends: `list` is the new list of group g, `new`    *)
(* the backends allocated for it.                                          *)
LEMMA ApplyFacts ==
    ASSUME TypeOK, ApplyRoute
    PROVE  \E g \in Gid, list \in Seq(Bid), new \in SUBSET FreeBackends :
             /\ \/ g \in Range(groups) /\ Range(list) \subseteq new \cup Range(members[g])
                \/ g \in FreeGroups /\ Range(list) \subseteq new
             /\ WriteLockFree(g)
             /\ built' = Append(built, g)
             /\ host' \in [Gid -> Pattern]
             /\ members' = [members EXCEPT ![g] = list]
             /\ url' \in [Bid -> Url]
             /\ max_connections' \in [Bid -> Nat]
             /\ drain' \in [Bid -> BOOLEAN]
             /\ healthy' \in [Bid -> BOOLEAN]
             /\ \A b \in Bid \ Range(list) :
                  drain'[b] = drain[b] /\ max_connections'[b] = max_connections[b]
             /\ active_connections' = [b \in Bid |-> IF b \in new THEN 0
                                                     ELSE active_connections[b]]
<1> DEFINE p == cfg[route].host
           cs == cfg[route].backends
           List(g) == IF g \in Range(groups) THEN members[g] ELSE <<>>
<1>1. p \in Pattern /\ cs \in Seq(BackendConfig)
  <2>1. cfg \in Seq(RouteConfig) /\ route \in DOMAIN cfg
    BY ConfigAssumption DEF TypeOK, ApplyRoute
  <2>2. cfg[route] \in RouteConfig
    BY <2>1
  <2> QED BY <2>2 DEF RouteConfig
<1>2. PICK g \in GroupFor(p) : \E fresh \in Allocation(Added(List(g), cs)) :
      /\ WriteLockFree(g)
      /\ built' = Append(built, g)
      /\ host' = [host EXCEPT ![g] = p]
      /\ members' = [members EXCEPT ![g] = NewList(List(g), cs, fresh)]
      /\ Install(NewList(List(g), cs, fresh), cs, fresh)
  BY DEF ApplyRoute
<1> DEFINE old == List(g)
<1>3. PICK fresh \in Allocation(Added(old, cs)) :
      /\ WriteLockFree(g)
      /\ built' = Append(built, g)
      /\ host' = [host EXCEPT ![g] = p]
      /\ members' = [members EXCEPT ![g] = NewList(old, cs, fresh)]
      /\ Install(NewList(old, cs, fresh), cs, fresh)
  BY <1>2
<1> DEFINE list == NewList(old, cs, fresh)
           last(b) == LastIndex({k \in DOMAIN list : list[k] = b})
<1>4. /\ WriteLockFree(g)
      /\ built' = Append(built, g)
      /\ host' = [host EXCEPT ![g] = p]
      /\ members' = [members EXCEPT ![g] = list]
      /\ Install(list, cs, fresh)
  BY <1>3
<1>5. g \in Gid /\ (g \in Range(groups) \/ g \in FreeGroups)
  <2>1. CASE GroupAt(p) # {}
    <3>1. GroupAt(p) \subseteq DOMAIN groups /\ DOMAIN groups \subseteq Nat
      BY DEF GroupAt, TypeOK
    <3>2. FirstIndex(GroupAt(p)) \in DOMAIN groups
      BY <2>1, <3>1, FirstIndexIn
    <3>3. g = groups[FirstIndex(GroupAt(p))]
      BY <1>2, <2>1 DEF GroupFor
    <3> QED BY <3>2, <3>3, RangeOfSeq DEF TypeOK
  <2>2. CASE GroupAt(p) = {}
    <3>1. g \in AnyOf(FreeGroups)
      BY <1>2, <2>2 DEF GroupFor
    <3> QED BY <3>1, AnyOfIn DEF FreeGroups
  <2> QED BY <2>1, <2>2
<1>6. old \in Seq(Bid) /\ DOMAIN old \subseteq Nat
  BY <1>5 DEF TypeOK
<1>7. fresh \in [Added(old, cs) -> FreeBackends]
  <2>1. fresh \in Injection(Added(old, cs), FreeBackends)
    BY <1>3, AnyOfIn DEF Allocation
  <2> QED BY <2>1 DEF Injection
<1> DEFINE new == Range(fresh)
<1>8. new \subseteq FreeBackends /\ FreeBackends \subseteq Bid
  BY <1>7 DEF Range, FreeBackends
<1> HIDE DEF p, cs
<1>9. ASSUME NEW k \in DOMAIN cs
      PROVE  list[k] \in new \cup Range(old) /\ list[k] \in Bid
  <2>1. CASE k \in Added(old, cs)
    <3>1. list[k] = fresh[k]
      BY <2>1 DEF NewList
    <3> QED BY <1>7, <1>8, <2>1, <3>1 DEF Range
  <2>2. CASE k \notin Added(old, cs)
    <3> DEFINE S == BackendAt(old, cs[k].url)
    <3>1. S # {} /\ S \subseteq DOMAIN old
      BY <2>2 DEF Added, BackendAt
    <3>2. FirstIndex(S) \in DOMAIN old
      BY <1>6, <3>1, FirstIndexIn
    <3>3. list[k] = old[FirstIndex(S)]
      BY <2>2 DEF NewList
    <3> QED BY <1>6, <3>2, <3>3, RangeOfSeq
  <2> QED BY <2>1, <2>2
<1>10. DOMAIN list = 1 .. Len(cs) /\ Len(cs) \in Nat /\ DOMAIN cs = 1 .. Len(cs)
  BY <1>1 DEF NewList
<1>11. list \in Seq(Bid) /\ Range(list) \subseteq new \cup Range(old)
  <2>1. list \in [1 .. Len(cs) -> Bid]
    BY <1>9, <1>10 DEF NewList
  <2> QED BY <1>9, <1>10, <2>1 DEF Range
<1>12. ASSUME NEW b \in Range(list)
       PROVE  cs[last(b)] \in BackendConfig
  <2>1. {k \in DOMAIN list : list[k] = b} # {}
    BY DEF Range
  <2>2. last(b) \in 1 .. Len(cs)
    BY <1>10, <2>1, LastIndexIn
  <2> QED BY <1>1, <1>10, <2>2
<1>13. ASSUME NEW b \in Range(list)
       PROVE  /\ cs[last(b)].url \in Url
              /\ cs[last(b)].max_connections \in Nat
              /\ cs[last(b)].drain \in BOOLEAN
  BY <1>12 DEF BackendConfig
<1> HIDE DEF list
<1>14. /\ url' \in [Bid -> Url]
       /\ max_connections' \in [Bid -> Nat]
       /\ drain' \in [Bid -> BOOLEAN]
       /\ healthy' \in [Bid -> BOOLEAN]
  <2>1. \A b \in Range(fresh) : b \in Range(list)
    <3>1. Added(old, cs) \subseteq DOMAIN cs
      BY DEF Added
    <3>2. \A k \in Added(old, cs) : list[k] = fresh[k]
      BY <3>1 DEF list, NewList
    <3> QED BY <1>7, <1>10, <3>1, <3>2 DEF Range
  <2> QED BY <1>4, <1>13, <2>1 DEF Install, Updated, TypeOK
<1>15. \A b \in Bid \ Range(list) :
          drain'[b] = drain[b] /\ max_connections'[b] = max_connections[b]
  BY <1>4 DEF Install, Updated
<1>16. active_connections' = [b \in Bid |-> IF b \in new THEN 0 ELSE active_connections[b]]
  BY <1>4 DEF Install
<1>17. host' \in [Gid -> Pattern]
  BY <1>1, <1>4 DEF TypeOK
<1>18. \/ g \in Range(groups) /\ Range(list) \subseteq new \cup Range(members[g])
       \/ g \in FreeGroups /\ Range(list) \subseteq new
  <2>1. CASE g \in Range(groups)
    BY <1>11, <2>1
  <2>2. CASE g \notin Range(groups)
    <3>1. Range(old) = {}
      BY <2>2 DEF Range
    <3> QED BY <1>5, <1>11, <2>2, <3>1
  <2> QED BY <2>1, <2>2
<1> HIDE DEF new, old
<1> g \in Gid /\ list \in Seq(Bid) /\ new \in SUBSET FreeBackends
  BY <1>5, <1>8, <1>11
<1> WITNESS g \in Gid, list \in Seq(Bid), new \in SUBSET FreeBackends
<1> QED BY <1>4, <1>5, <1>8, <1>11, <1>14, <1>15, <1>16, <1>17, <1>18

-----------------------------------------------------------------------------
(* The initial state.                                                      *)
LEMMA InitInv == Init => IInv
<1> SUFFICES ASSUME Init PROVE IInv
  OBVIOUS
<1>1. TypeOK
  <2>1. cfg \in Seq(RouteConfig) /\ cfg \in Config
    BY ConfigAssumption, BootAssumption DEF Init
  <2>2. Len(cfg) \in Nat
    BY <2>1
  <2>3. (CHOOSE p \in Pattern : TRUE) \in Pattern /\ (CHOOSE u \in Url : TRUE) \in Url
    BY NonEmptyAssumption
  <2> QED BY <2>1, <2>2, <2>3 DEF Init, TypeOK
<1>2. RequestShape
  BY DEF Init, RequestShape, Scanning, Chosen, Counted
<1>3. GroupsDisjoint
  BY DEF Init, GroupsDisjoint, LiveGroups, Range
<1>4. ScanIsStable
  BY DEF Init, ScanIsStable, Scanning
<1>5. CountExact
  <2>1. \A b : Holders(b) = {}
    BY DEF Init, Holders, Counted
  <2> QED BY <2>1, FS_EmptySet DEF Init, CountExact
<1> QED BY <1>1, <1>2, <1>3, <1>4, <1>5 DEF IInv

-----------------------------------------------------------------------------
(* Facts about a request that holds a group or a guard.                    *)
LEMMA FindsListed ==
    ASSUME TypeOK, NEW r \in Request, NEW h \in Host, FindGroup(r, h)
    PROVE  \E g \in Range(groups) : grp' = [grp EXCEPT ![r] = g]
<1>1. \A k \in DOMAIN groups : groups[k] \in Range(groups)
  BY DEF Range
<1>2. PICK k \in Lookup(h) : grp' = [grp EXCEPT ![r] = groups[k]]
  BY DEF FindGroup
<1> QED BY <1>1, <1>2 DEF Lookup

LEMMA HoldsGroup ==
    ASSUME TypeOK, RequestShape, NEW r \in Request, pc[r] \in {"found"} \cup Scanning
    PROVE  grp[r] \in Gid /\ grp[r] \in LiveGroups /\ members[grp[r]] \in Seq(Bid)
BY DEF TypeOK, RequestShape, LiveGroups

LEMMA CurrentBackend ==
    ASSUME TypeOK, RequestShape, NEW r \in Request, pc[r] \in Scanning, More(r)
    PROVE  Current(r) \in Bid /\ Current(r) \in Range(members[grp[r]])
BY HoldsGroup, RangeOfSeq DEF More, Current

LEMMA GuardCounted ==
    ASSUME TypeOK, RequestShape, CountExact, NEW r \in Request, pc[r] \in Counted
    PROVE  best[r] \in Bid /\ active_connections[best[r]] - 1 \in Nat
<1>1. best[r] \in Bid /\ r \in Holders(best[r])
  BY DEF TypeOK, RequestShape, Holders
<1>2. Cardinality(Holders(best[r])) # 0 /\ Cardinality(Holders(best[r])) \in Nat
  BY <1>1, HoldersFinite, FS_EmptySet
<1>3. active_connections[best[r]] = Cardinality(Holders(best[r]))
  BY <1>1 DEF CountExact
<1> QED BY <1>1, <1>2, <1>3

-----------------------------------------------------------------------------
(* Type correctness is preserved.                                          *)
LEMMA TypeStep ==
    ASSUME IInv, [Next]_vars
    PROVE  TypeOK'
<1> USE DEF IInv, vars, groupVars, configVars, applyVars, requestVars, scanVars
<1>1. ASSUME NEW r \in Request, NEW h \in Host, FindGroup(r, h) PROVE TypeOK'
  <2>1. PICK g \in Range(groups) : grp' = [grp EXCEPT ![r] = g]
    BY <1>1, FindsListed
  <2>2. g \in Gid
    BY RangeOfSeq DEF TypeOK
  <2> QED BY <1>1, <2>1, <2>2 DEF FindGroup, TypeOK
<1>2. ASSUME NEW r \in Request, SelectBegin(r) PROVE TypeOK'
  BY <1>2 DEF SelectBegin, TypeOK, Scanning
<1>3. ASSUME NEW r \in Request, SelectFlags(r) PROVE TypeOK'
  <2>1. i' \in [Request -> Nat] /\ pc' \in [Request -> {"idle", "found"} \cup Scanning \cup Chosen \cup Counted]
    <3>1. i[r] + 1 \in Nat /\ "count" \in Scanning
      BY DEF TypeOK, Scanning
    <3> QED BY <1>3, <3>1 DEF SelectFlags, TypeOK
  <2> QED BY <1>3, <2>1 DEF SelectFlags, TypeOK
<1>4. ASSUME NEW r \in Request, SelectCount(r) PROVE TypeOK'
  <2>1. Current(r) \in Bid
    BY <1>4, CurrentBackend DEF SelectCount, ScanIsStable, Scanning
  <2>2. best' \in [Request -> Bid \cup {NoBackend}] /\ best_count' \in [Request -> Nat]
    BY <1>4, <2>1 DEF SelectCount, TypeOK
  <2>3. i' \in [Request -> Nat] /\ pc' \in [Request -> {"idle", "found"} \cup Scanning \cup Chosen \cup Counted]
    BY <1>4 DEF SelectCount, TypeOK, Scanning
  <2> QED BY <1>4, <2>2, <2>3 DEF SelectCount, TypeOK
<1>5. ASSUME NEW r \in Request, SelectEnd(r) PROVE TypeOK'
  BY <1>5 DEF SelectEnd, TypeOK
<1>6. ASSUME NEW r \in Request, ConnectionGuardNew(r) PROVE TypeOK'
  <2>1. best[r] \in Bid
    BY <1>6 DEF ConnectionGuardNew, TypeOK, RequestShape
  <2> QED BY <1>6, <2>1 DEF ConnectionGuardNew, TypeOK, Counted
<1>7. ASSUME NEW r \in Request, UpgradeFail(r) PROVE TypeOK'
  BY <1>7 DEF UpgradeFail, TypeOK
<1>8. ASSUME NEW r \in Request, DialOk(r) PROVE TypeOK'
  BY <1>8 DEF DialOk, TypeOK, Counted
<1>9. ASSUME NEW r \in Request, pc[r] \in Counted, GuardDrop(r) PROVE TypeOK'
  <2>1. best[r] \in Bid /\ active_connections[best[r]] - 1 \in Nat
    BY <1>9, GuardCounted
  <2> QED BY <1>9, <2>1 DEF GuardDrop, TypeOK
<1>10. ASSUME NEW b \in Bid, NEW ok \in BOOLEAN, HealthStore(b, ok) PROVE TypeOK'
  BY <1>10 DEF HealthStore, TypeOK
<1>11. ASSUME NEW c \in Config, ReloadStart(c) PROVE TypeOK'
  <2>1. Len(c) \in Nat
    BY ConfigAssumption
  <2> QED BY <1>11, <2>1 DEF ReloadStart, TypeOK
<1>12. ASSUME ApplyRoute PROVE TypeOK'
  <2>1. PICK g \in Gid, list \in Seq(Bid), new \in SUBSET FreeBackends :
          /\ built' = Append(built, g)
          /\ host' \in [Gid -> Pattern]
          /\ members' = [members EXCEPT ![g] = list]
          /\ url' \in [Bid -> Url]
          /\ max_connections' \in [Bid -> Nat]
          /\ drain' \in [Bid -> BOOLEAN]
          /\ healthy' \in [Bid -> BOOLEAN]
          /\ active_connections' = [b \in Bid |-> IF b \in new THEN 0
                                                  ELSE active_connections[b]]
    BY <1>12, ApplyFacts
  <2>2. built' \in Seq(Gid) /\ members' \in [Gid -> Seq(Bid)]
        /\ active_connections' \in [Bid -> Nat]
    BY <2>1, RangeAppend DEF TypeOK
  <2>3. route + 1 \in 0 .. Len(cfg) + 1
    <3>1. cfg \in Seq(RouteConfig)
      BY ConfigAssumption DEF TypeOK
    <3>2. route \in 1 .. Len(cfg) /\ Len(cfg) \in Nat
      BY <1>12, <3>1 DEF ApplyRoute
    <3> QED BY <3>2
  <2> QED BY <1>12, <2>1, <2>2, <2>3 DEF ApplyRoute, TypeOK
<1>13. ASSUME ReloadFinish PROVE TypeOK'
  <2>1. Len(cfg) \in Nat
    BY ConfigAssumption DEF TypeOK
  <2> QED BY <1>13, <2>1 DEF ReloadFinish, TypeOK
<1>14. CASE UNCHANGED vars
  BY <1>14 DEF TypeOK
<1> QED
  BY <1>1, <1>2, <1>3, <1>4, <1>5, <1>6, <1>7, <1>8, <1>9, <1>10, <1>11, <1>12, <1>13, <1>14
  DEF Next, Select, DialFail, Finish, Disconnect, Counted

-----------------------------------------------------------------------------
(* The shape of a request is preserved.                                    *)
LEMMA ShapeStep ==
    ASSUME IInv, [Next]_vars
    PROVE  RequestShape'
<1> USE DEF IInv, vars, groupVars, configVars, applyVars, requestVars, scanVars,
            Scanning, Chosen, Counted
<1>1. ASSUME NEW r \in Request, NEW h \in Host, FindGroup(r, h) PROVE RequestShape'
  <2>1. PICK g \in Range(groups) : grp' = [grp EXCEPT ![r] = g]
    BY <1>1, FindsListed
  <2>2. g \in Gid /\ g # NoGroup
    BY RangeOfSeq, IdentityAssumption DEF TypeOK
  <2> QED BY <1>1, <2>1, <2>2 DEF FindGroup, RequestShape, TypeOK
<1>2. ASSUME NEW r \in Request, SelectBegin(r) PROVE RequestShape'
  BY <1>2 DEF SelectBegin, RequestShape, TypeOK
<1>3. ASSUME NEW r \in Request, SelectFlags(r) PROVE RequestShape'
  BY <1>3 DEF SelectFlags, RequestShape, TypeOK
<1>4. ASSUME NEW r \in Request, SelectCount(r) PROVE RequestShape'
  BY <1>4 DEF SelectCount, RequestShape, TypeOK
<1>5. ASSUME NEW r \in Request, SelectEnd(r) PROVE RequestShape'
  BY <1>5 DEF SelectEnd, RequestShape, TypeOK
<1>6. ASSUME NEW r \in Request, ConnectionGuardNew(r) PROVE RequestShape'
  BY <1>6 DEF ConnectionGuardNew, RequestShape, TypeOK
<1>7. ASSUME NEW r \in Request, UpgradeFail(r) PROVE RequestShape'
  BY <1>7 DEF UpgradeFail, RequestShape, TypeOK
<1>8. ASSUME NEW r \in Request, DialOk(r) PROVE RequestShape'
  BY <1>8 DEF DialOk, RequestShape, TypeOK
<1>9. ASSUME NEW r \in Request, GuardDrop(r) PROVE RequestShape'
  BY <1>9 DEF GuardDrop, RequestShape, TypeOK
<1>10. CASE UNCHANGED requestVars
  BY <1>10 DEF RequestShape
<1> QED
  BY <1>1, <1>2, <1>3, <1>4, <1>5, <1>6, <1>7, <1>8, <1>9, <1>10
  DEF Next, Select, DialFail, Finish, Disconnect, HealthStore, ReloadStart, ApplyRoute, ReloadFinish

-----------------------------------------------------------------------------
(* Live groups stay disjoint: only a reload changes the members of a       *)
(* group, and it adds to them backends that no live group lists.           *)
LEMMA FewerGroups ==
    ASSUME GroupsDisjoint, members' = members, LiveGroups' \subseteq LiveGroups \cup {NoGroup}
    PROVE  GroupsDisjoint'
BY DEF GroupsDisjoint

LEMMA FreshBackends ==
    ASSUME NEW b \in FreeBackends
    PROVE  /\ \A g \in LiveGroups \ {NoGroup} : b \notin Range(members[g])
           /\ \A r \in Request : best[r] # b
BY DEF FreeBackends, LiveBackends, Routable

LEMMA DisjointStep ==
    ASSUME IInv, [Next]_vars
    PROVE  GroupsDisjoint'
<1> USE DEF IInv, vars, groupVars, configVars, applyVars, requestVars, scanVars
<1>1. ASSUME NEW r \in Request, NEW h \in Host, FindGroup(r, h) PROVE GroupsDisjoint'
  <2>1. PICK g \in Range(groups) : grp' = [grp EXCEPT ![r] = g]
    BY <1>1, FindsListed
  <2>2. groups' = groups /\ built' = built /\ members' = members
    BY <1>1 DEF FindGroup
  <2>3. \A q \in Request : grp'[q] \in {grp[q], g}
    BY <2>1 DEF TypeOK
  <2>4. LiveGroups' \subseteq LiveGroups
    BY <2>2, <2>3 DEF LiveGroups
  <2> QED BY <2>2, <2>4, FewerGroups
<1>2. ASSUME NEW r \in Request, Select(r) PROVE GroupsDisjoint'
  <2>1. groups' = groups /\ built' = built /\ members' = members
    BY <1>2 DEF Select, SelectBegin, SelectFlags, SelectCount, SelectEnd
  <2>2. \A q \in Request : grp'[q] \in {grp[q], NoGroup}
    BY <1>2 DEF Select, SelectBegin, SelectFlags, SelectCount, SelectEnd, TypeOK
  <2>3. LiveGroups' \subseteq LiveGroups \cup {NoGroup}
    BY <2>1, <2>2 DEF LiveGroups
  <2> QED BY <2>1, <2>3, FewerGroups
<1>3. ASSUME ReloadFinish PROVE GroupsDisjoint'
  <2>1. groups' = built /\ Range(built') = {} /\ grp' = grp /\ members' = members
    BY <1>3 DEF ReloadFinish, Range
  <2>2. LiveGroups' \subseteq LiveGroups
    BY <2>1 DEF LiveGroups
  <2> QED BY <2>1, <2>2, FewerGroups
<1>4. ASSUME ApplyRoute PROVE GroupsDisjoint'
  <2>1. PICK g \in Gid, list \in Seq(Bid), new \in SUBSET FreeBackends :
          /\ \/ g \in Range(groups) /\ Range(list) \subseteq new \cup Range(members[g])
             \/ g \in FreeGroups /\ Range(list) \subseteq new
          /\ built' = Append(built, g)
          /\ members' = [members EXCEPT ![g] = list]
    BY <1>4, ApplyFacts
  <2>2. LiveGroups' = LiveGroups \cup {g}
    <3>1. Range(built') = Range(built) \cup {g}
      BY <2>1, RangeAppend DEF TypeOK
    <3>2. groups' = groups /\ grp' = grp
      BY <1>4 DEF ApplyRoute
    <3> QED BY <3>1, <3>2 DEF LiveGroups
  <2>3. members'[g] = list /\ \A h \in Gid : h # g => members'[h] = members[h]
    BY <2>1 DEF TypeOK
  <2>4. LiveGroups \ {NoGroup} \subseteq Gid
    BY RangeOfSeq DEF LiveGroups, TypeOK
  <2>5. ASSUME NEW h \in LiveGroups \ {NoGroup}, h # g
        PROVE  Range(members'[h]) \cap Range(members'[g]) = {}
    <3>1. members'[h] = members[h] /\ members'[g] = list
      BY <2>3, <2>4, <2>5
    <3>2. \A b \in new : b \notin Range(members[h])
      BY FreshBackends
    <3>3. CASE g \in Range(groups) /\ Range(list) \subseteq new \cup Range(members[g])
      <4>1. g \in LiveGroups \ {NoGroup}
        BY <3>3, IdentityAssumption DEF LiveGroups
      <4>2. Range(members[h]) \cap Range(members[g]) = {}
        BY <2>5, <4>1 DEF GroupsDisjoint
      <4> QED BY <3>1, <3>2, <3>3, <4>2
    <3>4. CASE Range(list) \subseteq new
      BY <3>1, <3>2, <3>4
    <3> QED BY <2>1, <3>3, <3>4
  <2>6. ASSUME NEW g1 \in LiveGroups' \ {NoGroup}, NEW g2 \in LiveGroups' \ {NoGroup}, g1 # g2
        PROVE  Range(members'[g1]) \cap Range(members'[g2]) = {}
    <3>1. CASE g1 = g
      BY <2>2, <2>5, <2>6, <3>1
    <3>2. CASE g2 = g
      BY <2>2, <2>5, <2>6, <3>2
    <3>3. CASE g1 # g /\ g2 # g
      BY <2>2, <2>3, <2>4, <2>6, <3>3 DEF GroupsDisjoint
    <3> QED BY <3>1, <3>2, <3>3
  <2> QED BY <2>6 DEF GroupsDisjoint
<1>5. CASE UNCHANGED <<groups, built, members, grp>>
  BY <1>5, FewerGroups DEF LiveGroups
<1> QED
  BY <1>1, <1>2, <1>3, <1>4, <1>5
  DEF Next, ConnectionGuardNew, UpgradeFail, DialOk, DialFail, Finish, Disconnect, GuardDrop,
      HealthStore, ReloadStart

-----------------------------------------------------------------------------
(* A scan stays stable.  The fact for one request, to be shown for each    *)
(* action in turn.                                                         *)
Stable(r) ==
    /\ pc[r] \in Scanning =>
         /\ i[r] <= Len(members[grp[r]]) + 1
         /\ best[r] # NoBackend =>
              /\ best[r] \in Range(members[grp[r]])
              /\ ~drain[best[r]] /\ best_count[r] < max_connections[best[r]]
    /\ pc[r] = "count" => More(r) /\ ~drain[Current(r)]

LEMMA StableUnchanged ==
    ASSUME NEW r \in Request, Stable(r), UNCHANGED <<members, drain, max_connections>>,
           pc'[r] = pc[r] \/ (pc'[r] \notin Scanning),
           pc[r] \in Scanning => grp'[r] = grp[r] /\ i'[r] = i[r] /\ best'[r] = best[r]
                                /\ best_count'[r] = best_count[r]
    PROVE  Stable(r)'
BY DEF Stable, More, Current, Scanning

LEMMA ScanStep ==
    ASSUME IInv, [Next]_vars
    PROVE  ScanIsStable'
<1> USE DEF vars, groupVars, configVars, applyVars, requestVars, scanVars
<1> SUFFICES ASSUME NEW q \in Request PROVE Stable(q)'
  BY DEF ScanIsStable, Stable
<1>1. TypeOK /\ RequestShape /\ GroupsDisjoint /\ Stable(q)
  BY DEF IInv, ScanIsStable, Stable
<1>2. pc[q] \in Scanning => /\ grp[q] \in Gid /\ grp[q] \in LiveGroups \ {NoGroup}
                            /\ members[grp[q]] \in Seq(Bid)
                            /\ Len(members[grp[q]]) \in Nat
                            /\ DOMAIN members[grp[q]] = 1 .. Len(members[grp[q]])
                            /\ i[q] \in Nat
  BY <1>1, HoldsGroup, IdentityAssumption DEF TypeOK
<1>3. ASSUME NEW r \in Request, SelectBegin(r) PROVE Stable(q)'
  <2>1. CASE r = q
    <3>1. best[q] = NoBackend /\ members[grp[q]] \in Seq(Bid)
      BY <1>1, <1>3, <2>1, HoldsGroup DEF SelectBegin, RequestShape
    <3>2. pc'[q] = "scan" /\ i'[q] = 1 /\ best'[q] = NoBackend
      BY <1>1, <1>3, <2>1, <3>1 DEF SelectBegin, TypeOK
    <3>3. members' = members /\ grp' = grp
      BY <1>3 DEF SelectBegin
    <3>4. 1 <= Len(members[grp[q]]) + 1
      BY <3>1
    <3> QED BY <3>2, <3>3, <3>4 DEF Stable
  <2>2. CASE r # q
    BY <1>1, <1>3, <2>2, StableUnchanged DEF SelectBegin, TypeOK
  <2> QED BY <2>1, <2>2
<1>4. ASSUME NEW r \in Request, SelectFlags(r) PROVE Stable(q)'
  <2>1. CASE r = q
    <3>1. More(q) /\ i[q] \in 1 .. Len(members[grp[q]]) /\ pc[q] = "scan"
      BY <1>2, <1>4, <2>1 DEF SelectFlags, More, Scanning
    <3>2. UNCHANGED <<members, drain, max_connections, grp, best, best_count>>
      BY <1>4 DEF SelectFlags
    <3>3. CASE Shunned(Current(q))
      <4>1. pc'[q] = "scan" /\ i'[q] = i[q] + 1
        BY <1>1, <1>4, <2>1, <3>1, <3>3 DEF SelectFlags, TypeOK
      <4> QED BY <1>1, <1>2, <3>1, <3>2, <4>1 DEF Stable, Scanning
    <3>4. CASE ~Shunned(Current(q))
      <4>1. pc'[q] = "count" /\ i'[q] = i[q]
        BY <1>1, <1>4, <2>1, <3>1, <3>4 DEF SelectFlags, TypeOK
      <4>2. More(q)' /\ ~drain'[Current(q)']
        BY <3>1, <3>2, <3>4, <4>1 DEF More, Current, Shunned
      <4> QED BY <1>1, <3>1, <3>2, <4>1, <4>2 DEF Stable, Scanning
    <3> QED BY <3>3, <3>4
  <2>2. CASE r # q
    BY <1>1, <1>4, <2>2, StableUnchanged DEF SelectFlags, TypeOK
  <2> QED BY <2>1, <2>2
<1>5. ASSUME NEW r \in Request, SelectCount(r) PROVE Stable(q)'
  <2>1. CASE r = q
    <3>1. More(q) /\ ~drain[Current(q)] /\ pc[q] \in Scanning
      BY <1>1, <1>5, <2>1 DEF Stable, SelectCount, Scanning
    <3>2. i[q] \in 1 .. Len(members[grp[q]]) /\ Current(q) \in Range(members[grp[q]])
          /\ Current(q) \in Bid
      BY <1>1, <1>2, <3>1, CurrentBackend DEF More
    <3>3. UNCHANGED <<members, drain, max_connections, grp>>
      BY <1>5 DEF SelectCount
    <3>4. pc'[q] = "scan" /\ i'[q] = i[q] + 1
      BY <1>1, <1>5, <2>1 DEF SelectCount, TypeOK
    <3>5. i'[q] <= Len(members'[grp'[q]]) + 1
      BY <1>2, <3>1, <3>2, <3>3, <3>4
    <3>6. CASE ~Full(Current(q)) /\ Better(q, Current(q))
      <4>1. best'[q] = Current(q) /\ best_count'[q] = active_connections[Current(q)]
        BY <1>1, <1>5, <2>1, <3>6 DEF SelectCount, TypeOK
      <4>2. best_count'[q] < max_connections[Current(q)]
        BY <1>1, <3>2, <3>6, <4>1 DEF Full, TypeOK
      <4> QED BY <3>1, <3>2, <3>3, <3>4, <3>5, <4>1, <4>2 DEF Stable
    <3>7. CASE Full(Current(q)) \/ ~Better(q, Current(q))
      <4>1. best' = best /\ best_count' = best_count
        BY <1>5, <2>1, <3>7 DEF SelectCount
      <4> QED BY <1>1, <3>1, <3>3, <3>4, <3>5, <4>1 DEF Stable
    <3> QED BY <3>6, <3>7
  <2>2. CASE r # q
    BY <1>1, <1>5, <2>2, StableUnchanged DEF SelectCount, TypeOK
  <2> QED BY <2>1, <2>2
<1>6. ASSUME NEW r \in Request, NEW h \in Host, FindGroup(r, h) PROVE Stable(q)'
  BY <1>1, <1>6, StableUnchanged DEF FindGroup, TypeOK, Scanning
<1>7. ASSUME NEW r \in Request, SelectEnd(r) PROVE Stable(q)'
  <2>1. CASE r = q
    BY <1>1, <1>7, <2>1 DEF SelectEnd, Stable, TypeOK, Scanning, Chosen
  <2>2. CASE r # q
    BY <1>1, <1>7, <2>2, StableUnchanged DEF SelectEnd, TypeOK
  <2> QED BY <2>1, <2>2
<1>8. ASSUME NEW r \in Request,
             \/ ConnectionGuardNew(r) \/ UpgradeFail(r) \/ DialOk(r)
             \/ pc[r] \in Counted /\ GuardDrop(r)
      PROVE  Stable(q)'
  <2>1. pc[r] \notin Scanning /\ pc'[r] \notin Scanning
    BY <1>1, <1>8 DEF ConnectionGuardNew, UpgradeFail, DialOk, GuardDrop, TypeOK,
                      Scanning, Chosen, Counted
  <2>2. \A x \in Request : x # r => pc'[x] = pc[x] /\ best'[x] = best[x]
    BY <1>1, <1>8 DEF ConnectionGuardNew, UpgradeFail, DialOk, GuardDrop, TypeOK
  <2>3. UNCHANGED <<members, drain, max_connections, grp, i, best_count>>
    BY <1>8 DEF ConnectionGuardNew, UpgradeFail, DialOk, GuardDrop
  <2> QED BY <1>1, <2>1, <2>2, <2>3, StableUnchanged
<1>9. ASSUME ApplyRoute PROVE Stable(q)'
  <2>1. PICK g \in Gid, list \in Seq(Bid), new \in SUBSET FreeBackends :
          /\ \/ g \in Range(groups) /\ Range(list) \subseteq new \cup Range(members[g])
             \/ g \in FreeGroups /\ Range(list) \subseteq new
          /\ WriteLockFree(g)
          /\ members' = [members EXCEPT ![g] = list]
          /\ \A b \in Bid \ Range(list) :
               drain'[b] = drain[b] /\ max_connections'[b] = max_connections[b]
    BY <1>9, <1>1, ApplyFacts
  <2>2. UNCHANGED requestVars
    BY <1>9 DEF ApplyRoute
  <2>3. CASE pc[q] \in Scanning
    <3> DEFINE s == members[grp[q]]
    <3>1. grp[q] # g
      BY <2>1, <2>3 DEF WriteLockFree
    <3>2. members'[grp[q]] = s
      BY <1>1, <2>1, <3>1 DEF TypeOK
    <3>3. Range(list) \cap Range(s) = {}
      <4>1. \A b \in new : b \notin Range(s)
        BY <1>2, <2>3, FreshBackends
      <4>2. CASE g \in Range(groups) /\ Range(list) \subseteq new \cup Range(members[g])
        <5>1. g \in LiveGroups \ {NoGroup}
          BY <4>2, IdentityAssumption DEF LiveGroups
        <5>2. Range(members[g]) \cap Range(s) = {}
          BY <1>1, <1>2, <2>3, <3>1, <5>1 DEF GroupsDisjoint
        <5> QED BY <4>1, <4>2, <5>2
      <4>3. CASE Range(list) \subseteq new
        BY <4>1, <4>3
      <4> QED BY <2>1, <4>2, <4>3
    <3>4. \A b \in Range(s) : drain'[b] = drain[b] /\ max_connections'[b] = max_connections[b]
      BY <1>2, <2>1, <2>3, <3>3, RangeOfSeq
    <3>5. pc[q] = "count" => Current(q) \in Range(s)
      BY <1>1, <2>3, CurrentBackend DEF Stable
    <3>6. More(q)' = More(q) /\ Current(q)' = Current(q)
      BY <2>2, <3>2 DEF More, Current
    <3> QED BY <1>1, <2>2, <3>2, <3>4, <3>5, <3>6 DEF Stable
  <2>4. CASE pc[q] \notin Scanning
    BY <2>2, <2>4 DEF Stable, Scanning
  <2> QED BY <2>3, <2>4
<1>10. CASE UNCHANGED <<members, drain, max_connections, requestVars>>
  BY <1>1, <1>10, StableUnchanged
<1> QED
  BY <1>3, <1>4, <1>5, <1>6, <1>7, <1>8, <1>9, <1>10
  DEF Next, Select, DialFail, Finish, Disconnect, Counted, HealthStore, ReloadStart, ReloadFinish

-----------------------------------------------------------------------------
(* The counters stay exact.                                                *)
LEMMA HoldersSame ==
    ASSUME \A r \in Request : (pc'[r] \in Counted <=> pc[r] \in Counted)
                              /\ (pc[r] \in Counted => best'[r] = best[r])
    PROVE  \A b : Holders(b)' = Holders(b)
BY DEF Holders

LEMMA CountStep ==
    ASSUME IInv, [Next]_vars
    PROVE  CountExact'
<1> USE DEF vars, groupVars, configVars, applyVars, requestVars, scanVars
<1>1. TypeOK /\ RequestShape /\ CountExact
  BY DEF IInv
<1>2. ASSUME NEW r \in Request, ConnectionGuardNew(r) PROVE CountExact'
  <2>1. PICK b \in Bid : b = best[r]
    BY <1>1, <1>2 DEF ConnectionGuardNew, RequestShape, TypeOK
  <2>2. pc'[r] \in Counted /\ pc[r] \notin Counted /\ best' = best
    BY <1>1, <1>2 DEF ConnectionGuardNew, TypeOK, Counted, Chosen
  <2>3. \A x \in Request : x # r => pc'[x] = pc[x]
    BY <1>1, <1>2 DEF ConnectionGuardNew, TypeOK
  <2>4. Holders(b)' = Holders(b) \cup {r} /\ r \notin Holders(b)
    BY <2>1, <2>2, <2>3 DEF Holders
  <2>5. \A d : d # b => Holders(d)' = Holders(d)
    BY <2>1, <2>2, <2>3 DEF Holders
  <2>6. Cardinality(Holders(b)') = Cardinality(Holders(b)) + 1
    BY <2>4, HoldersFinite, FS_AddElement
  <2>7. active_connections' = [active_connections EXCEPT ![b] = active_connections[b] + 1]
    BY <1>2, <2>1 DEF ConnectionGuardNew
  <2>8. ASSUME NEW d \in Bid PROVE active_connections'[d] = Cardinality(Holders(d)')
    BY <1>1, <2>1, <2>5, <2>6, <2>7 DEF CountExact, TypeOK
  <2> QED BY <2>8 DEF CountExact
<1>3. ASSUME NEW r \in Request, pc[r] \in Counted, GuardDrop(r) PROVE CountExact'
  <2>1. PICK b \in Bid : b = best[r]
    BY <1>1, <1>3 DEF RequestShape, TypeOK
  <2>2. pc'[r] \notin Counted
    BY <1>1, <1>3 DEF GuardDrop, TypeOK, Counted
  <2>3. \A x \in Request : x # r => pc'[x] = pc[x] /\ best'[x] = best[x]
    BY <1>1, <1>3 DEF GuardDrop, TypeOK
  <2>4. Holders(b)' = Holders(b) \ {r} /\ r \in Holders(b)
    BY <1>3, <2>1, <2>2, <2>3 DEF Holders
  <2>5. \A d : d # b => Holders(d)' = Holders(d)
    BY <2>1, <2>2, <2>3 DEF Holders
  <2>6. Cardinality(Holders(b)') = Cardinality(Holders(b)) - 1
    BY <2>4, HoldersFinite, FS_RemoveElement
  <2>7. active_connections' = [active_connections EXCEPT ![b] = active_connections[b] - 1]
    BY <1>3, <2>1 DEF GuardDrop
  <2>8. ASSUME NEW d \in Bid PROVE active_connections'[d] = Cardinality(Holders(d)')
    BY <1>1, <2>1, <2>5, <2>6, <2>7 DEF CountExact, TypeOK
  <2> QED BY <2>8 DEF CountExact
<1>4. ASSUME ApplyRoute PROVE CountExact'
  <2>1. PICK new \in SUBSET FreeBackends :
          active_connections' = [b \in Bid |-> IF b \in new THEN 0 ELSE active_connections[b]]
    BY <1>1, <1>4, ApplyFacts
  <2>2. \A b : Holders(b)' = Holders(b)
    BY <1>4, HoldersSame DEF ApplyRoute
  <2>3. \A b \in new : Holders(b) = {}
    BY FreshBackends DEF Holders
  <2> QED BY <1>1, <2>1, <2>2, <2>3, FS_EmptySet DEF CountExact
<1>5. ASSUME UNCHANGED active_connections,
             \A r \in Request : (pc'[r] \in Counted <=> pc[r] \in Counted)
                                /\ (pc[r] \in Counted => best'[r] = best[r])
      PROVE  CountExact'
  BY <1>1, <1>5, HoldersSame DEF CountExact
<1>6. ASSUME NEW r \in Request, NEW h \in Host, FindGroup(r, h) PROVE CountExact'
  BY <1>1, <1>5, <1>6 DEF FindGroup, TypeOK, Counted
<1>7. ASSUME NEW r \in Request, Select(r) PROVE CountExact'
  <2>1. UNCHANGED active_connections
    BY <1>7 DEF Select, SelectBegin, SelectFlags, SelectCount, SelectEnd
  <2>2. pc[r] \notin Counted
    BY <1>7 DEF Select, SelectBegin, SelectFlags, SelectCount, SelectEnd, Counted
  <2>3. pc'[r] \notin Counted
    BY <1>1, <1>7 DEF Select, SelectBegin, SelectFlags, SelectCount, SelectEnd, TypeOK,
                      Counted, Chosen
  <2>4. \A x \in Request : x # r => pc'[x] = pc[x] /\ best'[x] = best[x]
    BY <1>1, <1>7 DEF Select, SelectBegin, SelectFlags, SelectCount, SelectEnd, TypeOK
  <2> QED BY <1>5, <2>1, <2>2, <2>3, <2>4
<1>8. ASSUME NEW r \in Request, UpgradeFail(r) PROVE CountExact'
  BY <1>1, <1>5, <1>8 DEF UpgradeFail, TypeOK, Counted
<1>9. ASSUME NEW r \in Request, DialOk(r) PROVE CountExact'
  BY <1>1, <1>5, <1>9 DEF DialOk, TypeOK, Counted
<1>10. CASE UNCHANGED <<active_connections, requestVars>>
  BY <1>5, <1>10
<1> QED
  BY <1>2, <1>3, <1>4, <1>6, <1>7, <1>8, <1>9, <1>10
  DEF Next, DialFail, Finish, Disconnect, Counted, HealthStore, ReloadStart, ReloadFinish

-----------------------------------------------------------------------------
(* The theorems.                                                           *)

(* The inductive invariant holds in every reachable state.                 *)
THEOREM Invariance == Spec => []IInv
<1>1. Init => IInv
  BY InitInv
<1>2. IInv /\ [Next]_vars => IInv'
  BY TypeStep, ShapeStep, DisjointStep, ScanStep, CountStep DEF IInv
<1> QED BY <1>1, <1>2, PTL DEF Spec

(* Every variable keeps its type; the counters, unsigned in the code, do   *)
(* not wrap below zero.                                                    *)
THEOREM TypeCorrect == Spec => []TypeOK
<1>1. IInv => TypeOK
  BY DEF IInv
<1> QED BY <1>1, Invariance, PTL

(* The counter of a backend is at every moment the number of its guards.   *)
THEOREM CountersExact == Spec => []CountExact
<1>1. IInv => CountExact
  BY DEF IInv
<1> QED BY <1>1, Invariance, PTL

(* A reload never changes the list, a limit or a drain flag under a scan.  *)
THEOREM ScansStable == Spec => []ScanIsStable
<1>1. IInv => ScanIsStable
  BY DEF IInv
<1> QED BY <1>1, Invariance, PTL

-----------------------------------------------------------------------------
(* Who may come to refer to a backend: only a request that counts it in a  *)
(* scan, and a scan never counts a drained one.                            *)
LEMMA NewUser ==
    ASSUME IInv, [Next]_vars, NEW b \in Bid, NEW r \in Users(b)', r \notin Users(b)
    PROVE  ~drain[b]
<1> USE DEF vars, groupVars, configVars, applyVars, requestVars, scanVars
<1>1. TypeOK /\ RequestShape /\ ScanIsStable /\ r \in Request
  BY DEF IInv, Users
<1>2. best'[r] = b /\ best[r] # b /\ b # NoBackend
  BY IdentityAssumption DEF Users
<1>3. SelectCount(r) /\ b = Current(r)
  <2>1. \A q \in Request : UpgradeFail(q) \/ GuardDrop(q) => best'[r] \in {best[r], NoBackend}
    BY <1>1 DEF UpgradeFail, GuardDrop, TypeOK
  <2>2. \A q \in Request : SelectCount(q) => /\ best'[r] # best[r] => q = r
                                             /\ best'[r] \in {best[r], Current(q)}
    BY <1>1 DEF SelectCount, TypeOK
  <2> QED BY <1>2, <2>1, <2>2
      DEF Next, Select, FindGroup, SelectBegin, SelectFlags, SelectEnd, ConnectionGuardNew,
          DialOk, DialFail, Finish, Disconnect, HealthStore, ReloadStart, ApplyRoute, ReloadFinish
<1> QED BY <1>1, <1>3 DEF SelectCount, ScanIsStable

(* A drained backend is never chosen again: its users only leave.          *)
THEOREM DrainTheorem == Spec => DrainClosesDoor
<1>1. IInv /\ [Next]_vars
        => [\A b \in Bid : drain[b] /\ drain'[b] => Users(b)' \subseteq Users(b)]_vars
  BY NewUser
<1> QED BY <1>1, Invariance, PTL DEF Spec, DrainClosesDoor

-----------------------------------------------------------------------------
(* Balancer implements Admission, for every value of the constants.        *)
Admitted == Chosen \cup Counted
user == [r \in Request |-> IF pc[r] \in Admitted THEN best[r] ELSE NoBackend]
connected == {r \in Request : pc[r] \in Counted}
closed == {b \in Bid : drain[b]}

LEMMA PromiseInit == ASSUME Init PROVE Promise!Init
<1>1. \A r \in Request : pc[r] = "idle" /\ best[r] = NoBackend
  BY DEF Init
<1>2. active_connections = [b \in Bid |-> 0]
  BY DEF Init
<1> QED BY <1>1, <1>2 DEF Promise!Init, Chosen, Counted

(* A step that leaves the admitted requests, the drain flags and the       *)
(* counters alone is a step of nobody in Admission.                        *)
LEMMA PromiseStutters ==
    ASSUME UNCHANGED <<drain, active_connections>>,
           \A r \in Request :
             /\ pc'[r] \in Admitted <=> pc[r] \in Admitted
             /\ pc'[r] \in Counted <=> pc[r] \in Counted
             /\ pc[r] \in Admitted => best'[r] = best[r]
    PROVE  UNCHANGED Promise!vars
<1>1. user' = user
  BY DEF user, Admitted
<1>2. connected' = connected /\ closed' = closed
  BY DEF connected, closed
<1> QED BY <1>1, <1>2 DEF Promise!vars, user, connected, closed, Admitted

(* When one request moves, what Admission sees of the others stays.        *)
LEMMA OthersStay ==
    ASSUME TypeOK, NEW r \in Request, UNCHANGED drain,
           \A x \in Request \ {r} : pc'[x] = pc[x] /\ best'[x] = best[x],
           NEW b, b = IF pc'[r] \in Admitted THEN best'[r] ELSE NoBackend
    PROVE  /\ user' = [user EXCEPT ![r] = b]
           /\ connected' = IF pc'[r] \in Counted THEN connected \cup {r} ELSE connected \ {r}
           /\ closed' = closed
<1>1. user' = [user EXCEPT ![r] = b]
  BY DEF user, Admitted
<1>2. CASE pc'[r] \in Counted
  BY <1>1, <1>2 DEF connected, closed
<1>3. CASE pc'[r] \notin Counted
  BY <1>1, <1>3 DEF connected, closed
<1> QED BY <1>2, <1>3

LEMMA PromiseStep ==
    ASSUME IInv, [Next]_vars
    PROVE  [Promise!Next]_(Promise!vars)
<1> USE DEF vars, groupVars, configVars, applyVars, requestVars, scanVars
<1>1. TypeOK /\ RequestShape /\ ScanIsStable /\ CountExact
  BY DEF IInv
<1>2. ASSUME NEW r \in Request, SelectEnd(r) PROVE [Promise!Next]_(Promise!vars)
  <2>1. pc[r] = "scan" /\ UNCHANGED <<drain, active_connections, best>>
    BY <1>2 DEF SelectEnd
  <2>2. \A x \in Request \ {r} : pc'[x] = pc[x]
    BY <1>1, <1>2 DEF SelectEnd, TypeOK
  <2>3. CASE best[r] = NoBackend
    <3>1. pc'[r] = "idle"
      BY <1>1, <1>2, <2>3 DEF SelectEnd, TypeOK
    <3>2. UNCHANGED Promise!vars
      BY <2>1, <2>2, <3>1, PromiseStutters DEF Admitted, Chosen, Counted
    <3> QED BY <3>2
  <2>4. CASE best[r] # NoBackend
    <3>1. pc'[r] \in Chosen
      BY <1>1, <1>2, <2>4 DEF SelectEnd, TypeOK, Chosen
    <3>2. PICK b \in Bid : b = best[r] /\ ~drain[b]
      BY <1>1, <2>1, <2>4 DEF TypeOK, ScanIsStable, Scanning
    <3>3. pc'[r] \in Admitted /\ pc'[r] \notin Counted /\ best'[r] = b
      BY <2>1, <3>1, <3>2 DEF Admitted, Chosen, Counted
    <3>4. user' = [user EXCEPT ![r] = b] /\ connected' = connected \ {r} /\ closed' = closed
      BY <1>1, <2>1, <2>2, <3>3, OthersStay
    <3>5. user[r] = NoBackend /\ r \notin connected /\ b \notin closed
      BY <2>1, <3>2 DEF user, connected, closed, Admitted, Chosen, Counted
    <3>6. Promise!Admit(r, b)
      BY <2>1, <3>4, <3>5 DEF Promise!Admit, user, connected, closed, Admitted
    <3> QED BY <3>6 DEF Promise!Next
  <2> QED BY <2>3, <2>4
<1>3. ASSUME NEW r \in Request, ConnectionGuardNew(r) PROVE [Promise!Next]_(Promise!vars)
  <2>1. PICK b \in Bid : b = best[r] /\ b # NoBackend
    BY <1>1, <1>3 DEF ConnectionGuardNew, RequestShape, TypeOK
  <2>2. /\ pc[r] \in Admitted /\ pc[r] \notin Counted
        /\ pc'[r] \in Counted /\ pc'[r] \in Admitted
        /\ best' = best /\ drain' = drain
    BY <1>1, <1>3 DEF ConnectionGuardNew, TypeOK, Admitted, Chosen, Counted
  <2>3. \A x \in Request \ {r} : pc'[x] = pc[x] /\ best'[x] = best[x]
    BY <1>1, <1>3 DEF ConnectionGuardNew, TypeOK
  <2>4. user' = [user EXCEPT ![r] = b] /\ connected' = connected \cup {r} /\ closed' = closed
    BY <1>1, <2>1, <2>2, <2>3, OthersStay
  <2>5. user[r] = b /\ r \notin connected
    BY <2>1, <2>2 DEF user, connected
  <2>6. user' = user
    BY <2>4, <2>5 DEF user
  <2>7. active_connections' = [active_connections EXCEPT ![user[r]] = @ + 1]
    BY <1>3, <2>1, <2>5 DEF ConnectionGuardNew
  <2>8. Promise!Connect(r)
    BY <2>1, <2>4, <2>5, <2>6, <2>7 DEF Promise!Connect, user, connected, closed, Admitted
  <2> QED BY <2>8 DEF Promise!Next
<1>4. ASSUME NEW r \in Request, UpgradeFail(r) PROVE [Promise!Next]_(Promise!vars)
  <2>1. PICK b \in Bid : b = best[r] /\ b # NoBackend
    BY <1>1, <1>4 DEF UpgradeFail, RequestShape, TypeOK, Chosen
  <2>2. /\ pc[r] \in Admitted /\ pc[r] \notin Counted
        /\ pc'[r] \notin Counted /\ pc'[r] \notin Admitted
        /\ drain' = drain /\ active_connections' = active_connections
    BY <1>1, <1>4 DEF UpgradeFail, TypeOK, Admitted, Chosen, Counted
  <2>3. \A x \in Request \ {r} : pc'[x] = pc[x] /\ best'[x] = best[x]
    BY <1>1, <1>4 DEF UpgradeFail, TypeOK
  <2>4. user' = [user EXCEPT ![r] = NoBackend] /\ connected' = connected \ {r} /\ closed' = closed
    BY <1>1, <2>2, <2>3, OthersStay
  <2>5. user[r] = b /\ r \notin connected
    BY <2>1, <2>2 DEF user, connected
  <2>6. connected' = connected
    BY <2>4, <2>5
  <2>7. Promise!GiveUp(r)
    BY <2>1, <2>2, <2>4, <2>5, <2>6 DEF Promise!GiveUp, user, connected, closed, Admitted
  <2> QED BY <2>7 DEF Promise!Next
<1>5. ASSUME NEW r \in Request, pc[r] \in Counted, GuardDrop(r)
      PROVE  [Promise!Next]_(Promise!vars)
  <2>1. /\ pc'[r] \notin Counted /\ pc'[r] \notin Admitted /\ pc[r] \in Admitted
        /\ drain' = drain
    BY <1>1, <1>5 DEF GuardDrop, TypeOK, Admitted, Chosen, Counted
  <2>2. \A x \in Request \ {r} : pc'[x] = pc[x] /\ best'[x] = best[x]
    BY <1>1, <1>5 DEF GuardDrop, TypeOK
  <2>3. user' = [user EXCEPT ![r] = NoBackend] /\ connected' = connected \ {r} /\ closed' = closed
    BY <1>1, <2>1, <2>2, OthersStay
  <2>4. user[r] = best[r] /\ r \in connected
    BY <1>5, <2>1 DEF user, connected
  <2>5. active_connections' = [active_connections EXCEPT ![user[r]] = @ - 1]
    BY <1>5, <2>4 DEF GuardDrop
  <2>6. Promise!Release(r)
    BY <2>3, <2>4, <2>5 DEF Promise!Release, user, connected, closed, Admitted
  <2> QED BY <2>6 DEF Promise!Next
<1>6. ASSUME ApplyRoute PROVE [Promise!Next]_(Promise!vars)
  <2>1. PICK new \in SUBSET FreeBackends :
          active_connections' = [b \in Bid |-> IF b \in new THEN 0 ELSE active_connections[b]]
    BY <1>1, <1>6, ApplyFacts
  <2>2. \A b \in Bid : b \in new => active_connections[b] = 0
    <3>1. \A b \in new : Holders(b) = {}
      BY FreshBackends DEF Holders
    <3> QED BY <1>1, <3>1, FS_EmptySet DEF CountExact
  <2>3. active_connections' = active_connections
    BY <1>1, <2>1, <2>2 DEF TypeOK
  <2>4. user' = user /\ connected' = connected
    BY <1>6 DEF ApplyRoute, user, connected
  <2>5. closed' \in SUBSET Bid
    BY DEF closed
  <2>6. Promise!Configure
    BY <2>3, <2>4, <2>5 DEF Promise!Configure, user, connected, closed, Admitted
  <2> QED BY <2>6 DEF Promise!Next
<1>7. ASSUME NEW r \in Request, NEW h \in Host, FindGroup(r, h) PROVE UNCHANGED Promise!vars
  <2>1. UNCHANGED <<drain, active_connections, best>>
    BY <1>7 DEF FindGroup
  <2>2. \A x \in Request : /\ pc'[x] \in Admitted <=> pc[x] \in Admitted
                           /\ pc'[x] \in Counted <=> pc[x] \in Counted
    BY <1>1, <1>7 DEF FindGroup, TypeOK, Admitted, Chosen, Counted
  <2> QED BY <2>1, <2>2, PromiseStutters
<1>8. ASSUME NEW r \in Request, SelectBegin(r) \/ SelectFlags(r) \/ SelectCount(r)
      PROVE  UNCHANGED Promise!vars
  <2>1. UNCHANGED <<drain, active_connections>>
    BY <1>8 DEF SelectBegin, SelectFlags, SelectCount
  <2>2. pc[r] \notin Admitted /\ pc'[r] \notin Admitted
    BY <1>1, <1>8 DEF SelectBegin, SelectFlags, SelectCount, TypeOK, Admitted, Chosen, Counted
  <2>3. \A x \in Request : x # r => pc'[x] = pc[x] /\ best'[x] = best[x]
    BY <1>1, <1>8 DEF SelectBegin, SelectFlags, SelectCount, TypeOK
  <2>4. Counted \subseteq Admitted
    BY DEF Admitted
  <2> QED BY <2>1, <2>2, <2>3, <2>4, PromiseStutters
<1>9. ASSUME NEW r \in Request, DialOk(r) PROVE UNCHANGED Promise!vars
  <2>1. UNCHANGED <<drain, active_connections, best>>
    BY <1>9 DEF DialOk
  <2>2. \A x \in Request : /\ pc'[x] \in Admitted <=> pc[x] \in Admitted
                           /\ pc'[x] \in Counted <=> pc[x] \in Counted
    BY <1>1, <1>9 DEF DialOk, TypeOK, Admitted, Chosen, Counted
  <2> QED BY <2>1, <2>2, PromiseStutters
<1>10. CASE UNCHANGED <<drain, active_connections, requestVars>>
  BY <1>10, PromiseStutters
<1> QED
  BY <1>2, <1>3, <1>4, <1>5, <1>6, <1>7, <1>8, <1>9, <1>10
  DEF Next, Select, DialFail, Finish, Disconnect, Counted, HealthStore, ReloadStart, ReloadFinish

(* Every behaviour of the balancer, with all its scans, reloads, health    *)
(* checks and failures, is a behaviour of the abstract promise.            *)
THEOREM Refinement == Spec => ImplementsAdmission
<1>1. Init => Promise!Init
  BY PromiseInit
<1>2. IInv /\ [Next]_vars => [Promise!Next]_(Promise!vars)
  BY PromiseStep
<1> QED BY <1>1, <1>2, Invariance, PTL DEF Spec, ImplementsAdmission, Promise!Spec
=============================================================================
