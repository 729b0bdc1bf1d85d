--------------------------- MODULE RegistryProofs ---------------------------
(***************************************************************************)
(* Theorems about the registry that Balancer models, for any configuration *)
(* and any headers: a request goes where the documentation sends it, the   *)
(* table is the configuration in force, and - with the history variables   *)
(* of BalancerHistory - what a whole scan and a whole reload promise.      *)
(***************************************************************************)
EXTENDS BalancerHistory, BalancerProofs

-----------------------------------------------------------------------------
(* HostMatch: what find_group compares is what the documentation says.     *)

LEMMA LowerIsSeq ==
    ASSUME NEW s \in Seq(Label)
    PROVE  /\ Lower(s) \in Seq(Label) /\ Len(Lower(s)) = Len(s)
           /\ \A k \in 1 .. Len(s) : Lower(s)[k] = LowerCase[s[k]]
<1>1. DOMAIN s = 1 .. Len(s) /\ Len(s) \in Nat /\ \A k \in 1 .. Len(s) : s[k] \in Label
  OBVIOUS
<1>2. Lower(s) \in [1 .. Len(s) -> Label]
  BY <1>1, LabelAssumption DEF Lower
<1>3. Lower(s) \in Seq(Label) /\ Len(Lower(s)) = Len(s)
  BY <1>1, <1>2
<1> QED BY <1>1, <1>3 DEF Lower

LEMMA TailOfSeq ==
    ASSUME NEW s \in Seq(Label), Len(s) > 1
    PROVE  /\ Tail(s) \in Seq(Label) /\ Len(Tail(s)) = Len(s) - 1
           /\ Len(Tail(s)) \in Nat \ {0}
<1>1. Len(s) \in Nat /\ s # <<>>
  OBVIOUS
<1>2. Tail(s) \in Seq(Label) /\ Len(Tail(s)) = Len(s) - 1
  BY <1>1
<1> QED BY <1>1, <1>2

\* A name in two parts, folded, is another name folded.
LEMMA LowerOfConcat ==
    ASSUME NEW s \in Seq(Label), NEW t \in Seq(Label), NEW m \in 1 .. Len(s), t # <<>>
    PROVE  Lower(SubSeq(s, 1, m) \o t) = Lower(s)
             <=> /\ Len(s) = m + Len(t)
                 /\ \A k \in 1 .. Len(t) : LowerCase[s[m + k]] = LowerCase[t[k]]
<1> DEFINE u == SubSeq(s, 1, m)
           c == u \o t
<1>1. /\ Len(s) \in Nat /\ Len(t) \in Nat /\ m \in Nat
      /\ u \in Seq(Label) /\ Len(u) = m /\ \A k \in 1 .. m : u[k] = s[k]
  OBVIOUS
<1> HIDE DEF u
<1>2. /\ c \in Seq(Label) /\ Len(c) = m + Len(t)
      /\ \A k \in 1 .. m : c[k] = s[k]
      /\ \A k \in 1 .. Len(t) : c[m + k] = t[k]
  BY <1>1
<1> HIDE DEF c
<1>3. ASSUME Lower(c) = Lower(s)
      PROVE  /\ Len(s) = m + Len(t)
             /\ \A k \in 1 .. Len(t) : LowerCase[s[m + k]] = LowerCase[t[k]]
  <2>1. Len(s) = m + Len(t)
    BY <1>2, <1>3, LowerIsSeq
  <2>2. ASSUME NEW k \in 1 .. Len(t) PROVE LowerCase[s[m + k]] = LowerCase[t[k]]
    <3>1. m + k \in 1 .. Len(s)
      BY <1>1, <2>1
    <3>2. Lower(s)[m + k] = LowerCase[s[m + k]]
      BY <3>1, LowerIsSeq
    <3>3. m + k \in 1 .. Len(c)
      BY <1>2, <2>1, <3>1
    <3>4. Lower(c)[m + k] = LowerCase[c[m + k]]
      BY <1>2, <3>3, LowerIsSeq
    <3> QED BY <1>2, <1>3, <3>2, <3>4
  <2> QED BY <2>1, <2>2
<1>4. ASSUME Len(s) = m + Len(t),
             \A k \in 1 .. Len(t) : LowerCase[s[m + k]] = LowerCase[t[k]]
      PROVE  Lower(c) = Lower(s)
  <2>1. ASSUME NEW k \in 1 .. Len(s) PROVE Lower(c)[k] = Lower(s)[k]
    <3>1. Lower(s)[k] = LowerCase[s[k]] /\ Lower(c)[k] = LowerCase[c[k]]
      BY <1>2, <1>4, LowerIsSeq
    <3>2. CASE k <= m
      BY <1>1, <1>2, <3>1, <3>2
    <3>3. CASE k > m
      <4>1. k - m \in 1 .. Len(t) /\ m + (k - m) = k
        BY <1>1, <1>4, <3>3
      <4> QED BY <1>2, <1>4, <3>1, <4>1
    <3> QED BY <1>1, <3>2, <3>3
  <2>2. Lower(c) \in Seq(Label) /\ Lower(s) \in Seq(Label) /\ Len(Lower(c)) = Len(Lower(s))
        /\ Len(Lower(s)) = Len(s)
    BY <1>2, <1>4, LowerIsSeq
  <2> QED BY <2>1, <2>2
<1> QED BY <1>3, <1>4 DEF c, u

\* A route matches in find_group what it covers in the documentation.
LEMMA CoversIsMatch ==
    ASSUME NEW p \in Pattern, NEW h \in Host
    PROVE  Covers(p, h) <=> MatchesExact(h, p) \/ MatchesWildcard(h, p)
<1>1. p \in Seq(Label) /\ h.name \in Seq(Label) /\ h.name # <<>>
  BY HostAssumption
<1>2. CASE ~IsWildcard(p)
  BY <1>2 DEF Covers, MatchesExact, MatchesWildcard, HostMatchExact, HostMatchWildcard, Fold
<1>3. CASE IsWildcard(p)
  <2> DEFINE s == h.name
             t == Tail(p)
  <2>1. t \in Seq(Label) /\ Len(t) \in Nat \ {0} /\ t # <<>> /\ s \in Seq(Label)
        /\ Len(s) \in Nat
    BY <1>1, <1>3, TailOfSeq DEF IsWildcard
  <2>2. Covers(p, h) <=> ~Rejected(p) /\ \E m \in 1 .. Len(s) - 1 :
                            Lower(SubSeq(s, 1, m) \o t) = Lower(s)
    BY <1>3 DEF Covers
  <2>3. MatchesExact(h, p) \/ MatchesWildcard(h, p)
          <=> ~Rejected(p) /\ EndsWith(Lower(s), Lower(t))
    BY <1>3 DEF MatchesExact, MatchesWildcard, HostMatchExact, HostMatchWildcard, Fold, Suffix
  <2> HIDE DEF s, t
  <2>4. EndsWith(Lower(s), Lower(t)) <=>
          /\ Len(s) > Len(t)
          /\ \A k \in 1 .. Len(t) : LowerCase[s[Len(s) - Len(t) + k]] = LowerCase[t[k]]
    <3>1. Len(Lower(s)) = Len(s) /\ Len(Lower(t)) = Len(t) /\ DOMAIN Lower(t) = 1 .. Len(t)
      BY <2>1, LowerIsSeq
    <3>2. ASSUME Len(s) > Len(t), NEW k \in 1 .. Len(t)
          PROVE  /\ Lower(s)[Len(s) - Len(t) + k] = LowerCase[s[Len(s) - Len(t) + k]]
                 /\ Lower(t)[k] = LowerCase[t[k]]
      <4>1. Len(s) - Len(t) + k \in 1 .. Len(s)
        BY <2>1, <3>2
      <4> QED BY <2>1, <4>1, LowerIsSeq
    <3> QED BY <3>1, <3>2 DEF EndsWith
  <2>5. ASSUME NEW m \in 1 .. Len(s) - 1
        PROVE  Lower(SubSeq(s, 1, m) \o t) = Lower(s)
                 <=> /\ m = Len(s) - Len(t)
                     /\ \A k \in 1 .. Len(t) : LowerCase[s[m + k]] = LowerCase[t[k]]
    <3>1. m \in 1 .. Len(s)
      BY <2>1
    <3>2. Len(s) = m + Len(t) <=> m = Len(s) - Len(t)
      BY <2>1
    <3> QED BY <2>1, <3>1, <3>2, LowerOfConcat
  <2>6. Len(s) > Len(t) => Len(s) - Len(t) \in 1 .. Len(s) - 1
    BY <2>1
  <2>7. \A m \in 1 .. Len(s) - 1 : m = Len(s) - Len(t) => Len(s) > Len(t)
    BY <2>1
  <2> QED BY <2>2, <2>3, <2>4, <2>5, <2>6, <2>7
<1> QED BY <1>2, <1>3

-----------------------------------------------------------------------------
(* find_group: the index it returns is that of a best route.               *)

\* max_by_key finds a maximum.
LEMMA LongestExists ==
    ASSUME TypeOK, NEW h \in Host, WildcardAt(h) # {}
    PROVE  Longest(h) # {}
<1> DEFINE len(k) == Len(Suffix(host[groups[k]]))
           n == Len(Fold(h))
           T == {n - len(k) : k \in WildcardAt(h)}
<1>1. ASSUME NEW k \in WildcardAt(h)
      PROVE  len(k) \in Nat /\ n \in Nat /\ n - len(k) \in Nat
  <2>1. k \in DOMAIN groups /\ MatchesWildcard(h, host[groups[k]])
    BY DEF WildcardAt
  <2> DEFINE p == host[groups[k]]
  <2>2. p \in Pattern
    BY <2>1 DEF TypeOK
  <2>3. p \in Seq(Label) /\ h.name \in Seq(Label)
    BY <2>2, HostAssumption
  <2>4. IsWildcard(p) /\ EndsWith(Fold(h), Suffix(p))
    BY <2>1 DEF MatchesWildcard, HostMatchWildcard
  <2>5. Suffix(p) \in Seq(Label) /\ Fold(h) \in Seq(Label)
    BY <2>3, <2>4, TailOfSeq, LowerIsSeq DEF IsWildcard, Suffix, Fold
  <2>6. n > len(k)
    BY <2>4 DEF EndsWith
  <2>7. n \in Nat /\ len(k) \in Nat
    BY <2>5
  <2> QED BY <2>6, <2>7
<1> HIDE DEF len, n
<1>2. T \subseteq Nat /\ T # {}
  BY <1>1
<1>3. PICK t \in T : \A u \in T : t <= u
  BY <1>2, SmallestIn
<1>4. PICK k \in WildcardAt(h) : t = n - len(k)
  BY <1>3
<1>5. ASSUME NEW j \in WildcardAt(h) PROVE len(j) <= len(k)
  <2>1. n - len(k) <= n - len(j)
    BY <1>3, <1>4
  <2> QED BY <1>1, <2>1
<1> QED BY <1>5 DEF Longest, len

\* What the two kinds of a route mean for its suffix.
LEMMA WildcardLength ==
    ASSUME NEW p \in Pattern, NEW q \in Pattern, IsWildcard(p), IsWildcard(q),
           Len(Suffix(q)) <= Len(Suffix(p))
    PROVE  ~Beats(q, p)
<1>1. p \in Seq(Label) /\ q \in Seq(Label)
  BY HostAssumption
<1>2. ASSUME NEW s \in {p, q}
      PROVE  Len(Suffix(s)) = Len(s) - 1 /\ Len(s) \in Nat
  <2>1. s \in Seq(Label) /\ Len(s) > 1 /\ Len(s) \in Nat
    BY <1>1 DEF IsWildcard
  <2>2. Tail(s) \in Seq(Label) /\ Len(Tail(s)) = Len(s) - 1
    BY <2>1, TailOfSeq
  <2>3. Len(Lower(Tail(s))) = Len(Tail(s))
    BY <2>2, LowerIsSeq
  <2> QED BY <2>1, <2>2, <2>3 DEF Suffix
<1> QED BY <1>2 DEF Beats

LEMMA LookupIsBest ==
    ASSUME TypeOK, NEW h \in Host,
           NEW routes, routes = {host[groups[k]] : k \in DOMAIN groups}
    PROVE  /\ \A k \in Lookup(h) : host[groups[k]] \in Best(h, routes)
           /\ Lookup(h) = {} => \A p \in routes : ~Covers(p, h)
<1>1. /\ DOMAIN groups = 1 .. Len(groups) /\ Len(groups) \in Nat
      /\ \A k \in DOMAIN groups : host[groups[k]] \in Pattern
  BY DEF TypeOK
<1>2. ExactAt(h) \subseteq DOMAIN groups /\ Longest(h) \subseteq WildcardAt(h)
      /\ WildcardAt(h) \subseteq DOMAIN groups /\ DOMAIN groups \subseteq Nat
  BY <1>1 DEF ExactAt, WildcardAt, Longest
<1>3. \A k \in DOMAIN groups :
        Covers(host[groups[k]], h) <=> k \in ExactAt(h) \/ k \in WildcardAt(h)
  BY <1>1, CoversIsMatch DEF ExactAt, WildcardAt
<1>4. \A k \in DOMAIN groups : /\ k \in ExactAt(h) => ~IsWildcard(host[groups[k]])
                               /\ k \in WildcardAt(h) => IsWildcard(host[groups[k]])
  BY DEF ExactAt, WildcardAt, MatchesExact, MatchesWildcard, HostMatchExact, HostMatchWildcard
<1>5. CASE ExactAt(h) # {}
  <2> DEFINE f == FirstIndex(ExactAt(h))
  <2>1. f \in ExactAt(h)
    BY <1>2, <1>5, FirstIndexIn
  <2>2. Lookup(h) = {f}
    BY <1>2, <1>5, <2>1 DEF Lookup
  <2>3. Covers(host[groups[f]], h) /\ ~IsWildcard(host[groups[f]]) /\ host[groups[f]] \in routes
    BY <1>2, <1>3, <1>4, <2>1
  <2>4. \A q : ~Beats(q, host[groups[f]])
    BY <2>3 DEF Beats
  <2> QED BY <2>2, <2>3, <2>4 DEF Best
<1>6. CASE ExactAt(h) = {} /\ WildcardAt(h) # {}
  <2> DEFINE f == LastIndex(Longest(h))
  <2>1. Longest(h) # {}
    BY <1>6, LongestExists
  <2>2. f \in Longest(h) /\ f \in DOMAIN groups
    BY <1>1, <1>2, <2>1, LastIndexIn
  <2>3. Lookup(h) = {f}
    BY <1>6, <2>1, <2>2 DEF Lookup
  <2>4. Covers(host[groups[f]], h) /\ host[groups[f]] \in routes /\ f \in WildcardAt(h)
    BY <1>2, <1>3, <2>2
  <2>5. ASSUME NEW j \in DOMAIN groups, Covers(host[groups[j]], h)
        PROVE  ~Beats(host[groups[j]], host[groups[f]])
    <3>1. j \in WildcardAt(h)
      BY <1>3, <1>6, <2>5
    <3>2. Len(Suffix(host[groups[j]])) <= Len(Suffix(host[groups[f]]))
      BY <2>2, <3>1 DEF Longest
    <3>3. IsWildcard(host[groups[j]]) /\ IsWildcard(host[groups[f]])
      BY <1>4, <2>2, <2>4, <3>1
    <3> QED BY <1>1, <2>2, <3>2, <3>3, WildcardLength
  <2> QED BY <2>3, <2>4, <2>5 DEF Best
<1>7. CASE ExactAt(h) = {} /\ WildcardAt(h) = {}
  <2>1. \A p \in routes : ~Covers(p, h)
    BY <1>3, <1>7
  <2>2. Lookup(h) = {}
    BY <1>7 DEF Lookup, Longest
  <2> QED BY <2>1, <2>2
<1> QED BY <1>5, <1>6, <1>7
\* A request goes where the documentation sends it, and is a 404 only when no
\* route of the table covers its header (find_group).
THEOREM Routing == Spec => []RoutesAsDocumented
<1>1. TypeOK => RoutesAsDocumented
  BY LookupIsBest DEF RoutesAsDocumented
<1> QED BY <1>1, TypeCorrect, PTL
-----------------------------------------------------------------------------
(* apply_config: the table becomes the configuration.                      *)

\* While a reload runs, the groups built so far show their routes.
TableInv ==
    /\ route = 0 => built = <<>> /\ (Distinct(cfg) => cfg = [k \in DOMAIN groups |-> Shown(groups[k])])
    /\ route # 0 => /\ Len(built) = route - 1
                    /\ Distinct(cfg) => \A k \in DOMAIN built : Shown(built[k]) = cfg[k]

\* What that turn of the loop does with group g and leaves to the others: a
\* backend g lists keeps its place among the objects, others keep theirs.
Reuses(g) ==
    LET p == cfg[route].host IN
    /\ g \in Range(groups) => host[g] = p
    /\ GroupAt(p) # {} => g \in Range(groups)
    /\ g \notin Range(built)
    /\ host' = [host EXCEPT ![g] = p]
    /\ \A k \in DOMAIN members'[g] :
         LET b == members'[g][k] IN
         \/ \E j \in DOMAIN members[g] : b = members[g][j] /\ url[b] = url'[b]
         \/ g \in Range(groups) => \A j \in DOMAIN members[g] : url[members[g][j]] # url'[b]
    /\ \A q \in LiveGroups \ {g, NoGroup} :
         members'[q] = members[q] /\ \A b \in Range(members[q]) : url'[b] = url[b]

\* One turn of the loop: the group taken for a route shows that route, and no
\* group built before it shows anything else than it did.
LEMMA RouteApplied ==
    ASSUME IInv, ApplyRoute, Distinct(cfg), Len(built) = route - 1,
           \A k \in DOMAIN built : Shown(built[k]) = cfg[k]
    PROVE  \E g \in Gid :
             /\ built' = Append(built, g)
             /\ Shown(g)' = cfg[route]
             /\ \A k \in DOMAIN built : Shown(built[k])' = cfg[k]
             /\ Reuses(g)
<1> DEFINE p == cfg[route].host
           cs == cfg[route].backends
           List(g) == IF g \in Range(groups) THEN members[g] ELSE <<>>
<1>1. TypeOK /\ GroupsDisjoint
  BY DEF IInv
<1>2. /\ cfg \in Seq(RouteConfig) /\ route \in DOMAIN cfg /\ p \in Pattern
      /\ cs \in Seq(BackendConfig) /\ cfg[route] = [host |-> p, backends |-> cs]
  <2>1. cfg \in Seq(RouteConfig) /\ route \in DOMAIN cfg
    BY <1>1, ConfigAssumption DEF TypeOK, ApplyRoute
  <2>2. cfg[route] \in RouteConfig
    BY <2>1
  <2> QED BY <2>1, <2>2 DEF RouteConfig
<1>3. PICK g \in GroupFor(p) : \E fresh \in Allocation(Added(List(g), cs)) :
      /\ built' = Append(built, g)
      /\ host' = [host EXCEPT ![g] = p]
      /\ members' = [members EXCEPT ![g] = NewList(List(g), cs, fresh)]
      /\ Install(NewList(List(g), cs, fresh), cs, fresh)
  BY DEF ApplyRoute
<1> DEFINE old == List(g)
<1>4. PICK fresh \in Allocation(Added(old, cs)) :
      /\ built' = Append(built, g)
      /\ host' = [host EXCEPT ![g] = p]
      /\ members' = [members EXCEPT ![g] = NewList(old, cs, fresh)]
      /\ Install(NewList(old, cs, fresh), cs, fresh)
  BY <1>3
<1> DEFINE list == NewList(old, cs, fresh)
           last(b) == LastIndex({k \in DOMAIN list : list[k] = b})
<1>5. /\ g \in Gid /\ ((g \in Range(groups) /\ host[g] = p) \/ g \in FreeGroups)
      /\ GroupAt(p) # {} => g \in Range(groups)
  <2>1. CASE GroupAt(p) # {}
    <3>1. GroupAt(p) \subseteq DOMAIN groups /\ DOMAIN groups \subseteq Nat
      BY <1>1 DEF GroupAt, TypeOK
    <3>2. FirstIndex(GroupAt(p)) \in GroupAt(p)
      BY <2>1, <3>1, FirstIndexIn
    <3>3. g = groups[FirstIndex(GroupAt(p))]
      BY <1>3, <2>1 DEF GroupFor
    <3>4. host[g] = p /\ FirstIndex(GroupAt(p)) \in DOMAIN groups
      BY <3>2, <3>3 DEF GroupAt
    <3> QED BY <1>1, <3>3, <3>4, RangeOfSeq DEF TypeOK
  <2>2. CASE GroupAt(p) = {}
    <3>1. g \in AnyOf(FreeGroups)
      BY <1>3, <2>2 DEF GroupFor
    <3> QED BY <2>2, <3>1, AnyOfIn DEF FreeGroups
  <2> QED BY <2>1, <2>2
<1>6. ASSUME NEW k \in DOMAIN built PROVE built[k] \in Gid /\ built[k] # g /\ built[k] \in LiveGroups
  <2>1. built[k] \in Gid /\ built[k] \in LiveGroups
    BY <1>1, RangeOfSeq DEF TypeOK, LiveGroups
  <2>2. host[built[k]] = cfg[k].host
    <3>1. \A q \in Gid : Shown(q).host = host[q]
      BY DEF Shown
    <3> QED BY <2>1, <3>1
  <2>3. k \in DOMAIN cfg /\ k # route
    <3>1. DOMAIN built = 1 .. Len(built) /\ DOMAIN cfg = 1 .. Len(cfg) /\ route \in 1 .. Len(cfg)
          /\ Len(cfg) \in Nat
      BY <1>1, <1>2 DEF TypeOK
    <3> QED BY <3>1
  <2>4. cfg[k].host # p
    BY <1>2, <2>3 DEF Distinct
  <2> QED BY <1>5, <2>1, <2>2, <2>4 DEF FreeGroups
<1>7. old \in Seq(Bid) /\ DOMAIN old \subseteq Nat /\ (old # <<>> => g \in Range(groups) /\ old = members[g])
  BY <1>1, <1>5 DEF TypeOK
<1>8. Range(old) \subseteq LiveBackends
  <2>1. CASE g \in Range(groups)
    <3>1. g \in LiveGroups \ {NoGroup} /\ old = members[g]
      BY <1>5, <2>1, IdentityAssumption DEF LiveGroups
    <3> QED BY <3>1 DEF LiveBackends, Routable
  <2>2. CASE g \notin Range(groups)
    BY <2>2 DEF Range
  <2> QED BY <2>1, <2>2
<1>9. /\ fresh \in [Added(old, cs) -> FreeBackends]
      /\ \A j, k \in Added(old, cs) : fresh[j] = fresh[k] => j = k
  <2>1. fresh \in Injection(Added(old, cs), FreeBackends)
    BY <1>4, AnyOfIn DEF Allocation
  <2> HIDE DEF cs, old
  <2> QED BY <2>1 DEF Injection, IsInjective
<1> HIDE DEF p, cs, old
<1>10. DOMAIN list = DOMAIN cs /\ DOMAIN cs = 1 .. Len(cs) /\ Len(cs) \in Nat
       /\ Added(old, cs) \subseteq DOMAIN cs
  BY <1>2 DEF NewList, Added
<1>11. ASSUME NEW k \in Added(old, cs)
       PROVE  list[k] = fresh[k] /\ list[k] \in FreeBackends /\ list[k] \in Range(fresh)
  BY <1>9, <1>10 DEF NewList, Range
<1>12. ASSUME NEW k \in DOMAIN cs, k \notin Added(old, cs)
       PROVE  /\ list[k] \in Range(old) /\ list[k] \notin Range(fresh)
              /\ url[list[k]] = cs[k].url
  <2> DEFINE S == BackendAt(old, cs[k].url)
  <2>1. S # {} /\ S \subseteq DOMAIN old
    BY <1>12 DEF Added, BackendAt
  <2>2. FirstIndex(S) \in S
    BY <1>7, <2>1, FirstIndexIn
  <2>3. list[k] = old[FirstIndex(S)]
    BY <1>12 DEF NewList
  <2>4. list[k] \in Range(old) /\ url[list[k]] = cs[k].url
    BY <2>1, <2>2, <2>3 DEF BackendAt, Range
  <2>5. Range(fresh) \cap LiveBackends = {}
    BY <1>9 DEF Range, FreeBackends
  <2> QED BY <1>8, <2>4, <2>5
<1>13. ASSUME NEW j \in DOMAIN cs, NEW k \in DOMAIN cs, list[j] = list[k]
       PROVE  j = k
  <2>1. CASE j \in Added(old, cs) /\ k \in Added(old, cs)
    BY <1>9, <1>11, <1>13, <2>1
  <2>2. CASE j \notin Added(old, cs) /\ k \notin Added(old, cs)
    <3>1. cs[j].url = cs[k].url
      BY <1>12, <1>13, <2>2
    <3> QED BY <1>2, <3>1 DEF Distinct, cs
  <2>3. ~(j \in Added(old, cs) /\ k \notin Added(old, cs))
    BY <1>11, <1>12, <1>13
  <2>4. ~(j \notin Added(old, cs) /\ k \in Added(old, cs))
    BY <1>11, <1>12, <1>13
  <2> QED BY <2>1, <2>2, <2>3, <2>4
<1>14. ASSUME NEW k \in DOMAIN cs PROVE last(list[k]) = k /\ list[k] \in Bid /\ list[k] \in Range(list)
  <2>1. {m \in DOMAIN list : list[m] = list[k]} = {k}
    BY <1>10, <1>13
  <2>2. last(list[k]) \in {k}
    BY <1>10, <2>1, LastIndexIn
  <2>3. list[k] \in Bid
    BY <1>7, <1>11, <1>12, RangeOfSeq DEF FreeBackends
  <2> QED BY <1>10, <2>2, <2>3 DEF Range
<1> HIDE DEF list
<1>15. ASSUME NEW k \in DOMAIN cs
       PROVE  /\ url'[list[k]] = cs[k].url
              /\ max_connections'[list[k]] = cs[k].max_connections
              /\ drain'[list[k]] = cs[k].drain
  <2>1. list[k] \in Range(fresh) \/ url[list[k]] = cs[k].url
    BY <1>11, <1>12
  <2>2. Install(list, cs, fresh)
    BY <1>4 DEF list
  <2> QED BY <1>14, <2>1, <2>2 DEF Install, Updated
<1>16. Shown(g)' = cfg[route]
  <2>1. host'[g] = p /\ members'[g] = list
    BY <1>1, <1>4, <1>5 DEF TypeOK, list
  <2>2. ASSUME NEW k \in DOMAIN cs
        PROVE  [url |-> url'[list[k]], max_connections |-> max_connections'[list[k]],
                drain |-> drain'[list[k]]] = cs[k]
    <3>1. cs[k] \in BackendConfig
      BY <1>2, <1>10
    <3> QED BY <1>15, <3>1 DEF BackendConfig
  <2>3. [k \in DOMAIN list |-> [url |-> url'[list[k]],
                                max_connections |-> max_connections'[list[k]],
                                drain |-> drain'[list[k]]]] = cs
    BY <1>2, <1>10, <2>2
  <2> QED BY <1>2, <2>1, <2>3 DEF Shown
<1>17. ASSUME NEW q \in LiveGroups \ {g, NoGroup}
       PROVE  /\ host'[q] = host[q] /\ members'[q] = members[q]
              /\ \A b \in Range(members[q]) :
                   url'[b] = url[b] /\ max_connections'[b] = max_connections[b] /\ drain'[b] = drain[b]
  <2>1. q \in Gid
    BY <1>1, RangeOfSeq DEF TypeOK, LiveGroups
  <2>2. host'[q] = host[q] /\ members'[q] = members[q]
    BY <1>1, <1>4, <1>5, <2>1 DEF TypeOK
  <2>3. ASSUME NEW b \in Range(members[q])
        PROVE  b \notin Range(fresh) /\ b \notin Range(list) /\ b \in Bid
    <3>1. b \in Bid /\ b \in LiveBackends
      BY <1>1, <2>1, RangeOfSeq DEF TypeOK, LiveBackends, Routable
    <3>2. b \notin Range(fresh)
      BY <1>9, <3>1 DEF Range, FreeBackends
    <3>3. b \notin Range(old)
      <4>1. CASE g \in Range(groups)
        <5>1. g \in LiveGroups \ {NoGroup} /\ old = members[g]
          BY <1>5, <4>1, IdentityAssumption DEF LiveGroups, old
        <5> QED BY <1>1, <2>1, <5>1 DEF GroupsDisjoint
      <4>2. CASE g \notin Range(groups)
        BY <4>2 DEF Range, old
      <4> QED BY <4>1, <4>2
    <3>4. Range(list) \subseteq Range(fresh) \cup Range(old)
      BY <1>10, <1>11, <1>12 DEF Range
    <3> QED BY <3>1, <3>2, <3>3, <3>4
  <2>4. Install(list, cs, fresh)
    BY <1>4 DEF list
  <2> QED BY <2>2, <2>3, <2>4 DEF Install, Updated
<1>18. ASSUME NEW k \in DOMAIN built PROVE Shown(built[k])' = cfg[k]
  <2> DEFINE q == built[k]
  <2>1. q \in LiveGroups \ {g, NoGroup}
    BY <1>6, IdentityAssumption
  <2>2. built'[k] = built[k]
    BY <1>1, <1>4, <1>5 DEF TypeOK
  <2> HIDE DEF q
  <2>3. \A j \in DOMAIN members[q] : members[q][j] \in Range(members[q])
    BY DEF Range
  <2>4. /\ host'[q] = host[q] /\ members'[q] = members[q]
        /\ \A j \in DOMAIN members[q] :
             LET b == members[q][j]
             IN  url'[b] = url[b] /\ max_connections'[b] = max_connections[b] /\ drain'[b] = drain[b]
    BY <1>17, <2>1, <2>3
  <2>5. Shown(q)' = Shown(q)
    BY <2>2, <2>4 DEF Shown, q
  <2> QED BY <2>5 DEF q
<1>19. Reuses(g)
  <2>1. members'[g] = list
    BY <1>1, <1>4, <1>5 DEF TypeOK, list
  <2>2. ASSUME NEW k \in DOMAIN list, k \in Added(old, cs), g \in Range(groups)
        PROVE  \A j \in DOMAIN members[g] : url[members[g][j]] # url'[list[k]]
    <3>1. old = members[g]
      BY <2>2 DEF old
    <3> QED BY <1>10, <1>15, <2>2, <3>1 DEF Added, BackendAt
  <2>3. ASSUME NEW k \in DOMAIN list, k \notin Added(old, cs)
        PROVE  \E j \in DOMAIN members[g] :
                 list[k] = members[g][j] /\ url[list[k]] = url'[list[k]]
    <3>1. list[k] \in Range(old) /\ url[list[k]] = url'[list[k]]
      BY <1>10, <1>12, <1>15, <2>3
    <3>2. old = members[g]
      BY <1>7, <3>1 DEF Range
    <3> QED BY <3>1, <3>2 DEF Range
  <2>4. g \notin Range(built)
    BY <1>6 DEF Range
  <2>5. g \in Range(groups) => host[g] = p
    BY <1>5 DEF FreeGroups, LiveGroups
  <2> QED BY <1>4, <1>5, <1>10, <1>17, <2>1, <2>2, <2>3, <2>4, <2>5 DEF Reuses, p
<1> QED BY <1>4, <1>5, <1>16, <1>18, <1>19

LEMMA TableStep ==
    ASSUME IInv, TableInv, [Next]_vars
    PROVE  TableInv'
<1> USE DEF vars, groupVars, configVars, applyVars, requestVars, scanVars
<1>1. TypeOK
  BY DEF IInv
<1>2. CASE ApplyRoute
  <2>1. route \in DOMAIN cfg /\ route' = route + 1 /\ cfg' = cfg
    BY <1>2 DEF ApplyRoute
  <2>2. route \in Nat \ {0} /\ route' \in Nat \ {0} /\ route' - 1 = route
    BY <1>1, <2>1, ConfigAssumption DEF TypeOK
  <2>3. Len(built) = route - 1
    BY <2>2 DEF TableInv
  <2>4. Len(built') = route
    <3>1. PICK g \in Gid : built' = Append(built, g)
      BY <1>1, <1>2, ApplyFacts
    <3> QED BY <1>1, <2>2, <2>3, <3>1 DEF TypeOK
  <2>5. ASSUME Distinct(cfg), NEW k \in DOMAIN built' PROVE Shown(built[k])' = cfg[k]
    <3>1. \A j \in DOMAIN built : Shown(built[j]) = cfg[j]
      BY <2>2, <2>5 DEF TableInv
    <3>2. PICK g \in Gid : /\ built' = Append(built, g)
                           /\ Shown(g)' = cfg[route]
                           /\ \A j \in DOMAIN built : Shown(built[j])' = cfg[j]
      BY <1>2, <2>3, <2>5, <3>1, RouteApplied
    <3>3. k \in DOMAIN built \/ (k = route /\ built'[k] = g)
      BY <1>1, <2>2, <2>3, <3>2 DEF TypeOK
    <3> QED BY <3>2, <3>3 DEF Shown
  <2> QED BY <2>1, <2>2, <2>4, <2>5 DEF TableInv, Distinct
<1>3. CASE ReloadFinish
  <2>1. route # 0 /\ route' = 0 /\ built' = <<>> /\ groups' = built /\ cfg' = cfg
        /\ Len(built) = Len(cfg)
    BY <1>1, <1>3, ConfigAssumption DEF ReloadFinish, TypeOK, TableInv
  <2>2. ASSUME Distinct(cfg) PROVE cfg = [k \in DOMAIN built |-> Shown(built[k])]
    <3>1. \A k \in DOMAIN built : Shown(built[k]) = cfg[k]
      BY <2>1, <2>2 DEF TableInv
    <3>2. DOMAIN built = DOMAIN cfg /\ cfg = [k \in DOMAIN cfg |-> cfg[k]]
      BY <1>1, <2>1, ConfigAssumption DEF TypeOK
    <3> QED BY <3>1, <3>2
  <2>3. \A g : Shown(g)' = Shown(g)
    BY <1>3 DEF ReloadFinish, Shown
  <2> QED BY <2>1, <2>2, <2>3 DEF TableInv, Distinct
<1>4. ASSUME NEW c \in Config, ReloadStart(c) PROVE TableInv'
  <2>1. built' = <<>> /\ route' = 1
    BY <1>4 DEF ReloadStart, TableInv
  <2> QED BY <2>1 DEF TableInv
<1>5. ASSUME UNCHANGED <<groupVars, configVars, applyVars>> PROVE TableInv'
  <2>1. \A g : Shown(g)' = Shown(g)
    BY <1>5 DEF Shown
  <2> QED BY <1>5, <2>1 DEF TableInv
<1>6. (\E r \in Request : \/ \E h \in Host : FindGroup(r, h)
                          \/ Select(r) \/ ConnectionGuardNew(r) \/ UpgradeFail(r)
                          \/ DialOk(r) \/ DialFail(r) \/ Finish(r) \/ Disconnect(r))
      \/ (\E b \in Bid, ok \in BOOLEAN : HealthStore(b, ok))
        => UNCHANGED <<groupVars, configVars, applyVars>>
  BY DEF FindGroup, Select, SelectBegin, SelectFlags, SelectCount, SelectEnd, ConnectionGuardNew,
         UpgradeFail, DialOk, DialFail, Finish, Disconnect, GuardDrop, HealthStore
<1> QED BY <1>2, <1>3, <1>4, <1>5, <1>6 DEF Next

\* Between reloads the table is the configuration, route by route and backend
\* by backend, whatever objects it was put together from (apply_config).
THEOREM TableIsConfig == Spec => []TableMatchesConfig
<1>1. Init => TableInv
  BY DEF Init, TableInv
<1>2. IInv /\ TableInv /\ [Next]_vars => TableInv'
  BY TableStep
<1>3. TableInv => TableMatchesConfig
  BY DEF TableInv, TableMatchesConfig
<1> QED BY <1>1, <1>2, <1>3, Invariance, PTL DEF Spec

-----------------------------------------------------------------------------
(* BalancerHistory: what a whole scan promises.                            *)

\* The history variables only watch.
LEMMA HistoryIsSpec == HistorySpec => Spec
<1>1. HistoryInit => Init
  BY DEF HistoryInit
<1>2. [Next /\ Observe]_allVars => [Next]_vars
  BY DEF allVars
<1> QED BY <1>1, <1>2, PTL DEF HistorySpec, Spec

\* A request that is in a scan has just begun it, or was in it: then its list
\* is as it was, and it moved itself or not at all.
LEMMA ScanMoves ==
    ASSUME IInv, [Next]_vars, NEW r \in Request, pc'[r] \in Scanning
    PROVE  \/ SelectBegin(r)
           \/ /\ pc[r] \in Scanning
              /\ grp'[r] = grp[r] /\ members'[grp[r]] = members[grp[r]]
              /\ \/ SelectFlags(r) \/ SelectCount(r)
                 \/ pc'[r] = pc[r] /\ i'[r] = i[r] /\ best'[r] = best[r]
                    /\ best_count'[r] = best_count[r]
<1> USE DEF vars, groupVars, configVars, applyVars, requestVars, scanVars
<1>1. TypeOK
  BY DEF IInv
<1>2. ASSUME NEW q \in Request, q # r,
             \/ (\E h \in Host : FindGroup(q, h)) \/ Select(q) \/ ConnectionGuardNew(q)
             \/ UpgradeFail(q) \/ DialOk(q) \/ GuardDrop(q)
      PROVE  /\ members' = members /\ grp'[r] = grp[r] /\ pc'[r] = pc[r] /\ i'[r] = i[r]
             /\ best'[r] = best[r] /\ best_count'[r] = best_count[r]
  BY <1>1, <1>2 DEF TypeOK, FindGroup, Select, SelectBegin, SelectFlags, SelectCount, SelectEnd,
     ConnectionGuardNew, UpgradeFail, DialOk, GuardDrop
<1>3. ASSUME \/ (\E h \in Host : FindGroup(r, h)) \/ SelectEnd(r) \/ ConnectionGuardNew(r)
             \/ UpgradeFail(r) \/ DialOk(r) \/ GuardDrop(r)
      PROVE  FALSE
  BY <1>1, <1>3 DEF TypeOK, FindGroup, SelectEnd, ConnectionGuardNew, UpgradeFail, DialOk,
     GuardDrop, Scanning, Chosen
<1>4. SelectFlags(r) \/ SelectCount(r) => members' = members /\ grp' = grp /\ pc[r] \in Scanning
  BY DEF SelectFlags, SelectCount, Scanning
<1>5. CASE ApplyRoute
  <2>1. PICK g \in Gid : WriteLockFree(g) /\ \E list \in Seq(Bid) : members' = [members EXCEPT ![g] = list]
    BY <1>1, <1>5, ApplyFacts
  <2>2. UNCHANGED requestVars
    BY <1>5 DEF ApplyRoute
  <2>3. members'[grp[r]] = members[grp[r]]
    BY <1>1, <2>1, <2>2 DEF WriteLockFree, TypeOK
  <2> QED BY <2>2, <2>3
<1>6. CASE \/ (\E b \in Bid, ok \in BOOLEAN : HealthStore(b, ok))
           \/ (\E c \in Config : ReloadStart(c)) \/ ReloadFinish \/ UNCHANGED vars
  BY <1>6 DEF HealthStore, ReloadStart, ReloadFinish
<1>7. ASSUME NEW q \in Request,
             \/ (\E h \in Host : FindGroup(q, h)) \/ Select(q) \/ ConnectionGuardNew(q)
             \/ UpgradeFail(q) \/ DialOk(q) \/ GuardDrop(q)
      PROVE  \/ SelectBegin(r)
             \/ /\ pc[r] \in Scanning
                /\ grp'[r] = grp[r] /\ members'[grp[r]] = members[grp[r]]
                /\ \/ SelectFlags(r) \/ SelectCount(r)
                   \/ pc'[r] = pc[r] /\ i'[r] = i[r] /\ best'[r] = best[r]
                      /\ best_count'[r] = best_count[r]
  <2>1. CASE q = r
    BY <1>3, <1>4, <1>7, <2>1 DEF Select
  <2>2. CASE q # r
    <3>1. /\ members' = members /\ grp'[r] = grp[r] /\ pc'[r] = pc[r] /\ i'[r] = i[r]
          /\ best'[r] = best[r] /\ best_count'[r] = best_count[r]
      BY <1>2, <1>7, <2>2
    <3> QED BY <3>1
  <2> QED BY <2>1, <2>2
<1> QED BY <1>5, <1>6, <1>7 DEF Next, DialFail, Finish, Disconnect

\* What a scan has seen of its list, besides ScanIsStable: nothing that was
\* shunned throughout is its choice, or about to be compared, and of what it
\* has passed and was eligible throughout nothing had fewer connections.
Passed(r) == {members[grp[r]][k] : k \in 1 .. i[r] - 1}
ScanSeen(r) ==
    pc[r] \in Scanning =>
        /\ i[r] \in Nat \ {0}
        /\ shunned[r] \cup DOMAIN peak[r] \subseteq Range(members[grp[r]])
        /\ \A b \in DOMAIN peak[r] : peak[r][b] \in Nat
        /\ best[r] \notin shunned[r]
        /\ pc[r] = "count" => Current(r) \notin shunned[r]
        /\ \A b \in Passed(r) \cap DOMAIN peak[r] :
             best[r] # NoBackend /\ best_count[r] <= peak[r][b]

\* What one step adds to the history of a scan.
LEMMA Observed ==
    ASSUME TypeOK, TypeOK', Observe, NEW r \in Request, pc'[r] \in Scanning,
           pc[r] \in Scanning => ScanSeen(r)
    PROVE  /\ shunned'[r] \subseteq IF pc[r] \in Scanning THEN shunned[r] ELSE Range(members[grp[r]])
           /\ DOMAIN peak'[r] \subseteq IF pc[r] \in Scanning THEN DOMAIN peak[r]
                                                          ELSE Range(members[grp[r]])
           /\ \A b \in shunned'[r] : drain'[b] \/ ~healthy'[b]
           /\ \A b \in DOMAIN peak'[r] \cap Bid :
                /\ ~drain'[b] /\ healthy'[b]
                /\ active_connections'[b] < max_connections'[b]
                /\ peak'[r][b] \in Nat
                /\ active_connections'[b] <= peak'[r][b]
                /\ pc[r] \in Scanning => peak[r][b] <= peak'[r][b]
<1> DEFINE before == IF pc[r] \in Scanning THEN DOMAIN peak[r] ELSE Range(members[grp[r]])
           eligible == {b \in before : /\ ~drain'[b] /\ healthy'[b]
                                       /\ active_connections'[b] < max_connections'[b]}
<1>1. shunned'[r] = {b \in IF pc[r] \in Scanning THEN shunned[r] ELSE Range(members[grp[r]]) :
                       drain'[b] \/ ~healthy'[b]}
  BY DEF Observe
<1>2. peak'[r] = [b \in eligible |-> IF pc[r] \in Scanning
                                     THEN Larger(active_connections'[b], peak[r][b])
                                     ELSE active_connections'[b]]
  BY DEF Observe
<1>3. DOMAIN peak'[r] = eligible
  BY <1>2
<1>4. ASSUME NEW b \in eligible \cap Bid
      PROVE  /\ peak'[r][b] \in Nat /\ active_connections'[b] <= peak'[r][b]
             /\ pc[r] \in Scanning => peak[r][b] <= peak'[r][b]
  <2>1. active_connections'[b] \in Nat
    BY DEF TypeOK
  <2>2. CASE pc[r] \in Scanning
    <3>1. peak[r][b] \in Nat /\ peak'[r][b] = Larger(active_connections'[b], peak[r][b])
      BY <1>2, <2>2 DEF ScanSeen
    <3> QED BY <2>1, <3>1 DEF Larger
  <2>3. CASE pc[r] \notin Scanning
    <3>1. peak'[r][b] = active_connections'[b]
      BY <1>2, <2>3
    <3> QED BY <2>1, <2>3, <3>1
  <2> QED BY <2>2, <2>3
<1> QED BY <1>1, <1>3, <1>4

LEMMA ScanSeenStep ==
    ASSUME IInv, IInv', [Next /\ Observe]_allVars, NEW r \in Request, ScanSeen(r)
    PROVE  ScanSeen(r)'
<1> USE DEF vars, groupVars, configVars, applyVars, requestVars, scanVars
<1>1. CASE UNCHANGED allVars
  BY <1>1 DEF allVars, historyVars, ScanSeen, Passed, Current
<1> SUFFICES ASSUME Next, Observe, pc'[r] \in Scanning PROVE ScanSeen(r)'
  BY <1>1 DEF ScanSeen
<1>2. TypeOK /\ TypeOK' /\ RequestShape /\ Next
  BY DEF IInv
<1> DEFINE s == members[grp[r]]
<1>3. /\ shunned'[r] \subseteq IF pc[r] \in Scanning THEN shunned[r] ELSE Range(s)
      /\ DOMAIN peak'[r] \subseteq IF pc[r] \in Scanning THEN DOMAIN peak[r] ELSE Range(s)
      /\ \A b \in shunned'[r] : drain'[b] \/ ~healthy'[b]
      /\ \A b \in DOMAIN peak'[r] \cap Bid :
           /\ ~drain'[b] /\ healthy'[b]
           /\ active_connections'[b] < max_connections'[b]
           /\ peak'[r][b] \in Nat
           /\ active_connections'[b] <= peak'[r][b]
           /\ pc[r] \in Scanning => peak[r][b] <= peak'[r][b]
  BY <1>2, Observed
<1>4. pc[r] \in {"found"} \cup Scanning => s \in Seq(Bid) /\ Range(s) \subseteq Bid
  BY <1>2, HoldsGroup, RangeOfSeq
<1>5. CASE SelectBegin(r)
  <2>1. pc[r] = "found" /\ pc'[r] = "scan" /\ i'[r] = 1 /\ grp' = grp /\ members' = members
        /\ best'[r] = NoBackend
    BY <1>2, <1>5 DEF SelectBegin, TypeOK, RequestShape
  <2>2. shunned'[r] \cup DOMAIN peak'[r] \subseteq Range(s) /\ Range(s) \subseteq Bid
    BY <1>3, <1>4, <2>1 DEF Scanning
  <2>3. Passed(r)' = {}
    BY <2>1 DEF Passed
  <2> QED BY <1>3, <2>1, <2>2, <2>3, IdentityAssumption DEF ScanSeen
<1>6. ASSUME pc[r] \in Scanning, grp'[r] = grp[r], members'[grp[r]] = s,
             \/ SelectFlags(r) \/ SelectCount(r)
             \/ pc'[r] = pc[r] /\ i'[r] = i[r] /\ best'[r] = best[r]
                /\ best_count'[r] = best_count[r]
      PROVE  ScanSeen(r)'
  <2>1. /\ i[r] \in Nat \ {0} /\ best_count[r] \in Nat /\ s \in Seq(Bid)
        /\ shunned[r] \cup DOMAIN peak[r] \subseteq Range(s)
        /\ best[r] \notin shunned[r]
        /\ pc[r] = "count" => Current(r) \notin shunned[r]
        /\ \A b \in Passed(r) \cap DOMAIN peak[r] :
             best[r] # NoBackend /\ best_count[r] <= peak[r][b] /\ peak[r][b] \in Nat
    BY <1>2, <1>4, <1>6 DEF ScanSeen, TypeOK
  <2>2. /\ shunned'[r] \subseteq shunned[r] /\ DOMAIN peak'[r] \subseteq DOMAIN peak[r]
        /\ shunned'[r] \cup DOMAIN peak'[r] \subseteq Range(members'[grp'[r]])
        /\ DOMAIN peak'[r] \subseteq Bid
    BY <1>3, <1>4, <1>6, <2>1
  <2>3. \A b \in DOMAIN peak'[r] : /\ peak'[r][b] \in Nat /\ peak[r][b] <= peak'[r][b]
                                   /\ active_connections'[b] <= peak'[r][b]
                                   /\ ~drain'[b] /\ healthy'[b]
                                   /\ active_connections'[b] < max_connections'[b]
    BY <1>3, <1>6, <2>2
  <2>4. \A b \in Passed(r) \cap DOMAIN peak'[r] :
          best[r] # NoBackend /\ best_count[r] <= peak'[r][b]
    <3> SUFFICES ASSUME NEW b \in Passed(r) \cap DOMAIN peak'[r]
                 PROVE  best[r] # NoBackend /\ best_count[r] <= peak'[r][b]
      OBVIOUS
    <3>1. best[r] # NoBackend /\ best_count[r] <= peak[r][b] /\ peak[r][b] \in Nat
      BY <2>1, <2>2
    <3>2. peak[r][b] <= peak'[r][b] /\ peak'[r][b] \in Nat
      BY <2>3
    <3> QED BY <2>1, <3>1, <3>2
  <2>5. i'[r] = i[r] + 1 => Passed(r)' = Passed(r) \cup {Current(r)} /\ i'[r] \in Nat \ {0}
    <3>1. ASSUME i'[r] = i[r] + 1 PROVE 1 .. i'[r] - 1 = 1 .. i[r] - 1 \cup {i[r]}
      BY <2>1, <3>1
    <3> QED BY <1>6, <2>1, <3>1 DEF Passed, Current
  <2>6. i'[r] = i[r] => Passed(r)' = Passed(r) /\ Current(r)' = Current(r)
    BY <1>6 DEF Passed, Current
  <2>7. CASE pc'[r] = pc[r] /\ i'[r] = i[r] /\ best'[r] = best[r] /\ best_count'[r] = best_count[r]
    BY <2>1, <2>2, <2>3, <2>4, <2>6, <2>7 DEF ScanSeen
  <2>8. CASE SelectFlags(r)
    <3>1. best' = best /\ best_count' = best_count /\ drain' = drain /\ healthy' = healthy
      BY <2>8 DEF SelectFlags
    <3>2. CASE Shunned(Current(r)) /\ i' = [i EXCEPT ![r] = i[r] + 1] /\ pc' = pc
      <4>1. i'[r] = i[r] + 1 /\ pc'[r] = "scan"
        BY <1>2, <2>8, <3>2 DEF TypeOK, SelectFlags
      <4>2. Current(r) \notin DOMAIN peak'[r]
        BY <2>3, <3>1, <3>2 DEF Shunned
      <4> QED BY <2>1, <2>2, <2>3, <2>4, <2>5, <3>1, <4>1, <4>2 DEF ScanSeen
    <3>3. CASE ~Shunned(Current(r)) /\ i' = i
      <4>1. Current(r) \notin shunned'[r]
        BY <1>3, <3>1, <3>3 DEF Shunned
      <4> QED BY <2>1, <2>2, <2>3, <2>4, <2>6, <3>1, <3>3, <4>1 DEF ScanSeen
    <3> QED BY <2>8, <3>2, <3>3 DEF SelectFlags
  <2>9. CASE SelectCount(r)
    <3>1. /\ pc'[r] = "scan" /\ i'[r] = i[r] + 1 /\ pc[r] = "count"
          /\ active_connections' = active_connections /\ max_connections' = max_connections
      BY <1>2, <2>9 DEF SelectCount, TypeOK
    <3>2. Current(r) \in Bid
      BY <1>2, <1>6, <3>1, CurrentBackend DEF IInv, ScanIsStable
    <3>3. active_connections[Current(r)] \in Nat /\ max_connections[Current(r)] \in Nat
      BY <1>2, <3>2 DEF TypeOK
    <3>4. CASE ~Full(Current(r)) /\ Better(r, Current(r))
      <4>1. best'[r] = Current(r) /\ best_count'[r] = active_connections[Current(r)]
            /\ Current(r) # NoBackend
        BY <1>2, <2>9, <3>2, <3>4, IdentityAssumption DEF SelectCount, TypeOK
      <4>2. ASSUME NEW b \in Passed(r)' \cap DOMAIN peak'[r] PROVE best_count'[r] <= peak'[r][b]
        <5>1. CASE b = Current(r)
          BY <2>3, <3>1, <4>1, <5>1
        <5>2. CASE b \in Passed(r)
          <6>1. best[r] # NoBackend /\ best_count[r] <= peak'[r][b] /\ peak'[r][b] \in Nat
            BY <2>3, <2>4, <5>2
          <6>2. active_connections[Current(r)] < best_count[r]
            BY <3>4, <6>1 DEF Better
          <6> QED BY <2>1, <3>3, <4>1, <6>1, <6>2
        <5> QED BY <2>5, <3>1, <5>1, <5>2
      <4> QED BY <2>1, <2>2, <2>3, <2>5, <3>1, <4>1, <4>2 DEF ScanSeen
    <3>5. CASE Full(Current(r)) \/ ~Better(r, Current(r))
      <4>1. best' = best /\ best_count' = best_count
        BY <2>9, <3>5 DEF SelectCount
      <4>2. ASSUME Current(r) \in DOMAIN peak'[r]
            PROVE  best[r] # NoBackend /\ best_count[r] <= peak'[r][Current(r)]
        <5>1. ~Full(Current(r))
          BY <2>3, <3>1, <3>3, <4>2 DEF Full
        <5>2. best[r] # NoBackend /\ ~(active_connections[Current(r)] < best_count[r])
          BY <3>5, <5>1 DEF Better
        <5>3. active_connections[Current(r)] <= peak'[r][Current(r)] /\ peak'[r][Current(r)] \in Nat
          BY <2>3, <3>1, <4>2
        <5> QED BY <2>1, <3>3, <5>2, <5>3
      <4>3. \A b \in Passed(r)' \cap DOMAIN peak'[r] : best'[r] # NoBackend /\ best_count'[r] <= peak'[r][b]
        BY <2>4, <2>5, <3>1, <4>1, <4>2
      <4> QED BY <2>1, <2>2, <2>3, <2>5, <3>1, <4>1, <4>3 DEF ScanSeen
    <3> QED BY <3>4, <3>5
  <2> QED BY <1>6, <2>7, <2>8, <2>9
<1> QED BY <1>2, <1>5, <1>6, ScanMoves

\* A request that has a choice that is not counted yet has made it just now,
\* of a backend with room, or had it before.
LEMMA ChoiceMoves ==
    ASSUME IInv, Next, NEW r \in Request, pc'[r] \in Scanning \cup Chosen, best'[r] # NoBackend
    PROVE  /\ pc[r] \in Scanning \cup Chosen
           /\ \/ best'[r] = best[r]
              \/ /\ SelectCount(r)
                 /\ best'[r] = Current(r) /\ Current(r) \in Bid /\ ~Full(Current(r))
<1> USE DEF vars, groupVars, configVars, applyVars, requestVars, scanVars
<1>1. TypeOK /\ RequestShape /\ ScanIsStable
  BY DEF IInv
<1>2. ASSUME NEW q \in Request, q # r,
             \/ (\E h \in Host : FindGroup(q, h)) \/ Select(q) \/ ConnectionGuardNew(q)
             \/ UpgradeFail(q) \/ DialOk(q) \/ GuardDrop(q)
      PROVE  pc'[r] = pc[r] /\ best'[r] = best[r]
  BY <1>1, <1>2 DEF TypeOK, FindGroup, Select, SelectBegin, SelectFlags, SelectCount, SelectEnd,
     ConnectionGuardNew, UpgradeFail, DialOk, GuardDrop
<1>3. ASSUME \/ (\E h \in Host : FindGroup(r, h)) \/ SelectBegin(r) \/ ConnectionGuardNew(r)
             \/ UpgradeFail(r) \/ DialOk(r) \/ GuardDrop(r)
      PROVE  FALSE
  BY <1>1, <1>3 DEF TypeOK, RequestShape, FindGroup, SelectBegin, ConnectionGuardNew, UpgradeFail,
     DialOk, GuardDrop, Scanning, Chosen
<1>4. ASSUME SelectFlags(r) \/ SelectEnd(r) PROVE pc[r] \in Scanning /\ best'[r] = best[r]
  BY <1>4 DEF SelectFlags, SelectEnd, Scanning
<1>5. ASSUME SelectCount(r)
      PROVE  /\ pc[r] \in Scanning
             /\ \/ best'[r] = best[r]
                \/ best'[r] = Current(r) /\ Current(r) \in Bid /\ ~Full(Current(r))
  <2>1. pc[r] \in Scanning /\ More(r)
    BY <1>1, <1>5 DEF SelectCount, ScanIsStable, Scanning
  <2>2. Current(r) \in Bid
    BY <1>1, <2>1, CurrentBackend
  <2>3. best' = best \/ (~Full(Current(r)) /\ best' = [best EXCEPT ![r] = Current(r)])
    BY <1>5 DEF SelectCount
  <2>4. best' = [best EXCEPT ![r] = Current(r)] => best'[r] = Current(r)
    BY <1>1 DEF TypeOK
  <2> QED BY <2>1, <2>2, <2>3, <2>4
<1>6. ApplyRoute \/ (\E b \in Bid, ok \in BOOLEAN : HealthStore(b, ok))
        \/ (\E c \in Config : ReloadStart(c)) \/ ReloadFinish => pc' = pc /\ best' = best
  BY DEF ApplyRoute, HealthStore, ReloadStart, ReloadFinish
<1>7. ASSUME NEW q \in Request,
             \/ (\E h \in Host : FindGroup(q, h)) \/ Select(q) \/ ConnectionGuardNew(q)
             \/ UpgradeFail(q) \/ DialOk(q) \/ GuardDrop(q)
      PROVE  /\ pc[r] \in Scanning \cup Chosen
             /\ \/ best'[r] = best[r]
                \/ /\ SelectCount(r)
                   /\ best'[r] = Current(r) /\ Current(r) \in Bid /\ ~Full(Current(r))
  <2>1. CASE q = r
    BY <1>3, <1>4, <1>5, <1>7, <2>1 DEF Select
  <2>2. CASE q # r
    BY <1>2, <1>7, <2>2
  <2> QED BY <2>1, <2>2
<1> QED BY <1>6, <1>7 DEF Next, DialFail, Finish, Disconnect

\* A choice that nothing has interfered with still has room.
HasRoom(r) ==
    pc[r] \in Scanning \cup Chosen /\ best[r] # NoBackend /\ ~raced[r]
      => active_connections[best[r]] < max_connections[best[r]]

LEMMA HasRoomStep ==
    ASSUME IInv, IInv', [Next /\ Observe]_allVars, NEW r \in Request, HasRoom(r)
    PROVE  HasRoom(r)'
<1>1. CASE UNCHANGED allVars
  BY <1>1 DEF allVars, vars, groupVars, configVars, applyVars, requestVars, scanVars,
              historyVars, HasRoom
<1> SUFFICES ASSUME Next, Observe, pc'[r] \in Scanning \cup Chosen, best'[r] # NoBackend, ~raced'[r]
             PROVE  active_connections'[best'[r]] < max_connections'[best'[r]]
  BY <1>1 DEF HasRoom
<1>2. TypeOK /\ TypeOK' /\ best'[r] \in Bid
  BY DEF IInv, TypeOK
<1>3. CASE best'[r] = best[r]
  <2>1. /\ pc[r] \in Scanning \cup Chosen /\ best[r] # NoBackend /\ ~raced[r]
        /\ ~(active_connections'[best[r]] > active_connections[best[r]])
        /\ ~(max_connections'[best[r]] < max_connections[best[r]])
    BY <1>3, ChoiceMoves DEF Observe
  <2>2. active_connections[best[r]] < max_connections[best[r]]
    BY <2>1 DEF HasRoom
  <2>3. /\ active_connections[best[r]] \in Nat /\ active_connections'[best[r]] \in Nat
        /\ max_connections[best[r]] \in Nat /\ max_connections'[best[r]] \in Nat
    BY <1>2, <1>3 DEF TypeOK
  <2> QED BY <1>3, <2>1, <2>2, <2>3
<1>4. CASE SelectCount(r) /\ best'[r] = Current(r) /\ Current(r) \in Bid /\ ~Full(Current(r))
  <2>1. active_connections' = active_connections /\ max_connections' = max_connections
    BY <1>4 DEF SelectCount, configVars
  <2> QED BY <1>2, <1>4, <2>1 DEF Full, TypeOK
<1> QED BY <1>3, <1>4, ChoiceMoves

-----------------------------------------------------------------------------
(* The invariant of the history, and what follows from it.                 *)
HistoryInv == IInv /\ \A r \in Request : ScanSeen(r) /\ HasRoom(r)

\* HistoryInv holds in every reachable state of the watched balancer.
THEOREM HistoryInvariance == HistorySpec => []HistoryInv
<1>1. HistoryInit => HistoryInv
  <2>1. HistoryInit => IInv
    BY InitInv DEF HistoryInit
  <2>2. HistoryInit => \A r \in Request : ScanSeen(r) /\ HasRoom(r)
    BY DEF HistoryInit, Init, ScanSeen, HasRoom, Scanning, Chosen
  <2> QED BY <2>1, <2>2 DEF HistoryInv
<1>2. IInv /\ IInv' /\ HistoryInv /\ [Next /\ Observe]_allVars => HistoryInv'
  BY ScanSeenStep, HasRoomStep DEF HistoryInv
<1> QED BY <1>1, <1>2, HistoryIsSpec, Invariance, PTL DEF HistorySpec

\* When a scan is over it has passed all of its list.
LEMMA DecidedPassedAll ==
    ASSUME HistoryInv, NEW r \in Request, Decided(r)
    PROVE  Passed(r) = Range(members[grp[r]])
<1>1. pc[r] = "scan" /\ pc[r] \in Scanning /\ i[r] \in Nat \ {0} /\ i[r] <= Len(members[grp[r]]) + 1
      /\ members[grp[r]] \in Seq(Bid)
  BY HoldsGroup DEF HistoryInv, IInv, ScanIsStable, ScanSeen, Decided, Scanning
<1>2. i[r] = Len(members[grp[r]]) + 1
  BY <1>1 DEF Decided, More
<1> QED BY <1>1, <1>2 DEF Passed, Range

\* No scan chooses a backend that was drained or unhealthy throughout it
\* (select_backend; the flags are loaded once per backend, one after another).
THEOREM SkipsShunned == HistorySpec => []ScanSkipsShunned
<1>1. HistoryInv => ScanSkipsShunned
  BY DEF HistoryInv, ScanSeen, ScanSkipsShunned, Decided, Scanning
<1> QED BY <1>1, HistoryInvariance, PTL

\* No scan passes over a backend that was eligible throughout it for a fuller
\* one, or for a 503 (select_backend, best_count).
THEOREM LeastLoaded == HistorySpec => []ScanIsLeastLoaded
<1>1. ASSUME HistoryInv, NEW r \in Request, Decided(r), NEW b \in DOMAIN peak[r]
      PROVE  best[r] # NoBackend /\ best_count[r] <= peak[r][b]
  <2>1. pc[r] \in Scanning /\ ScanSeen(r)
    BY <1>1 DEF Decided, Scanning, HistoryInv
  <2>2. b \in Passed(r)
    BY <1>1, <2>1, DecidedPassedAll DEF ScanSeen
  <2> QED BY <1>1, <2>1, <2>2 DEF ScanSeen
<1>2. HistoryInv => ScanIsLeastLoaded
  BY <1>1 DEF ScanIsLeastLoaded
<1> QED BY <1>2, HistoryInvariance, PTL

\* The step that creates a guard keeps the limit of the backend, unless another
\* guard was created on it, or its limit lowered, since its counter was loaded
\* (select_backend, ConnectionGuard::new).
THEOREM CapRacedOnly == HistorySpec => CapHoldsUnlessRaced
<1>1. ASSUME HistoryInv, Next, NEW r \in Request, pc[r] \in Chosen, pc'[r] \in Counted, ~raced[r]
      PROVE  active_connections'[best[r]] <= max_connections'[best[r]]
  <2>1. TypeOK /\ best[r] \in Bid /\ HasRoom(r)
    BY <1>1 DEF HistoryInv, IInv, TypeOK, RequestShape
  <2>2. active_connections[best[r]] < max_connections[best[r]]
    BY <1>1, <2>1, IdentityAssumption DEF HasRoom
  <2>3. ASSUME NEW q \in Request, q # r,
               \/ (\E h \in Host : FindGroup(q, h)) \/ Select(q) \/ ConnectionGuardNew(q)
               \/ UpgradeFail(q) \/ DialOk(q) \/ GuardDrop(q)
        PROVE  pc'[r] = pc[r]
    BY <2>1, <2>3 DEF TypeOK, FindGroup, Select, SelectBegin, SelectFlags, SelectCount, SelectEnd,
       ConnectionGuardNew, UpgradeFail, DialOk, GuardDrop
  <2>4. ApplyRoute \/ (\E b \in Bid, ok \in BOOLEAN : HealthStore(b, ok))
          \/ (\E c \in Config : ReloadStart(c)) \/ ReloadFinish => pc'[r] = pc[r]
    BY DEF ApplyRoute, HealthStore, ReloadStart, ReloadFinish, requestVars
  <2>5. pc'[r] # pc[r]
    BY <1>1 DEF Chosen, Counted
  <2>6. \/ (\E h \in Host : FindGroup(r, h)) \/ Select(r) \/ ConnectionGuardNew(r)
        \/ UpgradeFail(r) \/ DialOk(r) \/ DialFail(r) \/ Finish(r) \/ Disconnect(r)
    BY <1>1, <2>3, <2>4, <2>5 DEF Next, DialFail, Finish, Disconnect
  <2>7. ConnectionGuardNew(r)
    BY <1>1, <2>1, <2>6 DEF TypeOK, Chosen, Counted, FindGroup, Select, SelectBegin, SelectFlags,
       SelectCount, SelectEnd, UpgradeFail, DialOk, DialFail, Finish, Disconnect
  <2>8. /\ active_connections'[best[r]] = active_connections[best[r]] + 1
        /\ max_connections' = max_connections
    BY <2>1, <2>7 DEF ConnectionGuardNew, configVars, TypeOK
  <2> QED BY <2>1, <2>2, <2>8 DEF TypeOK
<1>2. HistoryInv /\ [Next /\ Observe]_allVars
        => [\A r \in Request :
              pc[r] \in Chosen /\ pc'[r] \in Counted /\ ~raced[r]
                => active_connections'[best[r]] <= max_connections'[best[r]]]_allVars
  BY <1>1
<1> QED BY <1>2, HistoryInvariance, PTL DEF HistorySpec, CapHoldsUnlessRaced

-----------------------------------------------------------------------------
(* What a whole reload promises, for files in the documented format: one   *)
(* block per host, and no URL twice in it.                                 *)
DistinctFiles == \A c \in Config : Distinct(c)

HostsDistinct == \A j, k \in DOMAIN groups : host[groups[j]] = host[groups[k]] => j = k

\* Group g lists what n = <<host, url>> named when the reload began, and
\* nothing else of that URL.
OnlyHome(g, n) ==
    \A x \in DOMAIN members[g] : url[members[g][x]] = n[2] => members[g][x] = home[n]
IsHome(g, n) ==
    /\ OnlyHome(g, n)
    /\ \E x \in DOMAIN members[g] : url[members[g][x]] = n[2]

\* What n named is in the group the reload has still to change; a group it has
\* changed names nothing else.
KeepInv ==
    /\ route # 0 =>
         /\ HostsDistinct
         /\ \A n \in DOMAIN home : \E k \in DOMAIN groups :
              /\ host[groups[k]] = n[1]
              /\ groups[k] \notin Range(built) => IsHome(groups[k], n)
         /\ \A k \in DOMAIN built, n \in DOMAIN home :
              host[built[k]] = n[1] => OnlyHome(built[k], n)
    /\ route = 0 =>
         \A k \in DOMAIN groups, n \in DOMAIN home :
              host[groups[k]] = n[1] => OnlyHome(groups[k], n)

LEMMA TableDistinct ==
    ASSUME IInv, TableInv, DistinctFiles, route = 0
    PROVE  /\ HostsDistinct
           /\ \A k \in DOMAIN groups : \A x, y \in DOMAIN members[groups[k]] :
                url[members[groups[k]][x]] = url[members[groups[k]][y]] => x = y
<1>1. Distinct(cfg) /\ cfg = [k \in DOMAIN groups |-> Shown(groups[k])]
  BY DEF IInv, TypeOK, TableInv, DistinctFiles
<1>2. DOMAIN cfg = DOMAIN groups
  BY <1>1
<1>3. ASSUME NEW k \in DOMAIN groups
      PROVE  /\ cfg[k].host = host[groups[k]]
             /\ DOMAIN cfg[k].backends = DOMAIN members[groups[k]]
             /\ \A x \in DOMAIN members[groups[k]] :
                  cfg[k].backends[x].url = url[members[groups[k]][x]]
  <2>1. cfg[k] = Shown(groups[k])
    BY <1>1
  <2> QED BY <2>1 DEF Shown
<1> QED BY <1>1, <1>2, <1>3 DEF Distinct, HostsDistinct

\* What the table names it lists.
LEMMA TableLists ==
    ASSUME IInv, TableInv, DistinctFiles, route = 0, NEW n \in DOMAIN Table
    PROVE  \E k \in DOMAIN groups : \E x \in DOMAIN members[groups[k]] :
             /\ host[groups[k]] = n[1] /\ url[members[groups[k]][x]] = n[2]
             /\ Table[n] = members[groups[k]][x]
<1> DEFINE S == Named(n[1], n[2])
<1>1. S # {} /\ Table[n] = members[groups[First(S)[1]]][First(S)[2]]
  BY DEF Table
<1>2. DOMAIN groups \subseteq Nat /\ \A k \in DOMAIN groups : DOMAIN members[groups[k]] \subseteq Nat
  BY DEF IInv, TypeOK
<1>3. ASSUME NEW x \in S
      PROVE  /\ x = <<x[1], x[2]>> /\ x[1] \in DOMAIN groups /\ x[2] \in DOMAIN members[groups[x[1]]]
             /\ x[1] \in Nat /\ x[2] \in Nat
             /\ host[groups[x[1]]] = n[1] /\ url[members[groups[x[1]]][x[2]]] = n[2]
  <2>1. x \in Positions /\ host[groups[x[1]]] = n[1] /\ url[members[groups[x[1]]][x[2]]] = n[2]
    BY DEF Named
  <2>2. PICK k \in DOMAIN groups : x \in {k} \X DOMAIN members[groups[k]]
    BY <2>1 DEF Positions
  <2> QED BY <1>2, <2>1, <2>2
<1>4. ASSUME NEW x \in S, NEW y \in S PROVE x = y
  <2>1. x[1] = y[1]
    BY <1>3, TableDistinct DEF HostsDistinct
  <2>2. x[2] = y[2]
    BY <1>3, <2>1, TableDistinct
  <2> QED BY <1>3, <2>1, <2>2
<1>5. PICK x : x \in S
  BY <1>1
<1>6. \A y \in S : x[1] < y[1] \/ (x[1] = y[1] /\ x[2] <= y[2])
  BY <1>3, <1>4, <1>5
<1>7. First(S) \in S
  BY <1>5, <1>6 DEF First
<1> QED BY <1>1, <1>3, <1>7

LEMMA KeepStep ==
    ASSUME IInv, TableInv, KeepInv, DistinctFiles, [Next /\ Observe]_allVars
    PROVE  KeepInv'
<1> USE DEF vars, groupVars, configVars, applyVars, requestVars, scanVars, allVars, historyVars
<1>1. TypeOK /\ Distinct(cfg)
  BY DEF IInv, TypeOK, DistinctFiles
<1>2. CASE UNCHANGED <<groups, host, members, url, built, route>> /\ home' = home
  BY <1>2 DEF KeepInv, HostsDistinct, IsHome, OnlyHome
<1>3. ASSUME ApplyRoute, home' = home PROVE KeepInv'
  <2>1. /\ route \in Nat \ {0} /\ route' \in Nat \ {0} /\ Len(built) = route - 1
        /\ \A k \in DOMAIN built : Shown(built[k]) = cfg[k]
    BY <1>1, <1>3, ConfigAssumption DEF ApplyRoute, TypeOK, TableInv
  <2>2. PICK g \in Gid : built' = Append(built, g) /\ Reuses(g)
    BY <1>1, <1>3, <2>1, RouteApplied
  <2> DEFINE p == cfg[route].host
  <2>3. /\ g \in Range(groups) => host[g] = p
        /\ GroupAt(p) # {} => g \in Range(groups)
        /\ g \notin Range(built)
        /\ host' = [host EXCEPT ![g] = p]
    BY <2>2 DEF Reuses
  <2>4. ASSUME NEW k \in DOMAIN members'[g]
        PROVE  LET b == members'[g][k] IN
               \/ \E j \in DOMAIN members[g] : b = members[g][j] /\ url[b] = url'[b]
               \/ g \in Range(groups) => \A j \in DOMAIN members[g] : url[members[g][j]] # url'[b]
    BY <2>2 DEF Reuses
  <2>5. ASSUME NEW q \in LiveGroups \ {g, NoGroup}
        PROVE  members'[q] = members[q] /\ \A b \in Range(members[q]) : url'[b] = url[b]
    BY <2>2 DEF Reuses
  <2>6. ASSUME NEW q \in LiveGroups \ {g, NoGroup}, NEW n
        PROVE  (OnlyHome(q, n) => OnlyHome(q, n)') /\ (IsHome(q, n) => IsHome(q, n)')
    <3>1. \A x \in DOMAIN members[q] : members[q][x] \in Range(members[q])
      BY DEF Range
    <3> QED BY <1>3, <2>5, <3>1 DEF OnlyHome, IsHome
  <2>7. groups' = groups /\ \A k \in DOMAIN groups : groups[k] \in LiveGroups \ {NoGroup} /\ groups[k] \in Gid
                                                    /\ groups[k] \in Range(groups)
    BY <1>1, <1>3, RangeOfSeq, IdentityAssumption DEF ApplyRoute, TypeOK, LiveGroups
  <2>8. \A k \in DOMAIN groups : host'[groups[k]] = host[groups[k]]
    BY <1>1, <2>3, <2>7 DEF TypeOK
  <2>9. HostsDistinct'
    BY <2>1, <2>7, <2>8 DEF KeepInv, HostsDistinct
  <2>10. ASSUME NEW n \in DOMAIN home
         PROVE  \E k \in DOMAIN groups :
                  /\ host'[groups[k]] = n[1]
                  /\ groups[k] \notin Range(built') => IsHome(groups[k], n)'
    <3>1. PICK k \in DOMAIN groups :
            /\ host[groups[k]] = n[1]
            /\ groups[k] \notin Range(built) => IsHome(groups[k], n)
      BY <2>1 DEF KeepInv
    <3>2. ASSUME groups[k] \notin Range(built') PROVE IsHome(groups[k], n)'
      <4>1. Range(built') = Range(built) \cup {g}
        BY <1>1, <2>2, RangeAppend DEF TypeOK
      <4>2. groups[k] \in LiveGroups \ {g, NoGroup} /\ IsHome(groups[k], n)
        BY <2>7, <3>1, <3>2, <4>1
      <4>3. \A q \in LiveGroups \ {g, NoGroup} : IsHome(q, n) => IsHome(q, n)'
        BY <2>6
      <4> QED BY <2>7, <4>2, <4>3 DEF IsHome, OnlyHome
    <3> QED BY <2>8, <3>1, <3>2
  <2>11. ASSUME NEW n \in DOMAIN home, p = n[1] PROVE OnlyHome(g, n)'
    <3>1. PICK k \in DOMAIN groups :
            /\ host[groups[k]] = n[1]
            /\ groups[k] \notin Range(built) => IsHome(groups[k], n)
      BY <2>1 DEF KeepInv
    <3>2. g \in Range(groups) /\ host[g] = host[groups[k]]
      BY <2>3, <2>11, <3>1 DEF GroupAt
    <3>3. g = groups[k]
      <4>1. PICK m \in DOMAIN groups : g = groups[m]
        BY <3>2 DEF Range
      <4> QED BY <2>1, <3>2, <4>1 DEF KeepInv, HostsDistinct
    <3>4. IsHome(g, n)
      BY <2>3, <3>1, <3>3
    <3>5. ASSUME NEW x \in DOMAIN members'[g], url'[members'[g][x]] = n[2]
          PROVE  members'[g][x] = home'[n]
      BY <1>3, <2>4, <3>2, <3>4, <3>5 DEF IsHome, OnlyHome
    <3> QED BY <3>5 DEF OnlyHome
  <2>12. ASSUME NEW k \in DOMAIN built', NEW n \in DOMAIN home, host'[built'[k]] = n[1]
         PROVE  OnlyHome(built[k], n)'
    <3>1. (k \in DOMAIN built /\ built'[k] = built[k]) \/ built'[k] = g
      BY <1>1, <2>2 DEF TypeOK
    <3>2. CASE built'[k] = g
      <4>1. OnlyHome(g, n)'
        BY <1>1, <2>3, <2>11, <2>12, <3>2 DEF TypeOK
      <4> QED BY <3>2, <4>1 DEF OnlyHome
    <3>3. CASE k \in DOMAIN built /\ built'[k] = built[k]
      <4>1. built[k] \in LiveGroups \ {g, NoGroup} /\ built[k] \in Gid
        BY <1>1, <2>3, <3>3, RangeOfSeq, IdentityAssumption DEF TypeOK, LiveGroups
      <4>2. OnlyHome(built[k], n)
        BY <1>1, <2>1, <2>3, <2>12, <3>3, <4>1 DEF KeepInv, TypeOK
      <4>3. \A q \in LiveGroups \ {g, NoGroup} : OnlyHome(q, n) => OnlyHome(q, n)'
        BY <2>6
      <4> QED BY <3>3, <4>1, <4>2, <4>3 DEF OnlyHome
    <3> QED BY <3>1, <3>2, <3>3
  <2> QED BY <1>3, <2>1, <2>7, <2>9, <2>10, <2>12 DEF KeepInv
<1>4. ASSUME ReloadFinish, home' = home PROVE KeepInv'
  <2>1. route # 0 /\ route' = 0 /\ groups' = built /\ host' = host /\ members' = members /\ url' = url
    BY <1>1, <1>4, ConfigAssumption DEF ReloadFinish, TypeOK
  <2> QED BY <1>4, <2>1 DEF KeepInv, OnlyHome
<1>5. ASSUME NEW c \in Config, ReloadStart(c), home' = Table PROVE KeepInv'
  <2>1. /\ route = 0 /\ route' # 0 /\ built' = <<>>
        /\ UNCHANGED <<groups, host, members, url>>
    BY <1>5 DEF ReloadStart, TableInv
  <2>2. HostsDistinct'
    BY <2>1, TableDistinct DEF HostsDistinct
  <2>3. ASSUME NEW n \in DOMAIN Table
        PROVE  \E k \in DOMAIN groups : host[groups[k]] = n[1] /\ IsHome(groups[k], n)'
    <3>1. PICK k \in DOMAIN groups : \E x \in DOMAIN members[groups[k]] :
             /\ host[groups[k]] = n[1] /\ url[members[groups[k]][x]] = n[2]
             /\ Table[n] = members[groups[k]][x]
      BY <2>1, TableLists
    <3>2. \A y \in DOMAIN members[groups[k]] :
            url[members[groups[k]][y]] = n[2] => members[groups[k]][y] = Table[n]
      BY <2>1, <3>1, TableDistinct
    <3> QED BY <1>5, <2>1, <3>1, <3>2 DEF IsHome, OnlyHome
  <2>4. DOMAIN home' = DOMAIN Table /\ DOMAIN built' = {}
    BY <1>5, <2>1
  <2> QED BY <2>1, <2>2, <2>3, <2>4 DEF KeepInv
<1>6. ASSUME NEW r \in Request,
             \/ (\E h \in Host : FindGroup(r, h)) \/ Select(r) \/ ConnectionGuardNew(r)
             \/ UpgradeFail(r) \/ DialOk(r) \/ DialFail(r) \/ Finish(r) \/ Disconnect(r)
      PROVE  UNCHANGED <<groups, host, members, url, built, route>>
  BY <1>6 DEF FindGroup, Select, SelectBegin, SelectFlags, SelectCount, SelectEnd,
     ConnectionGuardNew, UpgradeFail, DialOk, DialFail, Finish, Disconnect, GuardDrop
<1>7. (\E b \in Bid, ok \in BOOLEAN : HealthStore(b, ok))
        => UNCHANGED <<groups, host, members, url, built, route>>
  BY DEF HealthStore
<1>8. Observe => home' = IF route = 0 /\ route' # 0 THEN Table ELSE home
  BY DEF Observe
<1>9. /\ ReloadFinish => route' = 0
      /\ \A c \in Config : ReloadStart(c) => route = 0 /\ route' # 0
  BY DEF ReloadFinish, ReloadStart
<1>10. ApplyRoute => route # 0
  BY <1>1, ConfigAssumption DEF ApplyRoute, TypeOK
<1> QED BY <1>2, <1>3, <1>4, <1>5, <1>6, <1>7, <1>8, <1>9, <1>10 DEF Next

\* A reload keeps every backend that both files list under the same host: the
\* table names the same object afterwards, with its counter and its health
\* (apply_backends).
THEOREM ReloadKeeps ==
    ASSUME DistinctFiles
    PROVE  HistorySpec => []ReloadKeepsBackends
<1>1. HistoryInit => TableInv /\ KeepInv
  BY DEF HistoryInit, Init, TableInv, KeepInv, HostsDistinct
<1>2. IInv /\ TableInv /\ KeepInv /\ [Next /\ Observe]_allVars => TableInv' /\ KeepInv'
  <2>1. [Next /\ Observe]_allVars => [Next]_vars
    BY DEF allVars
  <2> QED BY <2>1, TableStep, KeepStep
<1>3. IInv /\ TableInv /\ KeepInv => ReloadKeepsBackends
  <2> SUFFICES ASSUME IInv, TableInv, KeepInv, route = 0, NEW n \in DOMAIN home \cap DOMAIN Table
               PROVE  home[n] = Table[n]
    BY DEF ReloadKeepsBackends
  <2>1. PICK k \in DOMAIN groups : \E x \in DOMAIN members[groups[k]] :
          /\ host[groups[k]] = n[1] /\ url[members[groups[k]][x]] = n[2]
          /\ Table[n] = members[groups[k]][x]
    BY TableLists
  <2> QED BY <2>1 DEF KeepInv, OnlyHome
<1> QED BY <1>1, <1>2, <1>3, HistoryIsSpec, Invariance, PTL DEF HistorySpec
=============================================================================
