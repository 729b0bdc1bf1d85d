----------------------------- MODULE StatsProofs -----------------------------
(***************************************************************************)
(* Theorems about Stats, for every pool of routes and backends, any number *)
(* of URLs and any length of the rings.                                    *)
(***************************************************************************)
EXTENDS Stats, FiniteSetTheorems, SequenceTheorems, TLAPS

(* The inductive invariant: no two lists that the table or the loop still  *)
(* refers to share a backend; what the loop will come to is alive; and     *)
(* what it has not sampled yet is still before it.                         *)
Types ==
    /\ groups \subseteq Group /\ todo \subseteq Group
    /\ members \in [Group -> SUBSET Bid]
    /\ retired \subseteq Bid
    /\ lost \in [Url -> Int] /\ raised \in [Url -> Int] /\ error_count \in [Bid -> Int]

ListsDisjoint ==
    \A g, h \in groups \cup todo : g # h => members[g] \cap members[h] = {}

ListsInjective == \A g \in groups : OnePerUrl(members[g])

Ahead ==
    /\ Listed(todo, members) \subseteq Alive
    /\ unseen \subseteq Listed(todo, members) \cup backends
    /\ pc = "sleep" => todo = {} /\ backends = {}

RetiredUnlisted ==
    /\ \A b \in retired : UrlOf[b] \in unlisted
    /\ \A u \in Url \ unlisted : lost[u] = 0

SInv == Types /\ ListsDisjoint /\ ListsInjective /\ Ahead /\ RetiredUnlisted

LEMMA StatsInit == Init => SInv
BY DEF Init, SInv, Types, ListsDisjoint, ListsInjective, Ahead, RetiredUnlisted, Listed, Alive

-----------------------------------------------------------------------------
(* What the three reloads have in common.  `m` differs from the lists of   *)
(* the table at most at g, whose new list takes over or makes each of its  *)
(* backends.                                                               *)
LEMMA InstalledKeeps ==
    ASSUME SInv, NEW gs \in SUBSET Group, NEW g \in Group, NEW m \in [Group -> SUBSET Bid],
           Installed(gs, m),
           \A h \in Group : h # g => m[h] = members[h] /\ (h \in gs => h \in groups),
           g \in groups => \/ g \notin gs /\ m[g] = members[g]
                           \/ groups = gs /\ OnePerUrl(m[g]) /\ Keeps(members[g], m[g]),
           g \notin groups => g \notin todo /\ OnePerUrl(m[g]) /\ Keeps({}, m[g]),
           \A h \in groups : h # g => h \in gs
    PROVE  SInv'
<1>1. /\ groups' = gs /\ members' = m /\ retired' = Alive \ Listed(gs, m)
      /\ unseen' = unseen \cap Listed(gs, m)
      /\ unlisted' = unlisted \cup {u \in Url : ~(Listing(groups, members, u) \subseteq Listing(gs, m, u))}
      /\ UNCHANGED <<error_count, data, todo, backends, pc, raised, lost>>
  BY DEF Installed, loop
<1>2. Types /\ ListsDisjoint /\ ListsInjective /\ Ahead /\ RetiredUnlisted
  BY DEF SInv
<1>3. Alive \subseteq Bid /\ \A h \in groups : members[h] \subseteq Alive
  BY <1>2 DEF Types, Alive, Listed
<1>4. \A h \in groups \cup todo : members[h] \subseteq Alive
  BY <1>2, <1>3 DEF Ahead, Listed
<1>5. \A b \in m[g] : b \notin Alive \/ (g \in groups /\ b \in members[g])
  BY <1>2 DEF Keeps, Types
<1>6. Types'
  BY <1>1, <1>2, <1>3 DEF Types
<1>7. ListsDisjoint'
  <2>1. ASSUME NEW h \in gs \cup todo, h # g PROVE m[g] \cap m[h] = {} \/ g \notin gs \cup todo
    <3>1. h \in groups \cup todo /\ m[h] = members[h] /\ members[h] \subseteq Alive
      BY <1>2, <1>4, <2>1 DEF Types
    <3>2. CASE g \in groups
      <4>1. members[g] \cap members[h] = {}
        BY <1>2, <2>1, <3>1, <3>2 DEF ListsDisjoint
      <4> QED BY <1>5, <3>1, <4>1
    <3>3. CASE g \notin groups
      BY <1>5, <3>1, <3>3
    <3> QED BY <3>2, <3>3
  <2>2. ASSUME NEW h \in gs \cup todo, NEW k \in gs \cup todo, h # k
        PROVE  m[h] \cap m[k] = {}
    <3>1. CASE h = g
      BY <2>1, <2>2, <3>1
    <3>2. CASE k = g
      BY <2>1, <2>2, <3>2
    <3>3. CASE h # g /\ k # g
      <4>1. h \in groups \cup todo /\ k \in groups \cup todo
        BY <1>2, <3>3 DEF Types
      <4>2. m[h] = members[h] /\ m[k] = members[k]
        BY <1>2, <3>3, <4>1 DEF Types
      <4> QED BY <1>2, <2>2, <4>1, <4>2 DEF ListsDisjoint
    <3> QED BY <3>1, <3>2, <3>3
  <2> QED BY <1>1, <2>2 DEF ListsDisjoint
<1>8. ListsInjective'
  <2>1. ASSUME NEW h \in gs PROVE OnePerUrl(m[h])
    <3>1. CASE h = g
      BY <3>1, <2>1
    <3>2. CASE h # g
      <4>1. h \in groups /\ m[h] = members[h]
        BY <2>1, <3>2
      <4> QED BY <1>2, <4>1 DEF ListsInjective
    <3> QED BY <3>1, <3>2
  <2> QED BY <1>1, <2>1 DEF ListsInjective, OnePerUrl
<1>9. Ahead'
  <2>1. ASSUME NEW h \in todo, NEW b \in m[h] PROVE b \in Alive \cup Listed(gs, m)
    <3>1. CASE h = g
      BY <1>2, <1>4, <1>5, <2>1, <3>1 DEF Listed, Types
    <3>2. CASE h # g
      <4>1. m[h] = members[h]
        BY <1>2, <3>2 DEF Types
      <4> QED BY <1>4, <2>1, <4>1
    <3> QED BY <3>1, <3>2
  <2>2. Listed(todo, m) \subseteq Alive \cup Listed(gs, m)
    BY <2>1 DEF Listed
  <2>3. ASSUME NEW b \in unseen \cap Listed(gs, m), b \notin backends PROVE b \in Listed(todo, m)
    <3>1. PICK h \in todo : b \in members[h]
      BY <1>2, <2>3 DEF Ahead, Listed
    <3>2. PICK k \in gs : b \in m[k]
      BY <2>3 DEF Listed
    <3>3. CASE h # g
      <4>1. m[h] = members[h]
        BY <1>2, <3>3 DEF Types
      <4> QED BY <3>1, <4>1 DEF Listed
    <3>4. CASE h = g /\ k = g
      BY <3>1, <3>2, <3>4 DEF Listed
    <3>5. CASE h = g /\ k # g
      <4>1. k \in groups /\ m[k] = members[k]
        BY <3>5
      <4>2. members[h] \cap members[k] = {}
        BY <1>2, <3>5, <4>1 DEF ListsDisjoint
      <4> QED BY <3>1, <3>2, <4>1, <4>2
    <3> QED BY <3>3, <3>4, <3>5
  <2>4. Listed(todo, m) = Listed(todo, members)' /\ Listed(gs, m) = Listed(groups, members)'
    BY <1>1 DEF Listed
  <2>5. Alive' = Alive \cup Listed(gs, m)
    BY <1>1, <2>4 DEF Alive
  <2> QED BY <1>1, <1>2, <2>2, <2>3, <2>4, <2>5 DEF Ahead
<1>10. RetiredUnlisted'
  <2>1. ASSUME NEW b \in Alive \ Listed(gs, m), b \notin retired PROVE UrlOf[b] \in unlisted'
    <3>1. PICK h \in groups : b \in members[h]
      BY <2>1 DEF Alive, Listed
    <3> DEFINE u == UrlOf[b]
    <3>2. b \in Bid /\ u \in Url /\ b \in Of(u) /\ h \in Group
      BY <1>2, <3>1, PoolAssumption DEF Types, Of
    <3>3. h \in Listing(groups, members, u)
      BY <3>1, <3>2 DEF Listing
    <3>4. SUFFICES ASSUME h \in gs, m[h] \cap Of(u) # {} PROVE FALSE
      BY <1>1, <3>2, <3>3 DEF Listing
    <3>5. b \notin m[h]
      BY <2>1, <3>4 DEF Listed
    <3>6. h = g /\ Keeps(members[g], m[g])
      BY <3>1, <3>2, <3>4, <3>5
    <3>7. PICK c \in m[h] : c \in Of(u)
      BY <3>4
    <3>8. CASE c \in members[h]
      <4>1. OnePerUrl(members[h])
        BY <1>2, <3>1 DEF ListsInjective
      <4>2. c = b
        BY <3>1, <3>2, <3>7, <3>8, <4>1 DEF OnePerUrl, Of
      <4> QED BY <3>5, <3>7, <4>2
    <3>9. CASE c \notin members[h]
      <4>1. Of(UrlOf[c]) \cap members[h] = {}
        BY <3>6, <3>7, <3>9 DEF Keeps
      <4> QED BY <3>1, <3>2, <3>7, <4>1 DEF Of
    <3> QED BY <3>8, <3>9
  <2>2. unlisted \subseteq unlisted'
    BY <1>1
  <2> QED BY <1>1, <1>2, <2>1, <2>2 DEF RetiredUnlisted
<1> QED BY <1>6, <1>7, <1>8, <1>9, <1>10 DEF SInv

-----------------------------------------------------------------------------
LEMMA StatsStep ==
    ASSUME SInv, [Next]_vars
    PROVE  SInv'
<1> USE DEF vars, table, loop, history
<1>1. Types /\ ListsDisjoint /\ ListsInjective /\ Ahead /\ RetiredUnlisted
  BY DEF SInv
<1>2. CASE Tick
  <2>1. Types' /\ ListsDisjoint' /\ ListsInjective' /\ RetiredUnlisted'
    BY <1>1, <1>2 DEF Tick, Types, ListsDisjoint, ListsInjective, RetiredUnlisted, OnePerUrl
  <2>2. Ahead'
    BY <1>1, <1>2 DEF Tick, Ahead, Listed, Alive
  <2> QED BY <2>1, <2>2 DEF SInv
<1>3. ASSUME NEW g \in Group, NextGroup(g) PROVE SInv'
  <2>1. Types' /\ ListsDisjoint' /\ ListsInjective' /\ RetiredUnlisted'
    BY <1>1, <1>3 DEF NextGroup, Types, ListsDisjoint, ListsInjective, RetiredUnlisted, OnePerUrl
  <2>2. Ahead'
    BY <1>1, <1>3 DEF NextGroup, Ahead, Listed, Alive
  <2> QED BY <2>1, <2>2 DEF SInv
<1>4. ASSUME NEW b \in Bid, Swap(b) PROVE SInv'
  <2>1. Types' /\ ListsDisjoint' /\ ListsInjective' /\ RetiredUnlisted'
    BY <1>1, <1>4 DEF Swap, Types, ListsDisjoint, ListsInjective, RetiredUnlisted, OnePerUrl
  <2>2. Ahead'
    BY <1>1, <1>4 DEF Swap, Ahead, Listed, Alive
  <2> QED BY <2>1, <2>2 DEF SInv
<1>5. CASE Record
  <2>1. Types' /\ ListsDisjoint' /\ ListsInjective' /\ RetiredUnlisted'
    BY <1>1, <1>5 DEF Record, Types, ListsDisjoint, ListsInjective, RetiredUnlisted, OnePerUrl
  <2>2. Ahead'
    BY <1>1, <1>5 DEF Record, Ahead, Listed, Alive
  <2> QED BY <2>1, <2>2 DEF SInv
<1>6. CASE EndSweep
  <2>1. Types' /\ ListsDisjoint' /\ ListsInjective' /\ RetiredUnlisted'
    BY <1>1, <1>6 DEF EndSweep, Types, ListsDisjoint, ListsInjective, RetiredUnlisted, OnePerUrl
  <2>2. Ahead'
    BY <1>1, <1>6 DEF EndSweep, Ahead, Listed, Alive
  <2> QED BY <2>1, <2>2 DEF SInv
<1>7. ASSUME NEW b \in Bid, Fail(b) PROVE SInv'
  <2>1. Types' /\ ListsDisjoint' /\ ListsInjective' /\ RetiredUnlisted'
    <3>1. UrlOf[b] \in Url
      BY PoolAssumption
    <3> QED
      BY <1>1, <1>7, <3>1 DEF Fail, Types, ListsDisjoint, ListsInjective, RetiredUnlisted, OnePerUrl
  <2>2. Ahead'
    BY <1>1, <1>7 DEF Fail, Ahead, Listed, Alive
  <2> QED BY <2>1, <2>2 DEF SInv
<1>8. ASSUME NEW b \in Bid, Drop(b) PROVE SInv'
  <2>1. UrlOf[b] \in unlisted /\ UrlOf[b] \in Url /\ b \notin Listed(todo, members)
    BY <1>1, <1>8, PoolAssumption DEF Drop, RetiredUnlisted
  <2>2. Types' /\ ListsDisjoint' /\ ListsInjective'
    BY <1>1, <1>8, <2>1 DEF Drop, Types, ListsDisjoint, ListsInjective, OnePerUrl
  <2>3. RetiredUnlisted'
    BY <1>1, <1>8, <2>1 DEF Drop, Types, RetiredUnlisted
  <2>4. Ahead'
    BY <1>1, <1>8, <2>1 DEF Drop, Ahead, Listed, Alive
  <2> QED BY <2>2, <2>3, <2>4 DEF SInv
<1>9. ASSUME NEW g \in Group, NEW new \in SUBSET Bid, Apply(g, new) PROVE SInv'
  <2> DEFINE m == [members EXCEPT ![g] = new]
  <2>1. m \in [Group -> SUBSET Bid] /\ m[g] = new /\ \A h \in Group : h # g => m[h] = members[h]
    BY <1>1 DEF Types
  <2>2. g \in groups /\ OnePerUrl(new) /\ Keeps(members[g], new) /\ Installed(groups, m)
    BY <1>9 DEF Apply
  <2>3. groups \in SUBSET Group
    BY <1>1 DEF Types
  <2> HIDE DEF m
  <2> QED BY <2>1, <2>2, <2>3, InstalledKeeps
<1>10. ASSUME NEW g \in Group, NEW new \in SUBSET Bid, AddRoute(g, new) PROVE SInv'
  <2> DEFINE m == [members EXCEPT ![g] = new]
             gs == groups \cup {g}
  <2>1. m \in [Group -> SUBSET Bid] /\ m[g] = new /\ \A h \in Group : h # g => m[h] = members[h]
    BY <1>1 DEF Types
  <2>2. g \notin groups \cup todo /\ OnePerUrl(new) /\ Keeps({}, new) /\ Installed(gs, m)
    BY <1>10 DEF AddRoute
  <2>3. gs \in SUBSET Group /\ (\A h \in groups : h \in gs) /\ (\A h \in gs : h # g => h \in groups)
    BY <1>1 DEF Types
  <2> HIDE DEF m, gs
  <2> QED BY <2>1, <2>2, <2>3, InstalledKeeps
<1>11. ASSUME NEW g \in Group, RemoveRoute(g) PROVE SInv'
  <2> DEFINE gs == groups \ {g}
  <2>1. g \in groups /\ Installed(gs, members) /\ members \in [Group -> SUBSET Bid]
    BY <1>1, <1>11 DEF RemoveRoute, Types
  <2>2. /\ gs \in SUBSET Group /\ g \notin gs
        /\ \A h \in groups : h # g => h \in gs
        /\ \A h \in gs : h \in groups
    BY <1>1 DEF Types
  <2> HIDE DEF gs
  <2> QED BY <2>1, <2>2, InstalledKeeps
<1>12. CASE UNCHANGED vars
  BY <1>1, <1>12
  DEF SInv, Types, ListsDisjoint, ListsInjective, Ahead, RetiredUnlisted, Listed, Alive, OnePerUrl
<1> QED BY <1>2, <1>3, <1>4, <1>5, <1>6, <1>7, <1>8, <1>9, <1>10, <1>11, <1>12 DEF Next

-----------------------------------------------------------------------------
(* The theorems.                                                           *)

(* The inductive invariant holds in every reachable state.                 *)
THEOREM StatsInvariance == Spec => []SInv
<1> QED BY StatsInit, StatsStep, PTL DEF Spec

(* A sweep samples every backend that was listed all through it, whatever  *)
(* reloads do to the table and the lists meanwhile.                        *)
THEOREM SweepsComplete == Spec => []SweepIsComplete
<1>1. SInv => SweepIsComplete
  BY DEF SInv, Ahead, SweepIsComplete, Listed
<1> QED BY <1>1, StatsInvariance, PTL

(* Errors are lost only of a URL that a reload has taken off a list.       *)
THEOREM ErrorsStay == Spec => []LostWithBackendOnly
<1>1. SInv => LostWithBackendOnly
  BY DEF SInv, RetiredUnlisted, LostWithBackendOnly
<1> QED BY <1>1, StatsInvariance, PTL

-----------------------------------------------------------------------------
(* The samples.  The ring is inductive by itself; that a URL gets one      *)
(* sample for each route at most is so because the routes that have        *)
(* listed it and are not to come any more always number at least the       *)
(* samples it has, the one in hand, and the one it may get of the list at  *)
(* hand, which has each URL once.                                          *)
Samples == [sweep : Int, e : Int]
SampleTypes ==
    /\ recorded \in [Url -> Seq(Samples)]
    /\ data \in [Url -> Seq(Samples)]
    /\ sweep \in Nat /\ e \in Int
    /\ backends \subseteq Bid
    /\ pc = "record" => cur \in Bid
    /\ \A u \in Url : \A k \in DOMAIN recorded[u] : recorded[u][k].sweep <= sweep

OneToCome ==
    /\ \A g \in todo : OnePerUrl(members[g])
    /\ OnePerUrl(backends)
    /\ pc = "record" \/ cur = None

RoutesSeen ==
    /\ IsFiniteSet(groups)
    /\ \A u \in Url : IsFiniteSet(routes[u]) /\ Listing(todo, members, u) \subseteq routes[u]
    /\ routes \in [Url -> SUBSET Group]

Now(u) == {k \in DOMAIN recorded[u] : recorded[u][k].sweep = sweep}
ToCome(u) == (IF pc = "record" /\ UrlOf[cur] = u THEN 1 ELSE 0)
             + (IF backends \cap Of(u) = {} THEN 0 ELSE 1)
Charged == \A u \in Url : Cardinality(Now(u)) + ToCome(u) <= Cardinality(routes[u] \ todo)

SampleInv == SampleTypes /\ OneToCome /\ RoutesSeen /\ RingIsRecent /\ Charged

LEMMA MaxOfTwo ==
    ASSUME NEW a \in Int, NEW b \in Int
    PROVE  Max({a, b}) = IF a >= b THEN a ELSE b
<1> DEFINE P(x) == x \in {a, b} /\ \A y \in {a, b} : x >= y
           m == IF a >= b THEN a ELSE b
<1>1. P(m) /\ \A x : P(x) => x = m
  OBVIOUS
<1>2. Max({a, b}) = CHOOSE x : P(x)
  BY Zenon DEF Max
<1> HIDE DEF P, m
<1>3. P(CHOOSE x : P(x))
  BY <1>1, Zenon
<1>4. Max({a, b}) = m
  BY <1>1, <1>2, <1>3
<1> QED BY <1>4 DEF m

\* One more sample, and the samples from the m-th on.
LEMMA WindowGrows ==
    ASSUME NEW S, NEW r \in Seq(S), NEW x \in S
    PROVE  /\ SubSeq(r, 1, Len(r)) = r
           /\ SubSeq(Append(r, x), 1, Len(r) + 1) = Append(r, x)
<1>1. Append(r, x) \in Seq(S) /\ Len(Append(r, x)) = Len(r) + 1
  BY AppendProperties
<1> QED BY <1>1, SubSeqFull

LEMMA WindowMoves ==
    ASSUME NEW S, NEW r \in Seq(S), NEW x \in S, NEW m \in 1 .. Len(r)
    PROVE  Append(Tail(SubSeq(r, m, Len(r))), x) = SubSeq(Append(r, x), m + 1, Len(r) + 1)
<1> DEFINE k == Len(r)
           q == Append(r, x)
<1>1. k \in Nat /\ k \in m .. k
  BY LenProperties
<1>2. Tail(SubSeq(r, m, k)) = SubSeq(r, m + 1, k)
  BY <1>1, HeadTailOfSubSeq
<1>3. q \in Seq(S) /\ Len(q) = k + 1 /\ q[k + 1] = x /\ q = r \o <<x>>
  BY AppendProperties, AppendIsConcat
<1>4. SubSeq(q, m + 1, k + 1) = SubSeq(q, m + 1, k) \o <<x>>
  <2>1. m + 1 \in 1 .. Len(q) /\ k + 1 \in m + 1 .. Len(q) /\ (k + 1) - 1 = k
    BY <1>1, <1>3
  <2>2. SubSeq(q, m + 1, k + 1) = SubSeq(q, m + 1, (k + 1) - 1) \o <<q[k + 1]>>
    BY <1>3, <2>1, SubSeqRecursiveSecond
  <2> QED BY <1>3, <2>1, <2>2
<1>5. SubSeq(q, m + 1, k) = SubSeq(r, m + 1, k) /\ SubSeq(r, m + 1, k) \in Seq(S)
  <2>1. CASE m = k
    <3>1. k < m + 1 /\ m + 1 \in Int /\ k \in Int
      BY <1>1, <2>1
    <3>2. SubSeq(q, m + 1, k) = <<>> /\ SubSeq(r, m + 1, k) = <<>>
      BY <3>1, SubSeqEmpty
    <3> QED BY <3>2
  <2>2. CASE m < k
    <3>1. m + 1 \in 1 .. k /\ k \in 1 .. k /\ <<x>> \in Seq(S)
      BY <1>1, <2>2
    <3>2. SubSeq(r \o <<x>>, m + 1, k) = SubSeq(r, m + 1, k)
      BY <3>1, SubSeqOfConcat1
    <3>3. \A i \in m + 1 .. k : r[i] \in S
      BY <1>1, ElementOfSeq
    <3>4. SubSeq(r, m + 1, k) \in Seq(S)
      BY <3>1, <3>3, SubSeqProperties
    <3> QED BY <1>3, <3>2, <3>4
  <2> QED BY <1>1, <2>1, <2>2
<1>6. Append(SubSeq(r, m + 1, k), x) = SubSeq(r, m + 1, k) \o <<x>>
  BY <1>5, AppendIsConcat
<1> QED BY <1>2, <1>4, <1>5, <1>6

\* The ring of the latest samples, when there is one more.
LatestOf(r, n) == SubSeq(r, Max({1, n - MaxSamples + 1}), n)
Latest(r) == LatestOf(r, Len(r))
LEMMA LatestIs ==
    ASSUME NEW r, NEW n \in Nat
    PROVE  /\ n <= MaxSamples => LatestOf(r, n) = SubSeq(r, 1, n)
           /\ n >= MaxSamples => LatestOf(r, n) = SubSeq(r, n - MaxSamples + 1, n)
<1> DEFINE m == n - MaxSamples + 1
<1>1. m \in Int /\ (n <= MaxSamples => 1 >= m) /\ (n >= MaxSamples => m >= 1)
  BY BoundAssumption
<1>2. LatestOf(r, n) = SubSeq(r, Max({1, m}), n)
  BY Zenon DEF LatestOf
<1> HIDE DEF m
<1>3. Max({1, m}) = IF 1 >= m THEN 1 ELSE m
  BY <1>1, MaxOfTwo
<1>4. (n <= MaxSamples => Max({1, m}) = 1) /\ (n >= MaxSamples => Max({1, m}) = m)
  BY <1>1, <1>3
<1> QED BY <1>2, <1>4, Zenon DEF m

LEMMA RingOfAppend ==
    ASSUME NEW S, NEW r \in Seq(S), NEW x \in S
    PROVE  /\ Latest(r) \in Seq(S)
           /\ Append(IF Full(Latest(r)) THEN Tail(Latest(r)) ELSE Latest(r), x) = Latest(Append(r, x))
<1> DEFINE n == Len(r)
           q == Append(r, x)
<1>1. n \in Nat /\ n + 1 \in Nat /\ MaxSamples \in Nat \ {0}
  BY LenProperties, BoundAssumption
<1>2. q \in Seq(S) /\ Len(q) = n + 1
  BY AppendProperties
<1>3. Latest(r) = LatestOf(r, n) /\ Latest(q) = LatestOf(q, n + 1)
  BY <1>2 DEF Latest
<1> HIDE DEF n, q
<1>4. /\ n < MaxSamples => LatestOf(r, n) = SubSeq(r, 1, n) /\ LatestOf(q, n + 1) = SubSeq(q, 1, n + 1)
      /\ n >= MaxSamples => /\ LatestOf(r, n) = SubSeq(r, n - MaxSamples + 1, n)
                            /\ LatestOf(q, n + 1) = SubSeq(q, n + 1 - MaxSamples + 1, n + 1)
  BY <1>1, LatestIs
<1>5. CASE n < MaxSamples
  <2>1. Latest(r) = SubSeq(r, 1, n) /\ Latest(q) = SubSeq(q, 1, n + 1)
    BY <1>1, <1>3, <1>5, <1>4
  <2>2. Latest(r) = r /\ Latest(q) = q
    BY <2>1, WindowGrows DEF n, q
  <2>3. ~Full(r)
    BY <1>1, <1>5 DEF Full, n
  <2> QED BY <2>2, <2>3 DEF q
<1>6. CASE n >= MaxSamples
  <2> DEFINE m == n - MaxSamples + 1
  <2>1. m \in 1 .. n /\ n + 1 - MaxSamples + 1 = m + 1 /\ n - m + 1 = MaxSamples /\ n + 1 >= MaxSamples
    BY <1>1, <1>6
  <2>2. LatestOf(r, n) = SubSeq(r, m, n)
    BY <1>1, <1>6, <1>4
  <2>3. LatestOf(q, n + 1) = SubSeq(q, n + 1 - MaxSamples + 1, n + 1)
    BY <1>1, <1>6, <1>4
  <2> HIDE DEF m
  <2>4. Latest(r) = SubSeq(r, m, n) /\ Latest(q) = SubSeq(q, m + 1, n + 1)
    BY <1>3, <2>1, <2>2, <2>3
  <2>5. Latest(r) \in Seq(S) /\ Len(Latest(r)) = MaxSamples
    <3>1. \A i \in m .. n : r[i] \in S
      BY <1>1, <2>1, ElementOfSeq DEF n
    <3>2. m \in Int /\ n \in Int /\ m <= n
      BY <1>1, <2>1
    <3>3. SubSeq(r, m, n) \in Seq(S) /\ Len(SubSeq(r, m, n)) = n - m + 1
      BY <3>1, <3>2, SubSeqProperties
    <3> QED BY <2>1, <2>4, <3>3
  <2>6. Full(Latest(r))
    BY <1>1, <2>5 DEF Full
  <2>7. Append(Tail(SubSeq(r, m, n)), x) = SubSeq(q, m + 1, n + 1)
    BY <2>1, WindowMoves DEF n, q
  <2> QED BY <2>4, <2>5, <2>6, <2>7 DEF q
<1> QED BY <1>1, <1>5, <1>6

LEMMA SampleInit == Init => SampleInv
<1> SUFFICES ASSUME Init PROVE SampleInv
  OBVIOUS
<1> USE DEF Init
<1>1. \A u \in Url : recorded[u] = <<>> /\ data[u] = <<>> /\ routes[u] = {}
  OBVIOUS
<1>2. SampleTypes
  <2>1. <<>> \in Seq(Samples) /\ DOMAIN <<>> = {}
    OBVIOUS
  <2>2. recorded \in [Url -> Seq(Samples)] /\ data \in [Url -> Seq(Samples)]
    BY <2>1
  <2>3. \A u \in Url : \A k \in DOMAIN recorded[u] : recorded[u][k].sweep <= sweep
    BY <1>1, <2>1
  <2> QED BY <2>2, <2>3 DEF SampleTypes
<1>3. OneToCome
  BY DEF OneToCome, OnePerUrl
<1>4. RoutesSeen
  BY <1>1, FS_EmptySet DEF RoutesSeen, Listing
<1>5. RingIsRecent
  <2>1. SubSeq(<<>>, 1, 0) = <<>>
    BY SubSeqEmpty
  <2>2. Len(<<>>) = 0 /\ 0 \in Nat /\ 0 <= MaxSamples
    BY BoundAssumption
  <2>3. LatestOf(<<>>, 0) = <<>>
    BY <2>1, <2>2, LatestIs
  <2>4. Latest(<<>>) = <<>>
    BY <2>2, <2>3 DEF Latest
  <2>5. \A u \in Url : data[u] = Latest(recorded[u])
    BY <1>1, <2>4
  <2> QED BY <2>5, Zenon DEF RingIsRecent, Latest, LatestOf
<1>6. Charged
  <2> SUFFICES ASSUME NEW u \in Url PROVE Cardinality(Now(u)) + ToCome(u) <= Cardinality(routes[u] \ todo)
    BY DEF Charged
  <2>1. Now(u) = {} /\ routes[u] \ todo = {}
    BY <1>1 DEF Now
  <2>2. ToCome(u) = 0
    BY DEF ToCome
  <2> QED BY <2>1, <2>2, FS_EmptySet
<1> QED BY <1>2, <1>3, <1>4, <1>5, <1>6 DEF SampleInv

-----------------------------------------------------------------------------
LEMMA NowIsFinite ==
    ASSUME SampleTypes, NEW u \in Url
    PROVE  IsFiniteSet(Now(u)) /\ Cardinality(Now(u)) \in Nat
<1>1. Len(recorded[u]) \in Nat /\ DOMAIN recorded[u] = 1 .. Len(recorded[u])
  BY LenProperties DEF SampleTypes
<1>2. IsFiniteSet(1 .. Len(recorded[u])) /\ Now(u) \in SUBSET (1 .. Len(recorded[u]))
  BY <1>1, FS_Interval DEF Now
<1> QED BY <1>2, FS_Subset, FS_CardinalityType

\* A step that leaves the samples and the loop alone.
LEMMA SamplesUntouched ==
    ASSUME SampleInv, UNCHANGED <<recorded, data, loop>>,
           \A g \in todo : OnePerUrl(members[g]) => OnePerUrl(members'[g]),
           RoutesSeen', \A u \in Url : routes[u] \subseteq routes'[u]
    PROVE  SampleInv'
<1>1. SampleTypes /\ OneToCome /\ RoutesSeen /\ RingIsRecent /\ Charged
  BY DEF SampleInv
<1>2. SampleTypes' /\ RingIsRecent'
  BY <1>1 DEF SampleTypes, RingIsRecent, loop
<1>3. OneToCome'
  BY <1>1 DEF OneToCome, loop, OnePerUrl
<1>4. Charged'
  <2> SUFFICES ASSUME NEW u \in Url
               PROVE  Cardinality(Now(u)') + ToCome(u)' <= Cardinality(routes'[u] \ todo')
    BY DEF Charged
  <2>1. Now(u)' = Now(u) /\ ToCome(u)' = ToCome(u) /\ todo' = todo
    BY DEF Now, ToCome, loop
  <2>2. IsFiniteSet(routes'[u] \ todo) /\ routes[u] \ todo \in SUBSET (routes'[u] \ todo)
    BY FS_Subset DEF RoutesSeen
  <2>3. Cardinality(routes[u] \ todo) <= Cardinality(routes'[u] \ todo)
    BY <2>2, FS_Subset
  <2>4. Cardinality(routes[u] \ todo) \in Nat /\ Cardinality(routes'[u] \ todo) \in Nat
    BY <2>2, FS_Subset, FS_CardinalityType
  <2>5. Cardinality(Now(u)) + ToCome(u) <= Cardinality(routes[u] \ todo)
    BY <1>1 DEF Charged
  <2>6. Cardinality(Now(u)) + ToCome(u) \in Int
    BY <1>1, NowIsFinite DEF ToCome
  <2> QED BY <2>1, <2>3, <2>4, <2>5, <2>6
<1> QED BY <1>2, <1>3, <1>4 DEF SampleInv

\* What the three reloads have in common.
LEMMA InstalledSamples ==
    ASSUME Types, SampleInv, NEW gs \in SUBSET Group, IsFiniteSet(gs), NEW m \in [Group -> SUBSET Bid],
           Installed(gs, m),
           \A g \in todo : m[g] = members[g] \/ (OnePerUrl(m[g]) /\ g \in gs)
    PROVE  SampleInv'
<1>1. /\ groups' = gs /\ members' = m /\ UNCHANGED <<recorded, data, loop>>
      /\ routes' = [u \in Url |-> routes[u] \cup Listing(gs, m, u)]
  BY DEF Installed
<1>2. RoutesSeen
  BY DEF SampleInv
<1>3. todo' = todo
  BY <1>1 DEF loop
<1>4. ASSUME NEW u \in Url
      PROVE  /\ routes'[u] = routes[u] \cup Listing(gs, m, u)
             /\ Listing(gs, m, u) \in SUBSET gs
             /\ IsFiniteSet(routes'[u]) /\ Listing(todo, m, u) \subseteq routes'[u]
  <2>1. routes'[u] = routes[u] \cup Listing(gs, m, u) /\ Listing(gs, m, u) \in SUBSET gs
    BY <1>1 DEF Listing
  <2>2. IsFiniteSet(routes'[u])
    BY <1>2, <2>1, FS_Subset, FS_Union DEF RoutesSeen
  <2>3. Listing(todo, m, u) \subseteq routes'[u]
    BY <1>2, <2>1 DEF RoutesSeen, Listing
  <2> QED BY <2>1, <2>2, <2>3
<1>5. routes' \in [Url -> SUBSET Group]
  BY <1>1, <1>2, <1>4 DEF RoutesSeen
<1>6. RoutesSeen'
  BY <1>1, <1>3, <1>4, <1>5 DEF RoutesSeen, Listing
<1>7. \A u \in Url : routes[u] \subseteq routes'[u]
  BY <1>4
<1>8. \A g \in todo : OnePerUrl(members[g]) => OnePerUrl(members'[g])
  BY <1>1
<1> QED BY <1>1, <1>6, <1>7, <1>8, SamplesUntouched

-----------------------------------------------------------------------------
LEMMA SampledBefore ==
    ASSUME SampleTypes, NEW u \in Url, NEW k \in DOMAIN recorded[u]
    PROVE  recorded[u][k].sweep <= sweep + 1 /\ recorded[u][k].sweep # sweep + 1
<1>1. recorded[u][k] \in Samples
  BY LenProperties, ElementOfSeq DEF SampleTypes
<1>2. recorded[u][k].sweep <= sweep /\ recorded[u][k].sweep \in Int /\ sweep \in Nat
  BY <1>1 DEF SampleTypes, Samples
<1> QED BY <1>2

LEMMA TickSamples ==
    ASSUME SInv, SampleInv, Tick
    PROVE  SampleInv'
<1>1. SampleTypes /\ OneToCome /\ RoutesSeen /\ RingIsRecent /\ Charged
  BY DEF SampleInv
<1>2. /\ sweep' = sweep + 1 /\ todo' = groups /\ pc' = "sweep" /\ backends = {} /\ pc = "sleep"
      /\ routes' = [u \in Url |-> Listing(groups, members, u)]
      /\ UNCHANGED <<groups, members, backends, cur, e, recorded, data>>
  BY DEF Tick, SInv, Ahead, table
<1>3. SampleTypes'
  <2>1. ASSUME NEW u \in Url, NEW k \in DOMAIN recorded[u] PROVE recorded[u][k].sweep <= sweep + 1
    BY <1>1, SampledBefore
  <2> QED BY <1>1, <1>2, <2>1 DEF SampleTypes
<1>4. OneToCome'
  BY <1>1, <1>2 DEF OneToCome, SInv, ListsInjective, OnePerUrl
<1>5. RoutesSeen'
  <2>1. \A u \in Url : routes'[u] = Listing(groups, members, u) /\ routes'[u] \in SUBSET groups
    BY <1>2 DEF Listing
  <2>2. \A u \in Url : IsFiniteSet(routes'[u])
    BY <1>1, <2>1, FS_Subset DEF RoutesSeen
  <2>3. groups \subseteq Group
    BY DEF SInv, Types
  <2>4. routes' \in [Url -> SUBSET Group]
    BY <1>2, <2>1, <2>3
  <2> QED BY <1>1, <1>2, <2>1, <2>2, <2>4 DEF RoutesSeen, Listing
<1>6. RingIsRecent'
  BY <1>1, <1>2 DEF RingIsRecent
<1>7. Charged'
  <2> SUFFICES ASSUME NEW u \in Url
               PROVE  Cardinality(Now(u)') + ToCome(u)' <= Cardinality(routes'[u] \ todo')
    BY DEF Charged
  <2>1. \A k \in DOMAIN recorded[u] : recorded[u][k].sweep # sweep + 1
    BY <1>1, SampledBefore
  <2>2. Now(u)' = {}
    BY <1>2, <2>1 DEF Now
  <2>3. ToCome(u)' = 0
    BY <1>2 DEF ToCome
  <2>4. IsFiniteSet(routes'[u] \ todo')
    BY <1>5, FS_Subset DEF RoutesSeen
  <2> QED BY <2>2, <2>3, <2>4, FS_EmptySet, FS_CardinalityType
<1> QED BY <1>3, <1>4, <1>5, <1>6, <1>7 DEF SampleInv

LEMMA NextGroupSamples ==
    ASSUME SInv, SampleInv, NEW g \in Group, NextGroup(g)
    PROVE  SampleInv'
<1>1. SampleTypes /\ OneToCome /\ RoutesSeen /\ RingIsRecent /\ Charged
  BY DEF SampleInv
<1>2. /\ g \in todo /\ todo' = todo \ {g} /\ backends = {} /\ backends' = members[g] /\ pc = "sweep"
      /\ UNCHANGED <<groups, members, pc, cur, e, sweep, recorded, routes, data>>
  BY DEF NextGroup, table, history
<1>3. SampleTypes'
  <2>1. backends' \subseteq Bid
    BY <1>2 DEF SInv, Types
  <2> QED BY <1>1, <1>2, <2>1 DEF SampleTypes
<1>4. OneToCome'
  BY <1>1, <1>2 DEF OneToCome, OnePerUrl
<1>5. RoutesSeen' /\ RingIsRecent'
  BY <1>1, <1>2 DEF RoutesSeen, Listing, RingIsRecent
<1>6. Charged'
  <2> SUFFICES ASSUME NEW u \in Url
               PROVE  Cardinality(Now(u)') + ToCome(u)' <= Cardinality(routes'[u] \ todo')
    BY DEF Charged
  <2>1. Now(u)' = Now(u) /\ routes'[u] = routes[u] /\ ToCome(u) = 0
    BY <1>2 DEF Now, ToCome
  <2>2. Cardinality(Now(u)) <= Cardinality(routes[u] \ todo) /\ Cardinality(Now(u)) \in Nat
    BY <1>1, <2>1, NowIsFinite DEF Charged
  <2>3. IsFiniteSet(routes[u] \ todo) /\ IsFiniteSet(routes[u] \ todo')
        /\ Cardinality(routes[u] \ todo) \in Nat /\ Cardinality(routes[u] \ todo') \in Nat
    BY <1>1, FS_Subset, FS_CardinalityType DEF RoutesSeen
  <2>4. CASE members[g] \cap Of(u) = {}
    <3>1. ToCome(u)' = 0
      BY <1>2, <2>4 DEF ToCome
    <3>2. routes[u] \ todo \in SUBSET (routes[u] \ todo')
      BY <1>2
    <3>3. Cardinality(routes[u] \ todo) <= Cardinality(routes[u] \ todo')
      BY <2>3, <3>2, FS_Subset
    <3> QED BY <2>1, <2>2, <2>3, <3>1, <3>3
  <2>5. CASE members[g] \cap Of(u) # {}
    <3>1. ToCome(u)' = 1
      BY <1>2, <2>5 DEF ToCome
    <3>2. g \in routes[u]
      BY <1>1, <1>2, <2>5 DEF RoutesSeen, Listing
    <3>3. routes[u] \ todo' = (routes[u] \ todo) \cup {g} /\ g \notin routes[u] \ todo
      BY <1>2, <3>2
    <3>4. Cardinality(routes[u] \ todo') = Cardinality(routes[u] \ todo) + 1
      BY <2>3, <3>3, FS_AddElement
    <3> QED BY <2>1, <2>2, <2>3, <3>1, <3>4
  <2> QED BY <2>4, <2>5
<1> QED BY <1>3, <1>4, <1>5, <1>6 DEF SampleInv

LEMMA SwapSamples ==
    ASSUME SInv, SampleInv, NEW b \in Bid, Swap(b)
    PROVE  SampleInv'
<1>1. SampleTypes /\ OneToCome /\ RoutesSeen /\ RingIsRecent /\ Charged
  BY DEF SampleInv
<1>2. /\ pc = "sweep" /\ b \in backends /\ backends' = backends \ {b}
      /\ cur' = b /\ e' = error_count[b] /\ pc' = "record"
      /\ UNCHANGED <<groups, members, todo, sweep, recorded, routes, data>>
  BY DEF Swap, table
<1>3. SampleTypes'
  <2>1. e' \in Int
    BY <1>2 DEF SInv, Types
  <2> QED BY <1>1, <1>2, <2>1 DEF SampleTypes
<1>4. OneToCome'
  BY <1>1, <1>2 DEF OneToCome, OnePerUrl
<1>5. RoutesSeen' /\ RingIsRecent'
  BY <1>1, <1>2 DEF RoutesSeen, Listing, RingIsRecent
<1>6. Charged'
  <2> SUFFICES ASSUME NEW u \in Url
               PROVE  Cardinality(Now(u)') + ToCome(u)' <= Cardinality(routes'[u] \ todo')
    BY DEF Charged
  <2>1. Now(u)' = Now(u) /\ routes'[u] = routes[u] /\ todo' = todo
    BY <1>2 DEF Now
  <2>2. CASE UrlOf[b] = u
    <3>1. backends' \cap Of(u) = {} /\ backends \cap Of(u) # {}
      BY <1>1, <1>2, <2>2 DEF Of, OneToCome, OnePerUrl
    <3>2. ToCome(u)' = 1 /\ ToCome(u) = 1
      BY <1>2, <2>2, <3>1 DEF ToCome
    <3> QED BY <1>1, <2>1, <3>2 DEF Charged
  <2>3. CASE UrlOf[b] # u
    <3>1. backends' \cap Of(u) = backends \cap Of(u)
      BY <1>2, <2>3 DEF Of
    <3>2. ToCome(u)' = ToCome(u)
      BY <1>2, <2>3, <3>1 DEF ToCome
    <3> QED BY <1>1, <2>1, <3>2 DEF Charged
  <2> QED BY <2>2, <2>3
<1> QED BY <1>3, <1>4, <1>5, <1>6 DEF SampleInv

LEMMA RecordSamples ==
    ASSUME SInv, SampleInv, Record
    PROVE  SampleInv'
<1> DEFINE v == UrlOf[cur]
           q == Append(recorded[v], Sample)
<1>1. SampleTypes /\ OneToCome /\ RoutesSeen /\ RingIsRecent /\ Charged
  BY DEF SampleInv
<1>2. /\ pc = "record" /\ pc' = "sweep" /\ cur' = None /\ e' = 0
      /\ recorded' = [recorded EXCEPT ![v] = q]
      /\ data' = [data EXCEPT ![v] = Append(IF Full(data[v]) THEN Tail(data[v]) ELSE data[v], Sample)]
      /\ UNCHANGED <<groups, members, todo, backends, sweep, routes>>
  BY DEF Record, table
<1>3. v \in Url /\ recorded[v] \in Seq(Samples)
  BY <1>1, <1>2, PoolAssumption DEF SampleTypes
<1>4. Sample \in Samples /\ Sample.sweep = sweep
  BY <1>1 DEF SampleTypes, Sample, Samples
<1>5. /\ q \in Seq(Samples) /\ Len(q) = Len(recorded[v]) + 1
      /\ \A k \in 1 .. Len(recorded[v]) : q[k] = recorded[v][k]
      /\ q[Len(recorded[v]) + 1] = Sample
  BY <1>3, <1>4, AppendProperties
<1>6. DOMAIN q = 1 .. Len(recorded[v]) + 1 /\ DOMAIN recorded[v] = 1 .. Len(recorded[v])
      /\ Len(recorded[v]) \in Nat
  BY <1>3, <1>5, LenProperties
<1>7. \A u \in Url : data[u] = Latest(recorded[u])
  BY <1>1, Zenon DEF RingIsRecent, Latest, LatestOf
<1>8. data'[v] = Latest(q) /\ Latest(q) \in Seq(Samples)
  <2>1. data'[v] = Append(IF Full(data[v]) THEN Tail(data[v]) ELSE data[v], Sample)
    BY <1>1, <1>2, <1>3 DEF SampleTypes
  <2>2. data[v] = Latest(recorded[v])
    BY <1>3, <1>7
  <2>3. data'[v] = Latest(q)
    BY <1>3, <1>4, <2>1, <2>2, RingOfAppend
  <2>4. Latest(q) \in Seq(Samples)
    BY <1>4, <1>5, RingOfAppend
  <2> QED BY <2>3, <2>4
<1> HIDE DEF q, v
<1>9. recorded'[v] = q /\ \A u \in Url : u # v => recorded'[u] = recorded[u] /\ data'[u] = data[u]
  BY <1>1, <1>2, <1>3 DEF SampleTypes
<1>10. SampleTypes'
  <2>1. recorded' \in [Url -> Seq(Samples)]
    BY <1>1, <1>2, <1>5 DEF SampleTypes
  <2>2. data' \in [Url -> Seq(Samples)]
    <3>1. \A u \in Url : data'[u] \in Seq(Samples)
      BY <1>1, <1>8, <1>9 DEF SampleTypes
    <3>2. DOMAIN data' = Url /\ data' = [u \in Url |-> data'[u]]
      BY <1>1, <1>2 DEF SampleTypes
    <3> QED BY <3>1, <3>2
  <2>3. ASSUME NEW u \in Url, NEW k \in DOMAIN recorded'[u] PROVE recorded'[u][k].sweep <= sweep
    <3>1. CASE u # v
      BY <1>1, <1>9, <2>3, <3>1 DEF SampleTypes
    <3>2. CASE u = v /\ k \in DOMAIN recorded[v]
      BY <1>1, <1>3, <1>5, <1>6, <1>9, <3>2 DEF SampleTypes
    <3>3. CASE u = v /\ k = Len(recorded[v]) + 1
      BY <1>1, <1>4, <1>5, <1>9, <3>3 DEF SampleTypes
    <3> QED BY <1>6, <1>9, <2>3, <3>1, <3>2, <3>3
  <2> QED BY <1>1, <1>2, <2>1, <2>2, <2>3 DEF SampleTypes
<1>11. OneToCome' /\ RoutesSeen'
  BY <1>1, <1>2 DEF OneToCome, RoutesSeen, Listing, OnePerUrl
<1>12. RingIsRecent'
  <2>1. \A u \in Url : data'[u] = Latest(recorded'[u])
    BY <1>7, <1>8, <1>9
  <2> QED BY <2>1, Zenon DEF RingIsRecent, Latest, LatestOf
<1>13. Charged'
  <2> SUFFICES ASSUME NEW u \in Url
               PROVE  Cardinality(Now(u)') + ToCome(u)' <= Cardinality(routes'[u] \ todo')
    BY DEF Charged
  <2>1. Cardinality(Now(u)) + ToCome(u) <= Cardinality(routes[u] \ todo)
    BY <1>1 DEF Charged
  <2>2. routes'[u] \ todo' = routes[u] \ todo
    BY <1>2
  <2>3. CASE u # v
    <3>1. Now(u)' = Now(u)
      BY <1>2, <1>9, <2>3 DEF Now
    <3>2. ToCome(u)' = ToCome(u)
      BY <1>2, <2>3 DEF ToCome, v
    <3> QED BY <2>1, <2>2, <3>1, <3>2
  <2>4. CASE u = v
    <3> DEFINE k == Len(recorded[v]) + 1
    <3>1. Now(u)' = {i \in DOMAIN q : q[i].sweep = sweep}
      BY <1>2, <1>9, <2>4 DEF Now
    <3>2. k \notin Now(u) /\ k \in DOMAIN q /\ q[k].sweep = sweep
      BY <1>4, <1>5, <1>6, <2>4 DEF Now
    <3>3. DOMAIN q = DOMAIN recorded[v] \cup {k} /\ \A i \in DOMAIN recorded[v] : q[i] = recorded[v][i]
      BY <1>5, <1>6
    <3> HIDE DEF k
    <3>4. Now(u)' = Now(u) \cup {k}
      BY <2>4, <3>1, <3>2, <3>3 DEF Now
    <3>5. Cardinality(Now(u)') = Cardinality(Now(u)) + 1 /\ Cardinality(Now(u)) \in Nat
      BY <1>1, <3>2, <3>4, NowIsFinite, FS_AddElement
    <3>6. ToCome(u) = ToCome(u)' + 1 /\ ToCome(u)' \in Nat
      BY <1>2, <2>4 DEF ToCome, v
    <3> QED BY <2>1, <2>2, <3>5, <3>6
  <2> QED BY <2>3, <2>4
<1> QED BY <1>10, <1>11, <1>12, <1>13 DEF SampleInv

LEMMA SampleStep ==
    ASSUME SInv, SampleInv, [Next]_vars
    PROVE  SampleInv'
<1>1. SampleTypes /\ OneToCome /\ RoutesSeen /\ RingIsRecent /\ Charged
  BY DEF SampleInv
<1>2. CASE Tick
  BY <1>2, TickSamples
<1>3. CASE Record
  BY <1>3, RecordSamples
<1>4. CASE EndSweep
  <2>1. /\ pc = "sweep" /\ pc' = "sleep"
        /\ UNCHANGED <<groups, members, todo, backends, cur, e, sweep, recorded, routes, data>>
    BY <1>4 DEF EndSweep, table, history
  <2>2. SampleTypes' /\ OneToCome' /\ RoutesSeen' /\ RingIsRecent'
    BY <1>1, <2>1 DEF SampleTypes, OneToCome, RoutesSeen, Listing, RingIsRecent, OnePerUrl
  <2>3. \A u \in Url : Now(u)' = Now(u) /\ ToCome(u)' = ToCome(u)
    BY <2>1 DEF Now, ToCome
  <2>4. Charged'
    BY <1>1, <2>1, <2>3 DEF Charged
  <2> QED BY <2>2, <2>4 DEF SampleInv
<1>5. ASSUME NEW g \in Group, NextGroup(g) PROVE SampleInv'
  BY <1>5, NextGroupSamples
<1>6. ASSUME NEW b \in Bid, Swap(b) PROVE SampleInv'
  BY <1>6, SwapSamples
<1>7. CASE (\E b \in Bid : Fail(b) \/ Drop(b)) \/ UNCHANGED vars
  <2>1. UNCHANGED <<groups, members, recorded, data, loop, routes>>
    BY <1>7 DEF Fail, Drop, vars, table, history
  <2>2. todo' = todo
    BY <2>1 DEF loop
  <2>3. RoutesSeen'
    BY <1>1, <2>1, <2>2 DEF RoutesSeen, Listing
  <2> QED BY <2>1, <2>3, SamplesUntouched
<1>8. Types
  BY DEF SInv
<1>9. ASSUME NEW g \in Group, NEW new \in SUBSET Bid, Apply(g, new) \/ AddRoute(g, new) PROVE SampleInv'
  <2> DEFINE m == [members EXCEPT ![g] = new]
             gs == groups \cup {g}
  <2>1. m \in [Group -> SUBSET Bid] /\ m[g] = new /\ \A h \in Group : h # g => m[h] = members[h]
    BY <1>8 DEF Types
  <2>2. gs \in SUBSET Group /\ IsFiniteSet(gs) /\ g \in gs
    BY <1>1, <1>8, FS_AddElement DEF RoutesSeen, Types
  <2>3. Installed(gs, m) /\ OnePerUrl(new)
    <3>1. CASE Apply(g, new)
      <4>1. gs = groups
        BY <3>1 DEF Apply
      <4> QED BY <3>1, <4>1 DEF Apply
    <3>2. CASE AddRoute(g, new)
      BY <3>2 DEF AddRoute
    <3> QED BY <1>9, <3>1, <3>2
  <2>4. \A h \in todo : m[h] = members[h] \/ (OnePerUrl(m[h]) /\ h \in gs)
    BY <1>8, <2>1, <2>2, <2>3 DEF Types
  <2> HIDE DEF m, gs
  <2> QED BY <1>8, <2>1, <2>2, <2>3, <2>4, InstalledSamples
<1>10. ASSUME NEW g \in Group, RemoveRoute(g) PROVE SampleInv'
  <2> DEFINE gs == groups \ {g}
  <2>1. gs \in SUBSET Group /\ IsFiniteSet(gs) /\ members \in [Group -> SUBSET Bid]
    BY <1>1, <1>8, FS_Subset DEF RoutesSeen, Types
  <2>2. Installed(gs, members)
    BY <1>10 DEF RemoveRoute
  <2> HIDE DEF gs
  <2> QED BY <1>8, <2>1, <2>2, InstalledSamples
<1> QED BY <1>2, <1>3, <1>4, <1>5, <1>6, <1>7, <1>9, <1>10 DEF Next

-----------------------------------------------------------------------------
(* The theorems about the samples.                                         *)

(* The second invariant, which needs the first, holds in every reachable   *)
(* state.                                                                  *)
THEOREM SampleInvariance == Spec => []SampleInv
<1>1. SInv /\ SampleInv /\ [Next]_vars => SampleInv'
  BY SampleStep
<1> QED BY SampleInit, <1>1, StatsInvariance, PTL DEF Spec

(* The ring of a URL holds its latest samples, all of them while there are *)
(* no more than the maximum.                                               *)
THEOREM RingKeepsLatest == Spec => []RingIsRecent
<1>1. SampleInv => RingIsRecent
  BY DEF SampleInv
<1> QED BY <1>1, SampleInvariance, PTL

(* A URL gets no more samples in a sweep than routes have listed it during *)
(* the sweep, whatever reloads do to the lists between two of its steps.   *)
THEOREM OneSamplePerRoute == Spec => []SamplesPerRoute
<1>1. ASSUME SampleInv, NEW u \in Url PROVE Cardinality(Now(u)) <= Cardinality(routes[u])
  <2>1. SampleTypes /\ RoutesSeen /\ Charged
    BY <1>1 DEF SampleInv
  <2>2. Cardinality(Now(u)) \in Nat /\ ToCome(u) \in Nat
    BY <2>1, NowIsFinite DEF ToCome
  <2>3. IsFiniteSet(routes[u]) /\ routes[u] \ todo \in SUBSET routes[u]
    BY <2>1 DEF RoutesSeen
  <2>4. /\ Cardinality(routes[u] \ todo) <= Cardinality(routes[u])
        /\ Cardinality(routes[u] \ todo) \in Nat /\ Cardinality(routes[u]) \in Nat
    BY <2>3, FS_Subset, FS_CardinalityType
  <2>5. Cardinality(Now(u)) + ToCome(u) <= Cardinality(routes[u] \ todo)
    BY <2>1 DEF Charged
  <2> QED BY <2>2, <2>4, <2>5
<1>2. SampleInv => SamplesPerRoute
  BY <1>1 DEF SamplesPerRoute, Now
<1> QED BY <1>2, SampleInvariance, PTL

-----------------------------------------------------------------------------
(* Sums.  A sum over finitely many units changes by what one entry adds or *)
(* by what it changes.                                                     *)
Units(f) == UNION {{x} \X (1 .. f[x]) : x \in DOMAIN f}

LEMMA UnitsOfOne ==
    ASSUME NEW x, NEW m \in Nat
    PROVE  IsFiniteSet({x} \X (1 .. m)) /\ Cardinality({x} \X (1 .. m)) = m
<1>1. IsFiniteSet(1 .. m) /\ Cardinality(1 .. m) = m
  <2>1. IsFiniteSet(1 .. m) /\ Cardinality(1 .. m) = IF 1 > m THEN 0 ELSE m - 1 + 1
    BY FS_Interval
  <2> QED BY <2>1
<1>2. IsFiniteSet({x}) /\ Cardinality({x}) = 1
  BY FS_Singleton
<1>3. IsFiniteSet({x} \X (1 .. m)) /\ Cardinality({x} \X (1 .. m)) = 1 * m
  BY <1>1, <1>2, FS_Product
<1> QED BY <1>3

LEMMA SumIsNat ==
    ASSUME NEW f, IsFiniteSet(Units(f))
    PROVE  Sum(f) \in Nat /\ Sum(f) = Cardinality(Units(f))
BY FS_CardinalityType DEF Sum, Units

LEMMA SumOfMore ==
    ASSUME NEW f, NEW g, NEW b, b \notin DOMAIN f, DOMAIN g = DOMAIN f \cup {b}, g[b] \in Nat,
           \A x \in DOMAIN f : g[x] = f[x], IsFiniteSet(Units(f))
    PROVE  IsFiniteSet(Units(g)) /\ Sum(g) = Sum(f) + g[b]
<1> DEFINE A == Units(f)
           B == {b} \X (1 .. g[b])
<1>1. Units(g) = A \cup B
  <2>1. \A x \in DOMAIN f : {x} \X (1 .. g[x]) = {x} \X (1 .. f[x])
    OBVIOUS
  <2> QED BY <2>1 DEF Units
<1>2. A \cap B = {}
  <2>1. \A z \in A : z[1] \in DOMAIN f
    BY DEF Units
  <2>2. \A z \in B : z[1] = b
    OBVIOUS
  <2> QED BY <2>1, <2>2
<1>3. IsFiniteSet(A) /\ IsFiniteSet(B) /\ Cardinality(B) = g[b]
  BY UnitsOfOne
<1> HIDE DEF A, B
<1>4. IsFiniteSet(A \cup B) /\ Cardinality(A \cup B) = Cardinality(A) + Cardinality(B) - Cardinality(A \cap B)
  BY <1>3, FS_Union
<1>5. Cardinality(A \cap B) = 0
  BY <1>2, FS_EmptySet
<1>6. Sum(f) = Cardinality(A) /\ Sum(f) \in Nat
  BY SumIsNat DEF A
<1>7. IsFiniteSet(Units(g)) /\ Sum(g) = Cardinality(A \cup B)
  BY <1>1, <1>4, SumIsNat
<1>8. Cardinality(A \cup B) = Sum(f) + g[b]
  BY <1>3, <1>4, <1>5, <1>6
<1> QED BY <1>7, <1>8

LEMMA SumOfChange ==
    ASSUME NEW f, NEW g, NEW b \in DOMAIN f, DOMAIN g = DOMAIN f, f[b] \in Nat, g[b] \in Nat,
           \A x \in DOMAIN f \ {b} : g[x] = f[x], IsFiniteSet(Units(f))
    PROVE  IsFiniteSet(Units(g)) /\ Sum(f) \in Nat /\ Sum(g) \in Nat /\ Sum(g) + f[b] = Sum(f) + g[b]
<1> DEFINE h == [x \in DOMAIN f \ {b} |-> f[x]]
<1>1. /\ b \notin DOMAIN h /\ DOMAIN f = DOMAIN h \cup {b} /\ DOMAIN g = DOMAIN h \cup {b}
      /\ \A x \in DOMAIN h : f[x] = h[x] /\ g[x] = h[x]
  OBVIOUS
<1> HIDE DEF h
<1>2. IsFiniteSet(Units(h))
  <2>1. Units(h) \in SUBSET Units(f)
    <3>1. \A x \in DOMAIN h : {x} \X (1 .. h[x]) = {x} \X (1 .. f[x])
      BY <1>1
    <3> QED BY <1>1, <3>1 DEF Units
  <2> QED BY <2>1, FS_Subset
<1>3. Sum(f) = Sum(h) + f[b] /\ IsFiniteSet(Units(g)) /\ Sum(g) = Sum(h) + g[b]
  BY <1>1, <1>2, SumOfMore
<1>4. Sum(h) \in Nat /\ Sum(f) \in Nat /\ Sum(g) \in Nat
  BY <1>2, <1>3, SumIsNat
<1> QED BY <1>3, <1>4

-----------------------------------------------------------------------------
(* The errors: counts are numbers, finitely many in all.                   *)
Sampled(u) == [k \in DOMAIN recorded[u] |-> recorded[u][k].e]
Counted(u) == Restrict(error_count, Of(u))
InHand(u) == IF cur \in Of(u) THEN e ELSE 0

CountTypes ==
    /\ error_count \in [Bid -> Nat] /\ e \in Nat
    /\ raised \in [Url -> Nat] /\ lost \in [Url -> Nat]
    /\ \A u \in Url : \A k \in DOMAIN recorded[u] : recorded[u][k].e \in Nat

UnitsFinite == \A u \in Url : IsFiniteSet(Units(Sampled(u))) /\ IsFiniteSet(Units(Counted(u)))

ErrorInv == CountTypes /\ UnitsFinite /\ ErrorsConserved

LEMMA ErrorsAre ==
    ErrorsConserved <=> \A u \in Url : raised[u] = Sum(Sampled(u)) + InHand(u) + Sum(Counted(u)) + lost[u]
BY DEF ErrorsConserved, Sampled, Counted, InHand

LEMMA ErrorInit == Init => ErrorInv
<1> SUFFICES ASSUME Init PROVE ErrorInv
  OBVIOUS
<1>1. CountTypes
  BY DEF Init, CountTypes
<1>2. ASSUME NEW u \in Url
      PROVE  /\ Units(Sampled(u)) = {} /\ Units(Counted(u)) = {}
             /\ raised[u] = 0 /\ lost[u] = 0 /\ InHand(u) = 0
  <2>1. DOMAIN Sampled(u) = {} /\ \A b \in DOMAIN Counted(u) : Counted(u)[b] = 0
    BY <1>2 DEF Init, Sampled, Counted, Restrict, Of
  <2> QED BY <2>1 DEF Units, Init, InHand
<1>3. UnitsFinite
  BY <1>2, FS_EmptySet DEF UnitsFinite
<1>4. \A u \in Url : Sum(Sampled(u)) = 0 /\ Sum(Counted(u)) = 0
  BY <1>2, FS_EmptySet, SumIsNat
<1> QED BY <1>1, <1>2, <1>3, <1>4, ErrorsAre DEF ErrorInv

\* What the sums are made of, before a step and after it.
LEMMA SumsAre ==
    ASSUME Types, ErrorInv, NEW u \in Url
    PROVE  /\ IsFiniteSet(Units(Sampled(u))) /\ IsFiniteSet(Units(Counted(u)))
           /\ Sum(Sampled(u)) \in Nat /\ Sum(Counted(u)) \in Nat
           /\ InHand(u) \in Nat /\ raised[u] \in Nat /\ lost[u] \in Nat
           /\ raised[u] = Sum(Sampled(u)) + InHand(u) + Sum(Counted(u)) + lost[u]
<1>1. CountTypes /\ UnitsFinite /\ ErrorsConserved
  BY DEF ErrorInv
<1>2. IsFiniteSet(Units(Sampled(u))) /\ IsFiniteSet(Units(Counted(u)))
  BY <1>1 DEF UnitsFinite
<1>3. InHand(u) \in Nat /\ raised[u] \in Nat /\ lost[u] \in Nat
  BY <1>1 DEF CountTypes, InHand
<1> QED BY <1>1, <1>2, <1>3, SumIsNat, ErrorsAre

\* The count of one backend changes.
LEMMA CountChanges ==
    ASSUME Types, ErrorInv, NEW b \in Bid, NEW m \in Nat, error_count' = [error_count EXCEPT ![b] = m]
    PROVE  /\ error_count' \in [Bid -> Nat]
           /\ error_count[b] \in Nat /\ UrlOf[b] \in Url
           /\ \A u \in Url : /\ IsFiniteSet(Units(Counted(u)')) /\ Sum(Counted(u)') \in Nat
                             /\ u = UrlOf[b] => Sum(Counted(u)') + error_count[b] = Sum(Counted(u)) + m
                             /\ u # UrlOf[b] => Sum(Counted(u)') = Sum(Counted(u))
<1>1. error_count \in [Bid -> Nat] /\ error_count[b] \in Nat /\ UrlOf[b] \in Url
  BY PoolAssumption DEF ErrorInv, CountTypes
<1>2. error_count' \in [Bid -> Nat] /\ error_count'[b] = m /\ \A c \in Bid : c # b => error_count'[c] = error_count[c]
  BY <1>1
<1>3. ASSUME NEW u \in Url
      PROVE  /\ IsFiniteSet(Units(Counted(u)')) /\ Sum(Counted(u)') \in Nat
             /\ u = UrlOf[b] => Sum(Counted(u)') + error_count[b] = Sum(Counted(u)) + m
             /\ u # UrlOf[b] => Sum(Counted(u)') = Sum(Counted(u))
  <2>1. /\ Counted(u) = [c \in Of(u) |-> error_count[c]]
        /\ Counted(u)' = [c \in Of(u) |-> error_count'[c]]
        /\ Of(u) \subseteq Bid /\ (b \in Of(u) <=> u = UrlOf[b])
    BY DEF Counted, Restrict, Of
  <2>2. IsFiniteSet(Units(Counted(u)))
    BY <1>3, SumsAre
  <2>3. CASE u = UrlOf[b]
    <3> DEFINE f == Counted(u)
               g == Counted(u)'
    <3>1. /\ b \in DOMAIN f /\ DOMAIN g = DOMAIN f /\ f[b] = error_count[b] /\ g[b] = m
          /\ \A c \in DOMAIN f \ {b} : g[c] = f[c]
      BY <1>2, <2>1, <2>3
    <3> HIDE DEF f, g
    <3>2. IsFiniteSet(Units(g)) /\ Sum(f) \in Nat /\ Sum(g) \in Nat /\ Sum(g) + f[b] = Sum(f) + g[b]
      BY <1>1, <2>2, <3>1, SumOfChange DEF f
    <3> QED BY <2>3, <3>1, <3>2 DEF f, g
  <2>4. CASE u # UrlOf[b]
    <3>1. Counted(u)' = Counted(u)
      BY <1>2, <2>1, <2>4
    <3> QED BY <2>2, <2>4, <3>1, SumIsNat
  <2> QED BY <2>3, <2>4
<1> QED BY <1>1, <1>2, <1>3

LEMMA SwapErrors ==
    ASSUME SInv, SampleInv, ErrorInv, NEW b \in Bid, Swap(b)
    PROVE  ErrorInv'
<1>1. /\ pc = "sweep" /\ cur' = b /\ e' = error_count[b]
      /\ error_count' = [error_count EXCEPT ![b] = 0] /\ UNCHANGED <<recorded, raised, lost>>
  BY DEF Swap
<1>2. Types /\ CountTypes /\ cur = None /\ b # None
  BY <1>1, PoolAssumption DEF SInv, ErrorInv, SampleInv, OneToCome
<1>3. /\ error_count' \in [Bid -> Nat] /\ error_count[b] \in Nat /\ UrlOf[b] \in Url
      /\ \A u \in Url : /\ IsFiniteSet(Units(Counted(u)')) /\ Sum(Counted(u)') \in Nat
                        /\ u = UrlOf[b] => Sum(Counted(u)') + error_count[b] = Sum(Counted(u)) + 0
                        /\ u # UrlOf[b] => Sum(Counted(u)') = Sum(Counted(u))
  BY <1>1, <1>2, CountChanges
<1>4. \A u \in Url : Sampled(u)' = Sampled(u)
  BY <1>1 DEF Sampled
<1>5. \A u \in Url : InHand(u) = 0 /\ InHand(u)' = IF u = UrlOf[b] THEN error_count[b] ELSE 0
  BY <1>1, <1>2, PoolAssumption DEF InHand, Of
<1>6. CountTypes'
  BY <1>1, <1>2, <1>3 DEF CountTypes
<1>7. UnitsFinite'
  BY <1>2, <1>3, <1>4, SumsAre DEF UnitsFinite
<1>8. ASSUME NEW u \in Url
      PROVE  raised'[u] = Sum(Sampled(u)') + InHand(u)' + Sum(Counted(u)') + lost'[u]
  <2>1. /\ Sum(Sampled(u)) \in Nat /\ Sum(Counted(u)) \in Nat /\ lost[u] \in Nat
        /\ raised[u] = Sum(Sampled(u)) + InHand(u) + Sum(Counted(u)) + lost[u]
    BY <1>2, <1>8, SumsAre
  <2>2. raised'[u] = raised[u] /\ lost'[u] = lost[u] /\ Sum(Sampled(u)') = Sum(Sampled(u))
    BY <1>1, <1>4, <1>8
  <2>3. CASE u = UrlOf[b]
    <3>1. Sum(Counted(u)') \in Nat /\ Sum(Counted(u)') + error_count[b] = Sum(Counted(u)) + 0
      BY <1>3, <1>8, <2>3
    <3>2. InHand(u) = 0 /\ InHand(u)' = error_count[b]
      BY <1>5, <1>8, <2>3
    <3> QED BY <1>3, <2>1, <2>2, <3>1, <3>2
  <2>4. CASE u # UrlOf[b]
    <3>1. Sum(Counted(u)') = Sum(Counted(u)) /\ InHand(u) = 0 /\ InHand(u)' = 0
      BY <1>3, <1>5, <1>8, <2>4
    <3> QED BY <2>1, <2>2, <3>1
  <2> QED BY <2>3, <2>4
<1>9. ErrorsConserved'
  BY <1>8 DEF ErrorsConserved, Sampled, Counted, InHand
<1> QED BY <1>6, <1>7, <1>9 DEF ErrorInv

LEMMA RecordErrors ==
    ASSUME SInv, SampleInv, ErrorInv, Record
    PROVE  ErrorInv'
<1>1. PICK v : v = UrlOf[cur]
  OBVIOUS
<1>2. /\ pc = "record" /\ cur' = None /\ e' = 0 /\ UNCHANGED <<error_count, raised, lost>>
      /\ recorded' = [recorded EXCEPT ![v] = Append(@, Sample)]
  BY <1>1 DEF Record
<1>3. Types /\ CountTypes /\ cur \in Bid /\ v \in Url /\ recorded \in [Url -> Seq(Samples)] /\ e \in Nat
  BY <1>2, <1>1, PoolAssumption DEF SInv, ErrorInv, SampleInv, SampleTypes, CountTypes
<1>4. Sample \in Samples /\ Sample.e = e
  BY DEF SampleInv, SampleTypes, Sample, Samples
<1> DEFINE r == recorded[v]
<1>5. /\ Len(r) \in Nat /\ DOMAIN r = 1 .. Len(r) /\ recorded'[v] = Append(r, Sample)
      /\ DOMAIN Append(r, Sample) = DOMAIN r \cup {Len(r) + 1}
      /\ Append(r, Sample)[Len(r) + 1] = Sample /\ Len(r) + 1 \notin DOMAIN r
      /\ \A k \in DOMAIN r : Append(r, Sample)[k] = r[k]
  <2>1. r \in Seq(Samples) /\ recorded'[v] = Append(r, Sample)
    BY <1>2, <1>3
  <2> HIDE DEF r
  <2>2. Len(r) \in Nat /\ DOMAIN r = 1 .. Len(r)
    BY <2>1, LenProperties
  <2>3. Append(r, Sample) \in Seq(Samples) /\ Len(Append(r, Sample)) = Len(r) + 1
    BY <1>4, <2>1, AppendProperties
  <2>4. DOMAIN Append(r, Sample) = 1 .. Len(r) + 1
    BY <2>3, LenProperties
  <2>5. /\ Append(r, Sample)[Len(r) + 1] = Sample
        /\ \A k \in DOMAIN r : Append(r, Sample)[k] = r[k]
    BY <1>4, <2>1, <2>2, AppendProperties
  <2> QED BY <2>1, <2>2, <2>4, <2>5
<1>6. \A u \in Url : Counted(u)' = Counted(u)
  BY <1>2 DEF Counted
<1>7. \A u \in Url : u # v => Sampled(u)' = Sampled(u)
  BY <1>2, <1>3 DEF Sampled
<1>8. \A u \in Url : InHand(u)' = 0 /\ InHand(u) = IF u = v THEN e ELSE 0
  BY <1>2, <1>3, <1>1, PoolAssumption DEF InHand, Of
<1>9. IsFiniteSet(Units(Sampled(v)')) /\ Sum(Sampled(v)') = Sum(Sampled(v)) + e
  <2> DEFINE f == Sampled(v)
             g == Sampled(v)'
             k == Len(r) + 1
  <2>1. /\ DOMAIN f = DOMAIN r /\ DOMAIN g = DOMAIN f \cup {k} /\ k \notin DOMAIN f
        /\ g[k] = e /\ \A x \in DOMAIN f : g[x] = f[x]
    BY <1>4, <1>5 DEF Sampled
  <2>2. IsFiniteSet(Units(f))
    BY <1>3, SumsAre
  <2> HIDE DEF f, g, k
  <2>3. IsFiniteSet(Units(g)) /\ Sum(g) = Sum(f) + g[k]
    BY <1>3, <2>1, <2>2, SumOfMore
  <2> QED BY <2>1, <2>3 DEF f, g
<1>10. CountTypes'
  <2>1. ASSUME NEW u \in Url, NEW k \in DOMAIN recorded'[u] PROVE recorded'[u][k].e \in Nat
    <3>1. CASE u = v
      BY <1>3, <1>4, <1>5, <2>1, <3>1 DEF CountTypes
    <3>2. CASE u # v
      <4>1. recorded'[u] = recorded[u]
        BY <1>2, <1>3, <3>2
      <4> QED BY <1>3, <2>1, <4>1 DEF CountTypes
    <3> QED BY <3>1, <3>2
  <2> QED BY <1>2, <1>3, <2>1 DEF CountTypes
<1>11. UnitsFinite'
  <2>1. ASSUME NEW u \in Url PROVE IsFiniteSet(Units(Sampled(u)')) /\ IsFiniteSet(Units(Counted(u)'))
    BY <1>3, <1>6, <1>7, <1>9, <2>1, SumsAre
  <2> QED BY <2>1 DEF UnitsFinite
<1>12. ASSUME NEW u \in Url
       PROVE  raised'[u] = Sum(Sampled(u)') + InHand(u)' + Sum(Counted(u)') + lost'[u]
  <2>1. /\ Sum(Sampled(u)) \in Nat /\ Sum(Counted(u)) \in Nat /\ lost[u] \in Nat
        /\ raised[u] = Sum(Sampled(u)) + InHand(u) + Sum(Counted(u)) + lost[u]
    BY <1>3, <1>12, SumsAre
  <2>2. raised'[u] = raised[u] /\ lost'[u] = lost[u] /\ Sum(Counted(u)') = Sum(Counted(u))
    BY <1>2, <1>6, <1>12
  <2>3. CASE u = v
    <3>1. Sum(Sampled(u)') = Sum(Sampled(u)) + e /\ InHand(u) = e /\ InHand(u)' = 0
      BY <1>8, <1>9, <1>12, <2>3
    <3> QED BY <1>3, <2>1, <2>2, <3>1
  <2>4. CASE u # v
    <3>1. Sum(Sampled(u)') = Sum(Sampled(u)) /\ InHand(u) = 0 /\ InHand(u)' = 0
      BY <1>7, <1>8, <1>12, <2>4
    <3> QED BY <2>1, <2>2, <3>1
  <2> QED BY <2>3, <2>4
<1>13. ErrorsConserved'
  BY <1>12 DEF ErrorsConserved, Sampled, Counted, InHand
<1> QED BY <1>10, <1>11, <1>13 DEF ErrorInv

\* An error raised, or a backend gone with its errors.
LEMMA CounterErrors ==
    ASSUME SInv, SampleInv, ErrorInv, NEW b \in Bid, Fail(b) \/ Drop(b)
    PROVE  ErrorInv'
<1> DEFINE v == UrlOf[b]
           m == error_count'[b]
<1>1. Types /\ CountTypes
  BY DEF SInv, ErrorInv
<1>2. error_count \in [Bid -> Nat] /\ raised \in [Url -> Nat] /\ lost \in [Url -> Nat] /\ v \in Url
  BY <1>1, PoolAssumption DEF CountTypes
<1>3. /\ UNCHANGED <<recorded, cur, e>> /\ error_count' = [error_count EXCEPT ![b] = m] /\ m \in Nat
      /\ raised' \in [Url -> Nat] /\ lost' \in [Url -> Nat]
      /\ \A u \in Url : u # v => raised'[u] = raised[u] /\ lost'[u] = lost[u]
      /\ raised'[v] + lost[v] + error_count[b] = raised[v] + lost'[v] + m
  <2>1. CASE Fail(b)
    <3>1. /\ error_count' = [error_count EXCEPT ![b] = error_count[b] + 1] /\ lost' = lost
          /\ raised' = [raised EXCEPT ![v] = raised[v] + 1] /\ UNCHANGED <<recorded, cur, e>>
      BY <2>1 DEF Fail, loop
    <3> QED BY <1>2, <3>1
  <2>2. CASE Drop(b)
    <3>1. /\ error_count' = [error_count EXCEPT ![b] = 0] /\ raised' = raised
          /\ lost' = [lost EXCEPT ![v] = lost[v] + error_count[b]] /\ UNCHANGED <<recorded, cur, e>>
      BY <2>2 DEF Drop, loop
    <3> QED BY <1>2, <3>1
  <2> QED BY <2>1, <2>2
<1> HIDE DEF m
<1>4. /\ error_count' \in [Bid -> Nat] /\ error_count[b] \in Nat
      /\ \A u \in Url : /\ IsFiniteSet(Units(Counted(u)')) /\ Sum(Counted(u)') \in Nat
                        /\ u = v => Sum(Counted(u)') + error_count[b] = Sum(Counted(u)) + m
                        /\ u # v => Sum(Counted(u)') = Sum(Counted(u))
  BY <1>1, <1>3, CountChanges
<1> HIDE DEF v
<1>5. \A u \in Url : Sampled(u)' = Sampled(u) /\ InHand(u)' = InHand(u)
  BY <1>3 DEF Sampled, InHand
<1>6. CountTypes'
  BY <1>1, <1>3, <1>4 DEF CountTypes
<1>7. UnitsFinite'
  BY <1>1, <1>4, <1>5, SumsAre DEF UnitsFinite
<1>8. ASSUME NEW u \in Url
      PROVE  raised'[u] = Sum(Sampled(u)') + InHand(u)' + Sum(Counted(u)') + lost'[u]
  <2>1. /\ Sum(Sampled(u)) \in Nat /\ Sum(Counted(u)) \in Nat /\ lost[u] \in Nat /\ InHand(u) \in Nat
        /\ raised[u] \in Nat /\ raised[u] = Sum(Sampled(u)) + InHand(u) + Sum(Counted(u)) + lost[u]
    BY <1>1, <1>8, SumsAre
  <2>2. Sum(Sampled(u)') = Sum(Sampled(u)) /\ InHand(u)' = InHand(u)
    BY <1>5, <1>8
  <2>3. CASE u = v
    <3>1. Sum(Counted(u)') \in Nat /\ Sum(Counted(u)') + error_count[b] = Sum(Counted(u)) + m
      BY <1>4, <1>8, <2>3
    <3>2. raised'[u] \in Nat /\ lost'[u] \in Nat
      BY <1>3, <1>8
    <3>3. raised'[u] + lost[u] + error_count[b] = raised[u] + lost'[u] + m
      BY <1>3, <2>3
    <3> QED BY <1>3, <1>4, <2>1, <2>2, <3>1, <3>2, <3>3
  <2>4. CASE u # v
    <3>1. Sum(Counted(u)') = Sum(Counted(u)) /\ raised'[u] = raised[u] /\ lost'[u] = lost[u]
      BY <1>3, <1>4, <1>8, <2>4
    <3> QED BY <2>1, <2>2, <3>1
  <2> QED BY <2>3, <2>4
<1>9. ErrorsConserved'
  BY <1>8 DEF ErrorsConserved, Sampled, Counted, InHand
<1> QED BY <1>6, <1>7, <1>9 DEF ErrorInv

LEMMA ErrorStep ==
    ASSUME SInv, SampleInv, ErrorInv, [Next]_vars
    PROVE  ErrorInv'
<1>1. ASSUME UNCHANGED <<error_count, recorded, raised, lost, cur, e>> PROVE ErrorInv'
  BY <1>1 DEF ErrorInv, CountTypes, UnitsFinite, ErrorsConserved, Sampled, Counted
<1>2. CASE Record
  BY <1>2, RecordErrors
<1>3. ASSUME NEW b \in Bid, Swap(b) PROVE ErrorInv'
  BY <1>3, SwapErrors
<1>4. ASSUME NEW b \in Bid, Fail(b) \/ Drop(b) PROVE ErrorInv'
  BY <1>4, CounterErrors
<1>5. CASE Tick \/ EndSweep \/ (\E g \in Group : NextGroup(g)) \/ UNCHANGED vars
  BY <1>1, <1>5 DEF Tick, EndSweep, NextGroup, vars, history, loop
<1>6. CASE \/ \E g \in Group : RemoveRoute(g)
           \/ \E g \in Group, new \in SUBSET Bid : Apply(g, new) \/ AddRoute(g, new)
  BY <1>1, <1>6 DEF RemoveRoute, Apply, AddRoute, Installed, loop
<1> QED BY <1>2, <1>3, <1>4, <1>5, <1>6 DEF Next

(* Every error of a URL is in one of its samples, in the hand of the loop, *)
(* in the counter of a backend, or went with a backend that a reload took  *)
(* off a list; whatever fails between two steps of the loop, and whichever *)
(* routes share the URL (sample_loop).                                     *)
THEOREM NoErrorLost == Spec => []ErrorsConserved
<1>1. SInv /\ SampleInv /\ ErrorInv /\ [Next]_vars => ErrorInv'
  BY ErrorStep
<1>2. ErrorInv => ErrorsConserved
  BY DEF ErrorInv
<1> QED BY ErrorInit, <1>1, <1>2, StatsInvariance, SampleInvariance, PTL DEF Spec
=============================================================================
