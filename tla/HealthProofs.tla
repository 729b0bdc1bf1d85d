----------------------------- MODULE HealthProofs -----------------------------
(***************************************************************************)
(* Theorems about the health checker and the rolling update, for every     *)
(* number of routes and backends and all times.                            *)
(***************************************************************************)
EXTENDS HealthTimes, RollingUpdate, FiniteSetTheorems, WellFoundedInduction, TLAPS

-----------------------------------------------------------------------------
(* Places: there are finitely many, and each backend has one.              *)
LEMMA LeastOf ==
    ASSUME NEW S, S \subseteq Nat, S # {}
    PROVE  Min(S) \in S /\ \A j \in S : Min(S) <= j
<1> DEFINE R == OpToRel(<, Nat)
<1>1. IsWellFoundedOn(R, Nat)
  BY NatLessThanWellFounded
<1>2. \A j, k \in Nat : j < k => <<j, k>> \in R
  BY DEF OpToRel
<1> HIDE DEF R
<1>3. PICK k \in S : \A j \in S : ~(<<j, k>> \in R)
  BY <1>1, WFMin
<1>4. \A j \in S : k <= j
  <2>1. \A j \in S : j \in Nat /\ k \in Nat /\ ~(j < k)
    BY <1>2, <1>3
  <2> QED BY <2>1
<1> DEFINE P(x) == x \in S /\ \A j \in S : x <= j
<1>5. Min(S) = CHOOSE x : P(x)
  BY Zenon DEF Min
<1>6. P(k)
  BY <1>4
<1> HIDE DEF P
<1>7. P(CHOOSE x : P(x))
  BY <1>6, Zenon
<1> QED BY <1>5, <1>7 DEF P

LEMMA PlacesFinite == IsFiniteSet(Place) /\ Count \in Nat
<1> DEFINE f == [n \in DOMAIN Routes |-> {n} \X DOMAIN Routes[n]]
           T == {{n} \X DOMAIN Routes[n] : n \in DOMAIN Routes}
<1>1. IsFiniteSet(DOMAIN Routes) /\ \A n \in DOMAIN Routes : IsFiniteSet(DOMAIN Routes[n])
  <2>1. Len(Routes) \in Nat /\ DOMAIN Routes = 1 .. Len(Routes)
    BY RoutesAssumption
  <2>2. \A n \in DOMAIN Routes : Len(Routes[n]) \in Nat /\ DOMAIN Routes[n] = 1 .. Len(Routes[n])
    BY RoutesAssumption
  <2> QED BY <2>1, <2>2, FS_Interval
<1>2. f \in Surjection(DOMAIN Routes, T)
  BY DEF Surjection
<1>3. IsFiniteSet(T)
  BY <1>1, <1>2, FS_Surjection
<1>4. ASSUME NEW n \in DOMAIN Routes PROVE IsFiniteSet({n} \X DOMAIN Routes[n])
  <2>1. IsFiniteSet({n}) /\ IsFiniteSet(DOMAIN Routes[n])
    BY <1>1, FS_Singleton
  <2> QED BY <2>1, FS_Product
<1>5. IsFiniteSet(Place)
  <2>1. \A t \in T : IsFiniteSet(t)
    BY <1>4
  <2> QED BY <1>3, <2>1, FS_UNION DEF Place
<1> QED BY <1>5, FS_CardinalityType DEF Count

LEMMA PlaceIs == \A p : p \in Place <=> \E n \in DOMAIN Routes : \E k \in DOMAIN Routes[n] : p = <<n, k>>
BY DEF Place

LEMMA PlacesAreNats ==
    DOMAIN Routes \subseteq Nat /\ \A n \in DOMAIN Routes : DOMAIN Routes[n] \subseteq Nat
<1>1. DOMAIN Routes \subseteq Nat
  BY RoutesAssumption
<1>2. ASSUME NEW n \in DOMAIN Routes PROVE DOMAIN Routes[n] \subseteq Nat
  <2>1. Routes[n] \in Seq(Backend)
    BY RoutesAssumption
  <2> QED BY <2>1
<1> QED BY <1>1, <1>2

\* Where a backend is listed, the places up to there, and the time it takes to
\* probe as many backends.
Home(b) == CHOOSE p \in Place : Routes[p[1]][p[2]] = b
UpTo(b) == {p \in Place : p[1] < Home(b)[1] \/ (p[1] = Home(b)[1] /\ p[2] <= Home(b)[2])}
Work(S) == Cardinality(S) * Timeout

LEMMA HomeOf ==
    ASSUME NEW b \in Backend
    PROVE  /\ Home(b)[1] \in DOMAIN Routes /\ Home(b)[2] \in DOMAIN Routes[Home(b)[1]]
           /\ Routes[Home(b)[1]][Home(b)[2]] = b
           /\ <<Home(b)[1], Home(b)[2]>> \in Place
           /\ \A n \in DOMAIN Routes : \A k \in DOMAIN Routes[n] :
                Routes[n][k] = b => n = Home(b)[1] /\ k = Home(b)[2]
           /\ Home(b)[1] \in Nat /\ Home(b)[2] \in Nat /\ b # Gone
<1>1. \E n \in DOMAIN Routes : b \in Range(Routes[n])
  BY DEF Backend
<1>2. \E n \in DOMAIN Routes : \E k \in DOMAIN Routes[n] : Routes[n][k] = b
  BY <1>1 DEF Range
<1>3. \E p \in Place : Routes[p[1]][p[2]] = b
  <2>1. PICK n : n \in DOMAIN Routes /\ \E k \in DOMAIN Routes[n] : Routes[n][k] = b
    BY <1>2
  <2>2. PICK k \in DOMAIN Routes[n] : Routes[n][k] = b
    BY <2>1
  <2>3. <<n, k>> \in Place /\ Routes[<<n, k>>[1]][<<n, k>>[2]] = b
    BY <2>1, <2>2, PlaceIs
  <2> QED BY <2>3
<1>4. Home(b) \in Place /\ Routes[Home(b)[1]][Home(b)[2]] = b
  BY <1>3 DEF Home
<1> DEFINE h == Home(b)
<1>5. PICK n : n \in DOMAIN Routes /\ \E k \in DOMAIN Routes[n] : h = <<n, k>>
  BY <1>4, PlaceIs
<1>7. PICK k \in DOMAIN Routes[n] : h = <<n, k>>
  BY <1>5
<1>6. \A m \in DOMAIN Routes : \A j \in DOMAIN Routes[m] : Routes[m][j] = b => <<m, j>> = <<n, k>>
  <2> SUFFICES ASSUME NEW m \in DOMAIN Routes, NEW j \in DOMAIN Routes[m], Routes[m][j] = b
               PROVE  <<m, j>> = <<n, k>>
    OBVIOUS
  <2>1. <<m, j>> \in Place /\ <<n, k>> \in Place
    BY <1>5, <1>7, PlaceIs
  <2>2. Routes[<<m, j>>[1]][<<m, j>>[2]] = Routes[<<n, k>>[1]][<<n, k>>[2]]
    BY <1>4, <1>7
  <2> QED BY <2>1, <2>2, RoutesAssumption
<1>8. n \in Nat /\ k \in Nat /\ b # Gone
  BY <1>5, <1>7, PlacesAreNats, RoutesAssumption
<1> QED BY <1>4, <1>5, <1>6, <1>7, <1>8, PlaceIs

LEMMA Times == Interval \in Nat /\ Cooldown \in Nat /\ Timeout \in Nat /\ Timeout > 0
BY TimesAssumption

LEMMA Less ==
    \A m, n, k \in Nat : /\ m <= k => m - n <= k
                         /\ m < k \/ (m <= k /\ n >= 1) => m - n < k
OBVIOUS

LEMMA Product == \A m, t \in Nat : m * t \in Nat /\ (m + 1) * t = m * t + t
OBVIOUS

LEMMA ProductGrows ==
    ASSUME NEW m \in Nat, NEW n \in Nat, NEW t \in Nat, m <= n
    PROVE  m * t <= n * t
OBVIOUS

LEMMA ProductSum == \A m, n, t \in Nat : (m + n) * t = m * t + n * t
OBVIOUS

LEMMA WorkOf ==
    ASSUME NEW S \in SUBSET Place
    PROVE  /\ Work(S) \in Nat
           /\ \A T \in SUBSET S : Work(T) <= Work(S)
           /\ \A p \in S : Work(S \ {p}) + Timeout = Work(S)
           /\ S = {} => Work(S) = 0
<1>1. IsFiniteSet(S) /\ Cardinality(S) \in Nat
  BY PlacesFinite, FS_Subset, FS_CardinalityType
<1>2. Work(S) \in Nat
  BY <1>1, Times, Product DEF Work
<1>3. ASSUME NEW T \in SUBSET S PROVE Work(T) <= Work(S)
  <2>1. Cardinality(T) \in Nat /\ Cardinality(T) <= Cardinality(S)
    BY <1>1, FS_Subset, FS_CardinalityType
  <2> QED BY <1>1, <2>1, Times, ProductGrows DEF Work
<1>4. ASSUME NEW p \in S PROVE Work(S \ {p}) + Timeout = Work(S)
  <2>1. Cardinality(S \ {p}) = Cardinality(S) - 1 /\ Cardinality(S \ {p}) \in Nat
    BY <1>1, FS_RemoveElement, FS_CardinalityType
  <2>2. Cardinality(S) = Cardinality(S \ {p}) + 1
    BY <1>1, <2>1
  <2> QED BY <2>1, <2>2, Times, Product DEF Work
<1>5. S = {} => Work(S) = 0
  BY Times, FS_EmptySet DEF Work
<1> QED BY <1>2, <1>3, <1>4, <1>5

LEMMA WorkApart ==
    ASSUME NEW S \in SUBSET Place, NEW T \in SUBSET Place, S \cap T = {}
    PROVE  Work(S) + Work(T) <= Count * Timeout
<1>1. /\ IsFiniteSet(S) /\ Cardinality(S) \in Nat
      /\ IsFiniteSet(T) /\ Cardinality(T) \in Nat
  BY PlacesFinite, FS_Subset, FS_CardinalityType
<1>2. Cardinality(S \cup T) = Cardinality(S) + Cardinality(T)
  <2>1. Cardinality(S \cup T) = Cardinality(S) + Cardinality(T) - Cardinality(S \cap T)
    BY <1>1, FS_Union
  <2>2. Cardinality(S \cap T) = 0
    BY FS_EmptySet
  <2> QED BY <1>1, <2>1, <2>2
<1>3. Cardinality(S \cup T) <= Count
  BY PlacesFinite, FS_Subset DEF Count
<1>4. Work(S) + Work(T) = (Cardinality(S) + Cardinality(T)) * Timeout
  BY <1>1, Times, ProductSum DEF Work
<1>5. (Cardinality(S) + Cardinality(T)) * Timeout <= Count * Timeout
  <2>1. Cardinality(S) + Cardinality(T) \in Nat /\ Cardinality(S) + Cardinality(T) <= Count /\ Count \in Nat
    BY <1>1, <1>2, <1>3, PlacesFinite
  <2> QED BY <2>1, Times, ProductGrows
<1> QED BY <1>4, <1>5

-----------------------------------------------------------------------------
(* Types, and what the clone of a list holds.                              *)
LEMMA AtIs ==
    ASSUME TypeOK, DOMAIN backends # {}
    PROVE  /\ At \in DOMAIN backends /\ \A k \in DOMAIN backends : At <= k
           /\ DOMAIN backends \subseteq Nat /\ pc \in {"backend", "probe"}
           /\ group - 1 \in DOMAIN Routes /\ group \in Nat
           /\ Probed = Gone \/ (Probed = Routes[group - 1][At] /\ Probed \in listed)
           /\ DOMAIN Rest = DOMAIN backends \ {At}
           /\ \A k \in DOMAIN Rest : Rest[k] = backends[k]
<1>1. /\ pc \in {"backend", "probe"} /\ group - 1 \in DOMAIN Routes /\ group \in Nat
      /\ DOMAIN backends \subseteq DOMAIN Routes[group - 1]
      /\ \A k \in DOMAIN backends :
           backends[k] = Gone \/ (backends[k] = Routes[group - 1][k] /\ backends[k] \in listed)
  BY DEF TypeOK
<1>2. DOMAIN backends \subseteq Nat
  <2>1. Routes[group - 1] \in Seq(Backend)
    BY <1>1, RoutesAssumption
  <2>2. DOMAIN Routes[group - 1] = 1 .. Len(Routes[group - 1]) /\ Len(Routes[group - 1]) \in Nat
    BY <2>1
  <2> QED BY <1>1, <2>2
<1>3. At \in DOMAIN backends /\ \A k \in DOMAIN backends : At <= k
  BY <1>2, LeastOf DEF At
<1> QED BY <1>1, <1>2, <1>3 DEF Probed, Rest, Restrict

LEMMA TypeInit == Init => TypeOK
<1> SUFFICES ASSUME Init PROVE TypeOK
  OBVIOUS
<1>1. 0 \in 0 .. Cooldown /\ 0 \in 0 .. Interval /\ 1 \in 1 .. Len(Routes) + 1 /\ DOMAIN backends = {}
  BY Times, RoutesAssumption DEF Init
<1> QED BY <1>1 DEF Init, TypeOK, Lasting

\* The list is what it was, or a part of it.
LEMMA TypeStep == TypeOK /\ [Next]_vars => TypeOK'
<1> SUFFICES ASSUME TypeOK, [Next]_vars PROVE TypeOK'
  OBVIOUS
<1> USE DEF loopVars
<1>1. Len(Routes) \in Nat /\ DOMAIN Routes = 1 .. Len(Routes)
  BY RoutesAssumption
<1>2. CASE WakeUp
  BY <1>1, <1>2 DEF WakeUp, TypeOK, Lasting
<1>3. CASE NextGroup
  <2> DEFINE P == {k \in DOMAIN Routes[group] : Routes[group][k] \in listed}
  <2>1. DOMAIN backends' = P /\ \A k \in P : backends'[k] = Routes[group][k]
    BY <1>3 DEF NextGroup, Restrict
  <2>2. group' = group + 1 /\ group \in DOMAIN Routes /\ group' - 1 = group /\ group' \in 1 .. Len(Routes) + 1
    BY <1>1, <1>3 DEF NextGroup
  <2> QED BY <1>3, <2>1, <2>2 DEF NextGroup, TypeOK, Lasting
<1>4. CASE EndSweep
  BY <1>4, Times DEF EndSweep, TypeOK, Lasting
<1>5. CASE EndGroup
  BY <1>5 DEF EndGroup, TypeOK, Lasting
<1>6. CASE Skip
  BY <1>6, AtIs DEF Skip, TypeOK, Lasting
<1>7. CASE Send
  <2>1. 0 \in 0 .. Timeout
    BY Times
  <2>2. seen' # {} /\ seen' \subseteq State
    <3>1. Probed # Gone => Probed \in Backend
      BY <1>7, AtIs DEF Send, TypeOK, Lasting
    <3> QED BY <1>7, <3>1 DEF Send, TypeOK, State
  <2> QED BY <1>7, <2>1, <2>2 DEF Send, TypeOK, Lasting
<1>8. ASSUME NEW ok \in BOOLEAN, Store(ok) PROVE TypeOK'
  <2>1. DOMAIN backends # {}
    BY <1>8 DEF Store, TypeOK, Lasting
  <2>2. healthy' \in [Backend -> BOOLEAN] /\ last_health_check' \in [Backend -> 0 .. Cooldown]
    <3>1. 0 \in 0 .. Cooldown
      BY Times
    <3> QED BY <1>8, <3>1 DEF Store, TypeOK, Lasting
  <2> QED BY <1>8, <2>1, <2>2, AtIs DEF Store, TypeOK, Lasting
<1>9. CASE Tick
  <2>1. last_health_check' \in [Backend -> 0 .. Cooldown]
    BY <1>9, Times DEF Tick, Aged, TypeOK, Lasting
  <2> QED BY <1>9, <2>1, Times DEF Tick, TypeOK, Lasting
<1>10. ASSUME NEW b \in Backend, Leave(b) PROVE TypeOK'
  <2>1. /\ DOMAIN backends' = DOMAIN backends
        /\ \A k \in DOMAIN backends : backends'[k] = IF backends[k] = b THEN Gone ELSE backends[k]
    BY <1>10 DEF Leave
  <2> QED BY <1>10, <2>1 DEF Leave, TypeOK, Lasting
<1>11. ASSUME NEW b \in Backend, Join(b) PROVE TypeOK'
  <2>1. 0 \in 0 .. Cooldown
    BY Times
  <2> QED BY <1>11, <2>1 DEF Join, TypeOK, Lasting
<1>12. ASSUME NEW b \in Backend, NEW s \in State, Change(b, s) PROVE TypeOK'
  BY <1>12 DEF Change, TypeOK, Lasting
<1>13. CASE UNCHANGED vars
  BY <1>13 DEF vars, TypeOK, Lasting
<1> QED BY <1>2, <1>3, <1>4, <1>5, <1>6, <1>7, <1>8, <1>9, <1>10, <1>11, <1>12, <1>13 DEF Next

(* Every variable keeps its type; the clone of a list holds backends of    *)
(* that list, each in its position, and those off the list marked as gone; *)
(* and no sleep and no probe outlasts its time (health_check_loop).        *)
THEOREM HealthTyped == Spec => []TypeOK
BY TypeInit, TypeStep, PTL DEF Spec

LEMMA TimesIsSpec == TimesSpec => Spec
<1>1. TimesInit => Init
  BY DEF TimesInit
<1>2. [Next /\ Observe]_timesVars => [Next]_vars
  BY DEF timesVars
<1> QED BY <1>1, <1>2, PTL DEF TimesSpec, Spec

-----------------------------------------------------------------------------
(* How far the sweep is.  Remaining are the places it has still to come to *)
(* or is at; ToCome(b), that it will take up b, and not only what was      *)
(* listed in the place of b before.                                        *)
Remaining ==
    IF pc = "sleep" THEN {}
    ELSE {p \in Place : p[1] >= group} \cup ({group - 1} \X DOMAIN backends)
ToCome(b) ==
    /\ pc # "sleep"
    /\ \/ group <= Home(b)[1]
       \/ /\ group - 1 = Home(b)[1] /\ Home(b)[2] \in DOMAIN backends
          /\ backends[Home(b)[2]] = b
InFlight(b) == pc = "probe" /\ Probed = b

LEMMA RemainingIs ==
    ASSUME TypeOK
    PROVE  /\ Remaining \subseteq Place
           /\ pc # "sleep" => \A n, k : <<n, k>> \in Remaining <=>
                 \/ n >= group /\ n \in DOMAIN Routes /\ k \in DOMAIN Routes[n]
                 \/ n = group - 1 /\ k \in DOMAIN backends
<1>1. \A k \in DOMAIN backends : group - 1 \in DOMAIN Routes /\ k \in DOMAIN Routes[group - 1]
  BY DEF TypeOK
<1>2. {group - 1} \X DOMAIN backends \subseteq Place
  BY <1>1, PlaceIs
<1>3. \A n, k : <<n, k>> \in Place <=> n \in DOMAIN Routes /\ k \in DOMAIN Routes[n]
  BY PlaceIs
<1>4. \A n, k : <<n, k>> \in {p \in Place : p[1] >= group} <=> <<n, k>> \in Place /\ n >= group
  OBVIOUS
<1> QED BY <1>2, <1>3, <1>4 DEF Remaining

LEMMA UpToIs ==
    ASSUME NEW b \in Backend
    PROVE  /\ UpTo(b) \subseteq Place
           /\ \A n \in DOMAIN Routes : \A k \in DOMAIN Routes[n] :
                <<n, k>> \in UpTo(b) <=> n < Home(b)[1] \/ (n = Home(b)[1] /\ k <= Home(b)[2])
           /\ <<Home(b)[1], Home(b)[2]>> \in UpTo(b)
<1>1. \A n \in DOMAIN Routes : \A k \in DOMAIN Routes[n] : <<n, k>> \in Place
  BY PlaceIs
<1>2. \A n \in DOMAIN Routes : \A k \in DOMAIN Routes[n] :
        <<n, k>> \in UpTo(b) <=> n < Home(b)[1] \/ (n = Home(b)[1] /\ k <= Home(b)[2])
  BY <1>1 DEF UpTo
<1>3. Home(b)[1] \in DOMAIN Routes /\ Home(b)[2] \in DOMAIN Routes[Home(b)[1]] /\ Home(b)[2] <= Home(b)[2]
  <2>1. Home(b)[2] \in Nat
    BY HomeOf
  <2>2. Home(b)[1] \in DOMAIN Routes /\ Home(b)[2] \in DOMAIN Routes[Home(b)[1]]
    BY HomeOf
  <2> QED BY <2>1, <2>2
<1> QED BY <1>2, <1>3 DEF UpTo

\* A list is taken up, or a route done.
LEMMA Forward ==
    ASSUME TypeOK, NextGroup \/ EndGroup, NEW b \in listed
    PROVE  /\ pc # "sleep" /\ pc' # "sleep" /\ pc # "probe" /\ pc' # "probe"
           /\ Remaining' \subseteq Remaining
           /\ ToCome(b)' <=> ToCome(b)
           /\ timer' = timer /\ timer = 0
           /\ UNCHANGED <<listed, healthy, last_health_check, alive>>
<1>1. /\ group \in Nat /\ b \in Backend /\ timer = 0
      /\ Home(b)[1] \in DOMAIN Routes /\ Home(b)[2] \in DOMAIN Routes[Home(b)[1]]
      /\ Routes[Home(b)[1]][Home(b)[2]] = b /\ Home(b)[1] \in Nat
      /\ DOMAIN Routes \subseteq Nat
  <2>1. timer = 0 /\ b \in Backend /\ group \in Nat
    BY DEF TypeOK, NextGroup, EndGroup, Lasting
  <2>2. DOMAIN Routes \subseteq Nat
    BY RoutesAssumption
  <2> QED BY <2>1, <2>2, HomeOf
<1>2. CASE EndGroup
  <2>1. DOMAIN backends = {} /\ DOMAIN backends' = {} /\ group' = group /\ pc = "backend" /\ pc' = "group"
    BY <1>2 DEF EndGroup
  <2>2. Remaining' = Remaining
    BY <2>1 DEF Remaining
  <2>3. ToCome(b)' <=> ToCome(b)
    BY <2>1 DEF ToCome
  <2> QED BY <1>1, <1>2, <2>1, <2>2, <2>3 DEF EndGroup
<1>3. CASE NextGroup
  <2> DEFINE P == {k \in DOMAIN Routes[group] : Routes[group][k] \in listed}
  <2>1. DOMAIN backends' = P /\ \A k \in P : backends'[k] = Routes[group][k]
    BY <1>3 DEF NextGroup, Restrict
  <2>2. /\ group \in DOMAIN Routes /\ group' = group + 1 /\ group' - 1 = group
        /\ pc = "group" /\ pc' = "backend" /\ DOMAIN backends = {}
    BY <1>1, <1>3 DEF NextGroup, TypeOK
  <2>3. Remaining' \subseteq Remaining
    <3>1. \A p \in Place : p[1] >= group' => p[1] >= group
      BY <1>1, <2>2, PlaceIs
    <3>2. {group' - 1} \X DOMAIN backends' \subseteq {p \in Place : p[1] >= group}
      BY <1>1, <2>1, <2>2, PlaceIs
    <3> QED BY <2>2, <3>1, <3>2 DEF Remaining
  <2>4. ToCome(b)' <=> ToCome(b)
    <3>1. CASE Home(b)[1] = group
      <4>1. Home(b)[2] \in DOMAIN backends' /\ backends'[Home(b)[2]] = b
        BY <1>1, <2>1, <3>1
      <4> QED BY <1>1, <2>2, <3>1, <4>1 DEF ToCome
    <3>2. CASE Home(b)[1] # group
      BY <1>1, <2>2, <3>2 DEF ToCome
    <3> QED BY <3>1, <3>2
  <2> QED BY <1>1, <1>3, <2>2, <2>3, <2>4 DEF NextGroup
<1> QED BY <1>2, <1>3

\* The backend the loop is at.
LEMMA AtPlace ==
    ASSUME TypeOK, DOMAIN backends # {}, NEW b \in listed
    PROVE  /\ <<group - 1, At>> \in Remaining
           /\ ToCome(b) => <<group - 1, At>> \in UpTo(b)
<1>1. /\ At \in DOMAIN backends /\ \A k \in DOMAIN backends : At <= k
      /\ DOMAIN backends \subseteq Nat /\ pc \in {"backend", "probe"}
      /\ group - 1 \in DOMAIN Routes /\ group \in Nat
      /\ DOMAIN backends \subseteq DOMAIN Routes[group - 1]
  BY AtIs DEF TypeOK
<1>2. <<group - 1, At>> \in Remaining
  BY <1>1 DEF Remaining
<1>3. b \in Backend
  BY DEF TypeOK
<1>4. Home(b)[1] \in Nat
  BY <1>3, HomeOf
<1>5. ASSUME ToCome(b) PROVE <<group - 1, At>> \in UpTo(b)
  <2>1. group - 1 < Home(b)[1] \/ (group - 1 = Home(b)[1] /\ At <= Home(b)[2])
    BY <1>1, <1>4, <1>5 DEF ToCome
  <2> QED BY <1>1, <1>3, <2>1, UpToIs
<1> QED BY <1>2, <1>5

\* A backend of the clone is done.
LEMMA OneDone ==
    ASSUME TypeOK, DOMAIN backends # {}, NEW b \in listed,
           backends' = Rest, pc' = "backend", group' = group
    PROVE  /\ pc \in {"backend", "probe"} /\ b \in Backend
           /\ Remaining' = Remaining \ {<<group - 1, At>>}
           /\ Probed # b => (ToCome(b)' <=> ToCome(b))
           /\ Probed = b => ToCome(b) /\ ~ToCome(b)' /\ Remaining' \cap UpTo(b) = {}
<1>1. /\ At \in DOMAIN backends /\ \A k \in DOMAIN backends : At <= k
      /\ DOMAIN backends \subseteq Nat /\ pc \in {"backend", "probe"}
      /\ group - 1 \in DOMAIN Routes /\ group \in Nat
      /\ Probed = Gone \/ (Probed = Routes[group - 1][At] /\ Probed \in listed)
      /\ DOMAIN backends' = DOMAIN backends \ {At}
      /\ \A k \in DOMAIN backends' : backends'[k] = backends[k]
      /\ Probed = backends[At] /\ DOMAIN backends \subseteq DOMAIN Routes[group - 1]
  BY AtIs DEF Probed, TypeOK
<1>2. /\ b \in Backend /\ b # Gone
      /\ Home(b)[1] \in DOMAIN Routes /\ Home(b)[2] \in DOMAIN Routes[Home(b)[1]]
      /\ Routes[Home(b)[1]][Home(b)[2]] = b
      /\ DOMAIN Routes \subseteq Nat /\ Home(b)[1] \in Nat
      /\ \A n \in DOMAIN Routes : \A k \in DOMAIN Routes[n] :
           Routes[n][k] = b => n = Home(b)[1] /\ k = Home(b)[2]
  <2>1. b \in Backend
    BY DEF TypeOK
  <2> QED BY <2>1, HomeOf, PlacesAreNats
<1>3. Remaining' = Remaining \ {<<group - 1, At>>}
  <2>1. <<group - 1, At>> \notin {p \in Place : p[1] >= group}
    BY <1>1
  <2> QED BY <1>1, <2>1 DEF Remaining
<1>4. Probed # b => (ToCome(b)' <=> ToCome(b))
  BY <1>1 DEF ToCome
<1>5. ASSUME Probed = b PROVE ToCome(b) /\ ~ToCome(b)' /\ Remaining' \cap UpTo(b) = {}
  <2>1. group - 1 = Home(b)[1] /\ At = Home(b)[2]
    BY <1>1, <1>2, <1>5
  <2>2. ToCome(b)
    BY <1>1, <1>5, <2>1 DEF ToCome
  <2>3. ~ToCome(b)'
    BY <1>1, <1>2, <2>1 DEF ToCome
  <2>4. ASSUME NEW p \in Remaining', p \in UpTo(b) PROVE FALSE
    <3>1. p \in Remaining /\ p # <<group - 1, At>> /\ p \in Place
      BY <1>3, <2>4, RemainingIs
    <3>2. PICK n : n \in DOMAIN Routes /\ \E k \in DOMAIN Routes[n] : p = <<n, k>>
      BY <3>1, PlaceIs
    <3>3. PICK k \in DOMAIN Routes[n] : p = <<n, k>>
      BY <3>2
    <3>4. n < group - 1 \/ (n = group - 1 /\ k <= At)
      BY <1>2, <2>1, <2>4, <3>2, <3>3, UpToIs
    <3>5. n >= group \/ (n = group - 1 /\ k \in DOMAIN backends)
      BY <1>1, <3>1, <3>3, RemainingIs
    <3>6. n \in Nat
      BY <1>2, <3>2
    <3>7. n = group - 1 /\ k \in DOMAIN backends /\ k <= At
      BY <1>1, <3>4, <3>5, <3>6
    <3>8. k = At
      BY <1>1, <3>7
    <3> QED BY <3>1, <3>3, <3>7, <3>8
  <2> QED BY <2>2, <2>3, <2>4
<1> QED BY <1>1, <1>2, <1>3, <1>4, <1>5

LEMMA WakesUp ==
    ASSUME TypeOK, WakeUp, NEW b \in Backend
    PROVE  /\ pc = "sleep" /\ pc' = "group" /\ timer = Interval /\ timer' = 0
           /\ ToCome(b)' /\ Remaining' \subseteq Place
           /\ UNCHANGED <<listed, healthy, last_health_check, alive>>
<1>1. pc = "sleep" /\ pc' = "group" /\ group' = 1 /\ DOMAIN backends' = {}
  BY DEF WakeUp, TypeOK
<1>2. Remaining' \subseteq Place
  BY <1>1 DEF Remaining
<1>3. ToCome(b)'
  <2>1. Home(b)[1] >= 1
    <3>1. Home(b)[1] \in DOMAIN Routes
      BY HomeOf
    <3>2. DOMAIN Routes = 1 .. Len(Routes)
      BY RoutesAssumption
    <3> QED BY <3>1, <3>2
  <2> QED BY <1>1, <2>1 DEF ToCome
<1> QED BY <1>1, <1>2, <1>3 DEF WakeUp

LEMMA SweepEnds ==
    ASSUME TypeOK, EndSweep, NEW b \in Backend
    PROVE  /\ pc # "sleep" /\ pc # "probe" /\ pc' = "sleep" /\ timer = 0 /\ timer' = 0
           /\ Remaining = {} /\ ~ToCome(b)
           /\ UNCHANGED <<listed, healthy, last_health_check, alive>>
<1>1. pc = "group" /\ group \notin DOMAIN Routes /\ DOMAIN backends = {} /\ timer = 0
  BY DEF EndSweep, TypeOK, Lasting
<1>2. \A n \in DOMAIN Routes : ~(n >= group)
  BY <1>1, RoutesAssumption DEF TypeOK
<1>3. Home(b)[1] \in DOMAIN Routes /\ Home(b)[1] \in Nat /\ group \in Nat
  <2>1. Home(b)[1] \in DOMAIN Routes /\ Home(b)[1] \in Nat
    BY HomeOf
  <2> QED BY <2>1 DEF TypeOK
<1>4. Remaining = {}
  BY <1>1, <1>2, PlaceIs DEF Remaining
<1>5. ~ToCome(b)
  BY <1>1, <1>2, <1>3 DEF ToCome
<1> QED BY <1>1, <1>4, <1>5 DEF EndSweep

\* What others do leaves the loop where it is.
LEMMA Around ==
    ASSUME TypeOK, NEW b \in listed', NEW c \in Backend,
           Leave(c) \/ Join(c) \/ \E s \in State : Change(c, s)
    PROVE  /\ UNCHANGED <<pc, timer>> /\ Remaining' = Remaining
           /\ b \in Backend
           /\ b \in listed => (ToCome(b)' <=> ToCome(b)) /\ (InFlight(b)' <=> InFlight(b))
           /\ InFlight(b)' => b \in listed
<1>1. UNCHANGED <<pc, timer, group>> /\ DOMAIN backends' = DOMAIN backends
  BY DEF Leave, Join, Change, loopVars
<1>2. Remaining' = Remaining
  BY <1>1 DEF Remaining
<1>3. b \in Backend /\ b # Gone /\ c # Gone
  BY RoutesAssumption DEF TypeOK, Leave, Join, Change
<1>4. \A k \in DOMAIN backends : backends'[k] = b <=> backends[k] = b
  <2>1. CASE Leave(c)
    <3>1. b # c /\ \A k \in DOMAIN backends : backends'[k] = IF backends[k] = c THEN Gone ELSE backends[k]
      BY <2>1 DEF Leave
    <3> QED BY <1>3, <3>1
  <2>2. CASE ~Leave(c)
    BY <2>2 DEF Join, Change, loopVars
  <2> QED BY <2>1, <2>2
<1>5. pc = "probe" => (Probed' = b <=> Probed = b) /\ (Probed = b => b \in listed)
  <2>1. pc = "probe" => At \in DOMAIN backends /\ (Probed = Gone \/ Probed \in listed)
    BY AtIs DEF TypeOK
  <2>2. At' = At
    BY <1>1 DEF At
  <2> QED BY <1>3, <1>4, <2>1, <2>2 DEF Probed
<1>6. ToCome(b)' <=> ToCome(b)
  BY <1>1, <1>4 DEF ToCome
<1> QED BY <1>1, <1>2, <1>3, <1>5, <1>6 DEF InFlight

-----------------------------------------------------------------------------
(* A backend that is out of rotation and that the sweep does not come to   *)
(* any more has been passed; and it is probed after its cooldown only.     *)
Skipped(b) ==
    b \in listed /\ ~healthy[b] =>
        /\ pc # "sleep" /\ ~ToCome(b) => Remaining \cap UpTo(b) = {}
        /\ InFlight(b) => last_health_check[b] = Cooldown

LEMMA SkippedStep ==
    ASSUME TypeOK, TypeOK', Next, NEW b \in Backend, Skipped(b)
    PROVE  Skipped(b)'
<1> SUFFICES ASSUME b \in listed', ~healthy'[b]
             PROVE  /\ pc' # "sleep" /\ ~ToCome(b)' => Remaining' \cap UpTo(b) = {}
                    /\ InFlight(b)' => last_health_check'[b] = Cooldown
  BY DEF Skipped, UpTo, Home
<1> USE DEF loopVars
<1>1. CASE WakeUp
  BY <1>1, WakesUp DEF InFlight
<1>2. CASE NextGroup \/ EndGroup
  <2>1. b \in listed
    BY <1>2 DEF NextGroup, EndGroup
  <2> QED BY <1>2, <2>1, Forward DEF InFlight, Skipped
<1>3. CASE EndSweep
  BY <1>3 DEF EndSweep, InFlight
<1>4. CASE Skip \/ \E ok \in BOOLEAN : Store(ok)
  <2>1. /\ DOMAIN backends # {} /\ backends' = Rest /\ pc' = "backend" /\ group' = group /\ b \in listed
        /\ pc # "sleep"
    BY <1>4 DEF Skip, Store, TypeOK
  <2>2. Probed # b => ~healthy[b]
    BY <1>4 DEF Skip, Store, TypeOK
  <2> QED BY <2>1, <2>2, OneDone DEF InFlight, Skipped
<1>5. CASE Send
  <2>1. /\ b \in listed /\ ~healthy[b] /\ UNCHANGED <<group, backends, last_health_check>>
        /\ pc = "backend" /\ pc' = "probe" /\ ~Cooling(Probed) /\ Probed' = Probed
    BY <1>5 DEF Send, Probed, At
  <2>2. (ToCome(b)' <=> ToCome(b)) /\ Remaining' = Remaining
    BY <2>1 DEF ToCome, Remaining
  <2>3. Probed = b => last_health_check'[b] = Cooldown
    <3>1. b # Gone /\ last_health_check[b] \in 0 .. Cooldown
      BY HomeOf DEF TypeOK
    <3> QED BY <2>1, <3>1, Times DEF Cooling
  <2> QED BY <2>1, <2>2, <2>3 DEF InFlight, Skipped
<1>6. CASE Tick
  <2>1. UNCHANGED <<listed, healthy, pc, group, backends>> /\ Probed' = Probed
    BY <1>6 DEF Tick, Probed, At
  <2>2. (ToCome(b)' <=> ToCome(b)) /\ Remaining' = Remaining
    BY <2>1 DEF ToCome, Remaining
  <2>3. last_health_check[b] = Cooldown => last_health_check'[b] = Cooldown
    BY <1>6, Times DEF Tick, Aged
  <2> QED BY <2>1, <2>2, <2>3 DEF InFlight, Skipped
<1>7. ASSUME NEW c \in Backend, Leave(c) \/ Join(c) \/ \E s \in State : Change(c, s)
      PROVE  /\ pc' # "sleep" /\ ~ToCome(b)' => Remaining' \cap UpTo(b) = {}
             /\ InFlight(b)' => last_health_check'[b] = Cooldown
  <2>1. b \in listed /\ ~healthy[b] /\ last_health_check'[b] = last_health_check[b]
    BY <1>7 DEF Leave, Join, Change, TypeOK
  <2> QED BY <1>7, <2>1, Around DEF Skipped
<1> QED BY <1>1, <1>2, <1>3, <1>4, <1>5, <1>6, <1>7 DEF Next

-----------------------------------------------------------------------------
(* What the stopwatch may read.  A bound is the time the sweep takes at    *)
(* the most from where it is to the store that ends the lag.               *)
Sweep == Count * Timeout

LEMMA Bounds ==
    /\ Sweep \in Nat
    /\ FailBound = Interval + Sweep + Sweep /\ FailBound \in Nat
    /\ RecoverBound = Cooldown + Interval + Sweep + Timeout /\ RecoverBound \in Nat
<1>1. Sweep \in Nat /\ Count \in Nat
  BY PlacesFinite, Times, Product DEF Sweep
<1>2. (Count + 1) * Timeout = Sweep + Timeout
  BY <1>1, Times, Product DEF Sweep
<1>3. 2 * Count * Timeout = Sweep + Sweep
  <2>1. 2 * Count = Count + Count
    BY <1>1
  <2>2. (Count + Count) * Timeout = Sweep + Sweep
    BY <1>1, Times, ProductSum DEF Sweep
  <2> QED BY <2>1, <2>2
<1> QED BY <1>1, <1>2, <1>3, Times DEF FailBound, RecoverBound

LEMMA WorkBounded ==
    ASSUME NEW S \in SUBSET Place
    PROVE  Work(S) \in Nat /\ Work(S) <= Sweep
<1>1. Work(S) \in Nat
  BY WorkOf
<1>2. Work({}) = 0
  BY WorkOf
<1>3. Work(S) + Work({}) <= Sweep
  BY WorkApart DEF Sweep
<1> QED BY <1>1, <1>2, <1>3, Bounds

LEMMA Watching ==
    ASSUME TypeOK, TypeOK', Observe, steady \in Nat
    PROVE  /\ watched' = watched /\ steady' \in Nat
           /\ Changes => steady' = 0
           /\ ~Changes => steady' <= steady + 1 /\ (timer' # timer + 1 => steady' = steady)
<1>1. steady' = CASE Changes -> 0
                  [] ~Changes /\ timer' = timer + 1 -> Aged(steady, Horizon)
                  [] OTHER -> steady
  BY DEF Observe
<1>2. Aged(steady, Horizon) \in {steady, steady + 1}
  BY DEF Aged
<1>3. Changes => steady' = 0
  BY <1>1
<1>4. ~Changes /\ timer' = timer + 1 => steady' = Aged(steady, Horizon)
  BY <1>1
<1>5. ~Changes /\ timer' # timer + 1 => steady' = steady
  BY <1>1
<1> QED BY <1>2, <1>3, <1>4, <1>5 DEF Observe

LEMMA Readings ==
    ASSUME TypeOK, TypeOK'
    PROVE  /\ timer \in Nat /\ timer' \in Nat
           /\ Remaining \subseteq Place /\ Work(Remaining) \in Nat /\ Work(Remaining) <= Sweep
           /\ Remaining' \subseteq Place /\ Work(Remaining') \in Nat /\ Work(Remaining') <= Sweep
<1>1. /\ timer \in Nat /\ timer' \in Nat
      /\ Remaining \subseteq Place /\ Work(Remaining) \in Nat /\ Work(Remaining) <= Sweep
  <2>1. timer \in Nat /\ timer' \in Nat
    BY Times DEF TypeOK, Lasting
  <2>2. Remaining \subseteq Place
    BY RemainingIs
  <2> QED BY <2>1, <2>2, WorkBounded
<1>2. Remaining' \subseteq Place /\ Work(Remaining') \in Nat /\ Work(Remaining') <= Sweep
  <2>1. \A k \in DOMAIN backends' : group' - 1 \in DOMAIN Routes /\ k \in DOMAIN Routes[group' - 1]
    BY DEF TypeOK
  <2>2. {group' - 1} \X DOMAIN backends' \subseteq Place
    BY <2>1, PlaceIs
  <2>3. Remaining' \subseteq Place
    BY <2>2 DEF Remaining
  <2> QED BY <2>3, WorkBounded
<1> QED BY <1>1, <1>2

\* A probe is under way as long as it may last, and what it takes is in the work
\* that remains.
LEMMA TimerCovered ==
    ASSUME TypeOK, pc # "sleep", NEW b \in listed
    PROVE  /\ timer \in Nat /\ timer <= Timeout /\ timer <= Work(Remaining)
           /\ ToCome(b) => timer <= Work(Remaining \cap UpTo(b))
<1>1. timer \in Nat /\ timer <= Timeout /\ (pc # "probe" => timer = 0)
  BY Times DEF TypeOK, Lasting
<1>2. Remaining \in SUBSET Place /\ Remaining \cap UpTo(b) \in SUBSET Place
  BY RemainingIs
<1>3. Work(Remaining) \in Nat /\ Work(Remaining \cap UpTo(b)) \in Nat
  BY <1>2, WorkOf
<1>4. ASSUME NEW S \in SUBSET Place, NEW p \in S PROVE Timeout <= Work(S)
  <2>1. Work(S) \in Nat /\ Work(S \ {p}) + Timeout = Work(S) /\ Work(S \ {p}) \in Nat
    BY WorkOf
  <2> QED BY <2>1, Times
<1>5. CASE pc = "probe"
  <2>1. DOMAIN backends # {}
    BY <1>5 DEF TypeOK
  <2>2. <<group - 1, At>> \in Remaining /\ (ToCome(b) => <<group - 1, At>> \in UpTo(b))
    BY <2>1, AtPlace
  <2>3. Timeout <= Work(Remaining)
    BY <1>2, <1>4, <2>2
  <2>4. ToCome(b) => Timeout <= Work(Remaining \cap UpTo(b))
    BY <1>2, <1>4, <2>2
  <2> QED BY <1>1, <1>3, <2>3, <2>4, Times
<1> QED BY <1>1, <1>3, <1>5

\* Neither a request sent nor the time moves the loop.
LEMMA Stays ==
    ASSUME TypeOK, Send \/ Tick, NEW b \in listed
    PROVE  /\ pc # "sleep" <=> pc' # "sleep"
           /\ Remaining' = Remaining /\ (ToCome(b)' <=> ToCome(b)) /\ Probed' = Probed
           /\ b \in Backend /\ UNCHANGED <<listed, healthy, alive>>
<1>1. UNCHANGED <<group, backends, listed, healthy, alive>> /\ (pc # "sleep" <=> pc' # "sleep")
  BY DEF Send, Tick
<1>2. Probed' = Probed
  BY <1>1 DEF Probed, At
<1>3. b \in Backend
  BY DEF TypeOK
<1> QED BY <1>1, <1>2, <1>3 DEF ToCome, Remaining

\* The reading t of a stopwatch on b, and u at the next step: it is started anew,
\* at the latest when b changes, and runs no faster than the time.
Lapse(b, t, u) ==
    \/ u = 0
    \/ /\ b \in listed <=> b \in listed'
       /\ alive[b] = "up" <=> alive'[b] = "up"
       /\ u <= t + 1 /\ (timer' # timer + 1 => u <= t)

\* A probe that met a backend up and down met it changing.
Switched(b, t) ==
    b \in listed /\ InFlight(b) /\ (\E s \in seen : (s = "up") # (alive[b] = "up"))
      => t <= timer

LEMMA SwitchedStep ==
    ASSUME TypeOK, TypeOK', Next, NEW b \in Backend, NEW t \in Nat, NEW u \in Nat,
           Lapse(b, t, u), Switched(b, t)
    PROVE  Switched(b, u)'
<1> SUFFICES ASSUME b \in listed', InFlight(b)', NEW s \in seen', (s = "up") # (alive'[b] = "up")
             PROVE  u <= timer'
  BY DEF Switched
<1>1. timer \in Nat /\ timer' \in Nat
  BY Times DEF TypeOK, Lasting
<1>2. CASE u = 0
  BY <1>1, <1>2
<1>3. CASE u # 0
  <2>1. b \in listed /\ ((alive[b] = "up") <=> (alive'[b] = "up"))
    BY <1>3 DEF Lapse
  <2>2. u <= t + 1 /\ (timer' # timer + 1 => u <= t)
    BY <1>3 DEF Lapse
  <2>3. pc' = "probe"
    BY DEF InFlight
  <2>4. CASE Send
    <3>1. Probed = b /\ b # Gone
      BY <2>1, <2>4, Stays, HomeOf DEF InFlight
    <3>2. seen' = {alive[b]}
      BY <2>4, <3>1 DEF Send
    <3> QED BY <2>1, <3>2
  <2>5. CASE Tick
    <3>1. InFlight(b) /\ seen' = seen /\ alive' = alive /\ timer' = timer + 1
      BY <2>1, <2>3, <2>5, Stays DEF InFlight, Tick
    <3>2. t <= timer
      BY <2>1, <3>1 DEF Switched
    <3> QED BY <1>1, <2>2, <3>1, <3>2
  <2>6. ASSUME NEW c \in Backend, Leave(c) \/ Join(c) \/ \E a \in State : Change(c, a)
        PROVE  u <= timer'
    <3>1. InFlight(b) /\ timer' = timer
      BY <2>1, <2>6, Around
    <3>2. \E a \in seen : (a = "up") # (alive[b] = "up")
      <4>1. CASE Leave(c) \/ Join(c)
        BY <2>1, <4>1 DEF Leave, Join
      <4>2. ASSUME NEW a \in State, Change(c, a) PROVE \E d \in seen : (d = "up") # (alive[b] = "up")
        <5>1. pc = "probe" /\ Probed = b
          BY <3>1 DEF InFlight
        <5>2. CASE s \in seen
          BY <2>1, <5>2
        <5>3. CASE s \notin seen
          <6>1. c = b /\ s = a
            BY <4>2, <5>1, <5>3 DEF Change
          <6>2. alive'[b] = s
            BY <4>2, <6>1 DEF Change, TypeOK
          <6> QED BY <6>2
        <5> QED BY <5>2, <5>3
      <4> QED BY <2>6, <4>1, <4>2
    <3>3. t <= timer
      BY <2>1, <3>1, <3>2 DEF Switched
    <3> QED BY <1>1, <2>2, <3>1, <3>3
  <2> QED BY <2>3, <2>4, <2>5, <2>6 DEF Next, WakeUp, NextGroup, EndSweep, EndGroup, Skip, Store
<1> QED BY <1>2, <1>3

\* What may be read of a backend that is down and in rotation: the sweep comes
\* to it yet, or once more.
Due(b) == ToCome(b) /\ ~(InFlight(b) /\ "up" \in seen)
Fails(b) ==
    b \in listed /\ alive[b] # "up" /\ healthy[b] =>
        /\ pc = "sleep" => steady + Interval + Sweep - timer <= FailBound
        /\ pc # "sleep" /\ Due(b) => steady + Work(Remaining) - timer <= FailBound
        /\ pc # "sleep" /\ ~Due(b) =>
             steady + Work(Remaining) + Interval + Sweep - timer <= FailBound

LEMMA FailsStep ==
    ASSUME TypeOK, TypeOK', Next, Observe, steady \in Nat,
           NEW b \in Backend, b = watched, Switched(b, steady), Fails(b)
    PROVE  Fails(b)'
<1> USE DEF loopVars
<1>1. /\ timer \in Nat /\ timer' \in Nat /\ steady' \in Nat
      /\ Remaining \subseteq Place /\ Work(Remaining) \in Nat /\ Work(Remaining) <= Sweep
  BY Readings, Watching
<1>2. Remaining' \subseteq Place /\ Work(Remaining') \in Nat /\ Work(Remaining') <= Sweep
  BY Readings
<1>3. CASE Changes
  <2>1. steady' = 0
    BY <1>3, Watching
  <2>2. \A s, w, n \in Nat : s = 0 /\ w <= Sweep =>
           /\ s + Interval + Sweep - n <= FailBound
           /\ s + w - n <= FailBound
           /\ s + w + Interval + Sweep - n <= FailBound
    BY Bounds, Times
  <2>3. /\ steady' + Interval + Sweep - timer' <= FailBound
        /\ steady' + Work(Remaining') - timer' <= FailBound
        /\ steady' + Work(Remaining') + Interval + Sweep - timer' <= FailBound
    BY <1>1, <1>2, <2>1, <2>2
  <2> QED BY <2>3 DEF Fails, Work
<1>4. SUFFICES ASSUME ~Changes, b \in listed', alive'[b] # "up", healthy'[b]
               PROVE  /\ pc' = "sleep" => steady' + Interval + Sweep - timer' <= FailBound
                      /\ pc' # "sleep" /\ Due(b)' => steady' + Work(Remaining') - timer' <= FailBound
                      /\ pc' # "sleep" /\ ~Due(b)' =>
                           steady' + Work(Remaining') + Interval + Sweep - timer' <= FailBound
  BY <1>3 DEF Fails, Work
<1>5. b \in listed /\ alive[b] # "up" /\ b # Gone
  <2>1. b # Gone
    BY HomeOf
  <2> QED BY <1>4, <2>1 DEF Changes
<1>6. steady' <= steady + 1 /\ (timer' # timer + 1 => steady' = steady)
  BY <1>4, Watching
<1>7. CASE WakeUp
  <2>1. /\ pc = "sleep" /\ pc' = "group" /\ timer = Interval /\ timer' = 0 /\ healthy[b] /\ ToCome(b)'
    BY <1>4, <1>7, WakesUp
  <2>2. Due(b)' /\ steady' = steady
    BY <1>1, <1>6, <2>1 DEF Due, InFlight
  <2> QED BY <1>1, <1>2, <1>5, <2>1, <2>2, Bounds, Times DEF Fails
<1>8. CASE NextGroup \/ EndGroup
  <2>1. /\ pc # "sleep" /\ pc' # "sleep" /\ timer = 0 /\ timer' = 0 /\ healthy[b]
        /\ Remaining' \subseteq Remaining /\ (Due(b)' <=> Due(b))
    BY <1>4, <1>5, <1>8, Forward DEF Due, InFlight
  <2>2. steady' = steady /\ Work(Remaining') <= Work(Remaining)
    BY <1>1, <1>6, <2>1, WorkOf
  <2> QED BY <1>1, <1>2, <1>5, <2>1, <2>2, Bounds, Times DEF Fails
<1>9. CASE EndSweep
  <2>1. /\ pc # "sleep" /\ pc' = "sleep" /\ timer = 0 /\ timer' = 0 /\ healthy[b]
        /\ Remaining = {} /\ ~Due(b)
    BY <1>4, <1>9, SweepEnds DEF Due
  <2>2. steady' = steady
    BY <1>1, <1>6, <2>1
  <2> QED BY <1>1, <1>5, <2>1, <2>2, Bounds, Times DEF Fails
<1>10. CASE Skip
  <2>1. /\ DOMAIN backends # {} /\ backends' = Rest /\ pc = "backend" /\ pc' = "backend" /\ group' = group
        /\ healthy[b] /\ Probed # b /\ timer' = timer /\ timer = 0
    BY <1>4, <1>10 DEF Skip, Cooling, TypeOK, Lasting
  <2>2. Remaining' \subseteq Remaining /\ (Due(b)' <=> Due(b))
    BY <1>5, <2>1, OneDone DEF Due, InFlight
  <2>3. steady' = steady /\ Work(Remaining') <= Work(Remaining)
    BY <1>1, <1>6, <2>1, <2>2, WorkOf
  <2> QED BY <1>1, <1>2, <1>5, <2>1, <2>2, <2>3, Bounds, Times DEF Fails
<1>11. CASE Send
  <2>1. /\ pc = "backend" /\ pc' = "probe" /\ timer' = 0 /\ timer = 0 /\ healthy[b]
        /\ seen' = IF Probed = Gone THEN State ELSE {alive[Probed]}
    BY <1>4, <1>11 DEF Send, TypeOK, Lasting
  <2>2. Remaining' = Remaining /\ (ToCome(b)' <=> ToCome(b)) /\ Probed' = Probed
    BY <1>5, <1>11, Stays
  <2>3. Due(b)' <=> Due(b)
    BY <1>5, <2>1, <2>2 DEF Due, InFlight
  <2>4. steady' = steady
    BY <1>1, <1>6, <2>1
  <2> QED BY <1>1, <1>5, <2>1, <2>2, <2>3, <2>4, Bounds, Times DEF Fails
<1>12. ASSUME NEW ok \in BOOLEAN, Store(ok)
       PROVE  /\ pc' = "backend"
              /\ Due(b)' => steady' + Work(Remaining') - timer' <= FailBound
              /\ ~Due(b)' => steady' + Work(Remaining') + Interval + Sweep - timer' <= FailBound
  <2>1. /\ DOMAIN backends # {} /\ backends' = Rest /\ pc = "probe" /\ pc' = "backend" /\ group' = group
        /\ timer' = 0
    BY <1>12 DEF Store, TypeOK
  <2>2. timer <= Timeout /\ steady' = steady
    <3>1. timer <= Timeout
      BY <1>5, <2>1, TimerCovered
    <3>2. timer' # timer + 1
      BY <1>1, <2>1
    <3> QED BY <1>6, <3>1, <3>2
  <2>3. Work(Remaining') + Timeout = Work(Remaining)
    BY <1>1, <1>5, <2>1, OneDone, AtPlace, WorkOf
  <2>4. CASE Probed # b
    <3>1. healthy[b] /\ (Due(b)' <=> ToCome(b)) /\ (Due(b) <=> ToCome(b))
      BY <1>4, <1>5, <1>12, <2>1, <2>4, OneDone DEF Store, Due, InFlight, TypeOK
    <3> QED BY <1>1, <1>2, <1>5, <2>1, <2>2, <2>3, <3>1, Bounds, Times DEF Fails
  <2>5. CASE Probed = b
    <3>1. ok /\ "up" \in seen
      BY <1>4, <1>5, <1>12, <2>5 DEF Store, Answer, TypeOK
    <3>2. steady <= timer
      BY <1>5, <2>1, <2>5, <3>1 DEF Switched, InFlight
    <3>3. ~Due(b)'
      BY <1>5, <2>1, <2>5, OneDone DEF Due
    <3> QED BY <1>1, <1>2, <2>1, <2>2, <2>3, <3>2, <3>3, Bounds, Times
  <2> QED BY <2>1, <2>4, <2>5
<1>13. CASE Tick
  <2>1. /\ (pc # "sleep" <=> pc' # "sleep") /\ pc' = pc /\ timer' = timer + 1 /\ healthy[b] /\ seen' = seen
        /\ Remaining' = Remaining /\ (ToCome(b)' <=> ToCome(b)) /\ Probed' = Probed
    BY <1>4, <1>5, <1>13, Stays DEF Tick
  <2>2. Due(b)' <=> Due(b)
    BY <2>1 DEF Due, InFlight
  <2> QED BY <1>1, <1>5, <1>6, <2>1, <2>2, Bounds, Times DEF Fails
<1>14. ASSUME NEW c \in Backend, Leave(c) \/ Join(c) \/ \E s \in State : Change(c, s)
       PROVE  /\ pc' = "sleep" => steady' + Interval + Sweep - timer' <= FailBound
              /\ pc' # "sleep" /\ Due(b)' => steady' + Work(Remaining') - timer' <= FailBound
              /\ pc' # "sleep" /\ ~Due(b)' =>
                   steady' + Work(Remaining') + Interval + Sweep - timer' <= FailBound
  <2>1. /\ pc' = pc /\ timer' = timer /\ Remaining' = Remaining
        /\ (ToCome(b)' <=> ToCome(b)) /\ (InFlight(b)' <=> InFlight(b))
    BY <1>4, <1>5, <1>14, Around
  <2>2. healthy[b]
    BY <1>4, <1>5, <1>14 DEF Leave, Join, Change, TypeOK
  <2>3. InFlight(b) => ("up" \in seen' <=> "up" \in seen)
    BY <1>4, <1>14 DEF Leave, Join, Change, InFlight, TypeOK
  <2>4. (Due(b)' <=> Due(b)) /\ steady' = steady
    BY <1>1, <1>6, <2>1, <2>3 DEF Due
  <2> QED BY <1>1, <1>5, <2>1, <2>2, <2>4, Bounds, Times DEF Fails
<1> QED BY <1>7, <1>8, <1>9, <1>10, <1>11, <1>12, <1>13, <1>14 DEF Next

\* What may be read of a backend that is up and out of rotation: its last probe
\* was too early, or the sweep comes to it once the cooldown is over.
Recovers(b, t) ==
    b \in listed /\ alive[b] = "up" /\ ~healthy[b] =>
        /\ last_health_check[b] < Cooldown => t <= last_health_check[b] + Timeout
        /\ last_health_check[b] = Cooldown =>
             /\ pc = "sleep" => t + Interval + Work(UpTo(b)) - timer < RecoverBound
             /\ ToCome(b) => t + Work(Remaining \cap UpTo(b)) - timer < RecoverBound
             /\ pc # "sleep" /\ ~ToCome(b) =>
                  t + Work(Remaining) + Interval + Work(UpTo(b)) - timer < RecoverBound

\* Nothing before its last probe counts: that is the case where the stopwatch
\* was started at most the cooldown and a probe ago.
LEMMA RecoversSoon ==
    ASSUME NEW R \in SUBSET Place, NEW b \in Backend, NEW s \in Nat, NEW t \in Nat,
           s - t < Cooldown + Timeout
    PROVE  /\ s + Interval + Work(UpTo(b)) - t < RecoverBound
           /\ s + Work(R \cap UpTo(b)) - t < RecoverBound
           /\ R \cap UpTo(b) = {} => s + Work(R) + Interval + Work(UpTo(b)) - t < RecoverBound
<1>1. UpTo(b) \in SUBSET Place /\ R \cap UpTo(b) \in SUBSET Place
  BY UpToIs
<1>2. Work(UpTo(b)) \in Nat /\ Work(UpTo(b)) <= Sweep /\ Work(R) \in Nat
  BY <1>1, WorkBounded
<1>3. Work(R \cap UpTo(b)) \in Nat /\ Work(R \cap UpTo(b)) <= Sweep
  BY <1>1, WorkBounded
<1>4. R \cap UpTo(b) = {} => Work(R) + Work(UpTo(b)) <= Sweep
  BY <1>1, WorkApart DEF Sweep
<1> QED BY <1>2, <1>3, <1>4, Bounds, Times

LEMMA RecoversStep ==
    ASSUME TypeOK, TypeOK', Next, Cooldown > 0,
           NEW b \in Backend, NEW t \in Nat, NEW u \in Nat,
           Lapse(b, t, u), Switched(b, t), Skipped(b)', Recovers(b, t)
    PROVE  Recovers(b, u)'
<1> USE DEF loopVars
<1>1. /\ timer \in Nat /\ timer' \in Nat
      /\ Remaining \subseteq Place /\ Remaining' \subseteq Place
      /\ Work(Remaining) \in Nat /\ Work(Remaining') \in Nat
  BY Readings
<1>2. /\ Work(UpTo(b)) \in Nat /\ Work(Remaining \cap UpTo(b)) \in Nat
      /\ Work(Remaining' \cap UpTo(b)) \in Nat /\ UpTo(b) \subseteq Place
  BY <1>1, UpToIs, WorkOf
<1>3. /\ last_health_check[b] \in Nat /\ last_health_check[b] <= Cooldown
      /\ last_health_check'[b] \in Nat /\ last_health_check'[b] <= Cooldown
  BY Times DEF TypeOK
<1>4. SUFFICES ASSUME b \in listed', alive'[b] = "up", ~healthy'[b]
               PROVE  /\ last_health_check'[b] < Cooldown => u <= last_health_check'[b] + Timeout
                      /\ last_health_check'[b] = Cooldown =>
                           /\ pc' = "sleep" => u + Interval + Work(UpTo(b)) - timer' < RecoverBound
                           /\ ToCome(b)' => u + Work(Remaining' \cap UpTo(b)) - timer' < RecoverBound
                           /\ pc' # "sleep" /\ ~ToCome(b)' =>
                                u + Work(Remaining') + Interval + Work(UpTo(b)) - timer' < RecoverBound
  BY DEF Recovers, Work, UpTo, Home
<1>5. pc' # "sleep" /\ ~ToCome(b)' => Remaining' \cap UpTo(b) = {}
  BY <1>4 DEF Skipped, UpTo, Home
<1>6. CASE u - timer' < Cooldown + Timeout /\ u <= last_health_check'[b] + Timeout
  BY <1>1, <1>5, <1>6, RecoversSoon
<1>7. CASE u = 0
  <2>1. u - timer' < Cooldown + Timeout
    <3>1. u < Cooldown + Timeout /\ Cooldown + Timeout \in Nat
      BY <1>7, Times
    <3> QED BY <1>1, <3>1, Less
  <2>2. u <= last_health_check'[b] + Timeout
    BY <1>3, <1>7, Times
  <2> QED BY <1>6, <2>1, <2>2
<1>8. CASE u # 0
  <2>1. b \in listed /\ alive[b] = "up" /\ b # Gone
    <3>1. b # Gone
      BY HomeOf
    <3> QED BY <1>4, <1>8, <3>1 DEF Lapse
  <2>2. u <= t + 1 /\ (timer' # timer + 1 => u <= t)
    BY <1>8 DEF Lapse
  <2>3. CASE WakeUp
    <3>1. /\ pc = "sleep" /\ pc' = "group" /\ timer = Interval /\ timer' = 0 /\ ~healthy[b] /\ ToCome(b)'
          /\ last_health_check' = last_health_check
      BY <1>4, <2>3, WakesUp
    <3>2. u <= t /\ Work(Remaining' \cap UpTo(b)) <= Work(UpTo(b))
      BY <1>1, <1>2, <2>2, <3>1, WorkOf
    <3> QED BY <1>1, <1>2, <1>3, <2>1, <3>1, <3>2, Bounds, Times DEF Recovers
  <2>4. CASE NextGroup \/ EndGroup
    <3>1. /\ pc # "sleep" /\ pc' # "sleep" /\ timer = 0 /\ timer' = 0 /\ ~healthy[b]
          /\ Remaining' \subseteq Remaining /\ (ToCome(b)' <=> ToCome(b))
          /\ last_health_check' = last_health_check
      BY <1>4, <2>1, <2>4, Forward
    <3>2. /\ u <= t /\ Work(Remaining') <= Work(Remaining)
          /\ Work(Remaining' \cap UpTo(b)) <= Work(Remaining \cap UpTo(b))
      <4>1. Remaining \cap UpTo(b) \in SUBSET Place /\ Remaining' \cap UpTo(b) \subseteq Remaining \cap UpTo(b)
        BY <1>1, <3>1
      <4> QED BY <1>1, <2>2, <3>1, <4>1, WorkOf
    <3> QED BY <1>1, <1>2, <1>3, <2>1, <3>1, <3>2, Bounds, Times DEF Recovers
  <2>5. CASE EndSweep
    <3>1. /\ pc # "sleep" /\ pc' = "sleep" /\ timer = 0 /\ timer' = 0 /\ ~healthy[b]
          /\ Remaining = {} /\ ~ToCome(b) /\ ~ToCome(b)' /\ last_health_check' = last_health_check
      BY <1>4, <2>5, SweepEnds DEF ToCome
    <3>2. u <= t
      BY <1>1, <2>2, <3>1
    <3> QED BY <1>1, <1>2, <1>3, <2>1, <3>1, <3>2, Bounds, Times DEF Recovers
  <2>6. CASE Skip /\ last_health_check'[b] = Cooldown
    <3>1. /\ DOMAIN backends # {} /\ backends' = Rest /\ pc = "backend" /\ pc' = "backend" /\ group' = group
          /\ ~healthy[b] /\ Probed # b /\ timer' = timer /\ timer = 0 /\ last_health_check' = last_health_check
      BY <1>3, <1>4, <2>6, Times DEF Skip, Cooling, TypeOK, Lasting
    <3>2. Remaining' \subseteq Remaining /\ (ToCome(b)' <=> ToCome(b))
      BY <2>1, <3>1, OneDone
    <3>3. /\ u <= t /\ Work(Remaining') <= Work(Remaining)
          /\ Work(Remaining' \cap UpTo(b)) <= Work(Remaining \cap UpTo(b))
      <4>1. Remaining \cap UpTo(b) \in SUBSET Place /\ Remaining' \cap UpTo(b) \subseteq Remaining \cap UpTo(b)
        BY <1>1, <3>2
      <4> QED BY <1>1, <2>2, <3>1, <3>2, <4>1, WorkOf
    <3> QED BY <1>1, <1>2, <1>3, <2>1, <2>6, <3>1, <3>2, <3>3, Bounds, Times DEF Recovers
  <2>7. CASE Skip /\ last_health_check'[b] < Cooldown
    <3>1. ~healthy[b] /\ timer' = timer /\ last_health_check' = last_health_check
      BY <1>4, <2>7 DEF Skip
    <3>2. u <= t
      BY <1>1, <2>2, <3>1
    <3>3. t <= last_health_check'[b] + Timeout
      BY <2>1, <2>7, <3>1 DEF Recovers
    <3> QED BY <1>3, <2>7, <3>2, <3>3, Times
  <2>8. CASE Send
    <3>1. /\ pc = "backend" /\ pc' = "probe" /\ timer' = 0 /\ timer = 0 /\ ~healthy[b]
          /\ last_health_check' = last_health_check
      BY <1>4, <2>8 DEF Send, TypeOK, Lasting
    <3>2. Remaining' = Remaining /\ (ToCome(b)' <=> ToCome(b))
      BY <2>1, <2>8, Stays
    <3>3. u <= t
      BY <1>1, <2>2, <3>1
    <3> QED BY <1>1, <1>2, <1>3, <2>1, <3>1, <3>2, <3>3, Bounds, Times DEF Recovers
  <2>9. ASSUME NEW ok \in BOOLEAN, Store(ok)
        PROVE  /\ pc' = "backend"
               /\ last_health_check'[b] < Cooldown => u <= last_health_check'[b] + Timeout
               /\ last_health_check'[b] = Cooldown =>
                    /\ ToCome(b)' => u + Work(Remaining' \cap UpTo(b)) - timer' < RecoverBound
                    /\ ~ToCome(b)' =>
                         u + Work(Remaining') + Interval + Work(UpTo(b)) - timer' < RecoverBound
    <3>1. /\ DOMAIN backends # {} /\ backends' = Rest /\ pc = "probe" /\ pc' = "backend" /\ group' = group
          /\ timer' = 0
      BY <2>9 DEF Store, TypeOK
    <3>2. timer <= Timeout /\ u <= t
      <4>1. timer <= Timeout
        BY <2>1, <3>1, TimerCovered
      <4>2. timer' # timer + 1
        BY <1>1, <3>1
      <4> QED BY <2>2, <4>1, <4>2
    <3>3. CASE Probed # b
      <4>1. ~healthy[b] /\ last_health_check'[b] = last_health_check[b]
        BY <1>4, <2>1, <2>9, <3>3 DEF Store, TypeOK
      <4>2. ToCome(b)' <=> ToCome(b)
        BY <2>1, <3>1, <3>3, OneDone
      <4>3. Work(Remaining') + Timeout = Work(Remaining)
        BY <1>1, <2>1, <3>1, OneDone, AtPlace, WorkOf
      <4>4. ToCome(b) => Work(Remaining' \cap UpTo(b)) + Timeout = Work(Remaining \cap UpTo(b))
        <5> SUFFICES ASSUME ToCome(b)
                     PROVE  Work(Remaining' \cap UpTo(b)) + Timeout = Work(Remaining \cap UpTo(b))
          OBVIOUS
        <5>1. /\ Remaining \cap UpTo(b) \in SUBSET Place /\ <<group - 1, At>> \in Remaining \cap UpTo(b)
              /\ Remaining' \cap UpTo(b) = (Remaining \cap UpTo(b)) \ {<<group - 1, At>>}
          BY <1>1, <2>1, <3>1, OneDone, AtPlace
        <5> QED BY <5>1, WorkOf
      <4> QED BY <1>1, <1>2, <1>3, <2>1, <3>1, <3>2, <4>1, <4>2, <4>3, <4>4, Bounds, Times DEF Recovers
    <3>4. CASE Probed = b
      <4>1. ~ok /\ last_health_check'[b] = 0
        BY <1>4, <2>1, <2>9, <3>4 DEF Store, TypeOK
      <4>2. \E s \in seen : s # "up"
        <5>1. seen # {"up"}
          <6>1. Cardinality({"up"}) = 1
            BY FS_Singleton
          <6> QED BY <2>9, <4>1, <6>1 DEF Store, Answer, TimedOut
        <5> QED BY <3>1, <5>1 DEF TypeOK
      <4>3. t <= timer
        BY <2>1, <3>1, <3>4, <4>2 DEF Switched, InFlight
      <4> QED BY <1>1, <3>1, <3>2, <4>1, <4>3, Times
    <3> QED BY <3>1, <3>3, <3>4
  <2>10. CASE Tick
    <3>1. /\ (pc # "sleep" <=> pc' # "sleep") /\ pc' = pc /\ timer' = timer + 1 /\ ~healthy[b]
          /\ Remaining' = Remaining /\ (ToCome(b)' <=> ToCome(b))
      BY <1>4, <2>1, <2>10, Stays DEF Tick
    <3>2. last_health_check'[b] = Aged(last_health_check[b], Cooldown)
      BY <2>10 DEF Tick
    <3>3. CASE last_health_check[b] < Cooldown
      <4>1. last_health_check'[b] = last_health_check[b] + 1
        BY <3>2, <3>3 DEF Aged
      <4>2. t <= last_health_check[b] + Timeout
        BY <2>1, <3>1, <3>3 DEF Recovers
      <4>3. u <= t + 1 /\ timer' = timer + 1 /\ timer \in Nat
        BY <1>1, <2>2, <3>1
      <4>4. u <= last_health_check'[b] + Timeout
        BY <1>3, <4>1, <4>2, <4>3, Times
      <4>5. u - timer' < Cooldown + Timeout
        <5>1. last_health_check'[b] \in Nat /\ last_health_check'[b] <= Cooldown
          BY <1>3
        <5>2. u <= Cooldown + Timeout
          BY <4>3, <4>4, <5>1, Times
        <5>3. timer' \in Nat /\ timer' >= 1
          BY <4>3
        <5>4. Cooldown + Timeout \in Nat
          BY Times
        <5> QED BY <5>2, <5>3, <5>4, Less
      <4> QED BY <1>6, <4>4, <4>5
    <3>4. CASE last_health_check[b] = Cooldown
      <4>1. last_health_check'[b] = Cooldown
        BY <3>2, <3>4, Times DEF Aged
      <4> QED BY <1>1, <1>2, <2>1, <2>2, <3>1, <3>4, <4>1, Bounds, Times DEF Recovers
    <3> QED BY <1>3, <3>3, <3>4, Times
  <2>11. ASSUME NEW c \in Backend, Leave(c) \/ Join(c) \/ \E s \in State : Change(c, s)
         PROVE  /\ last_health_check'[b] < Cooldown => u <= last_health_check'[b] + Timeout
                /\ last_health_check'[b] = Cooldown =>
                     /\ pc' = "sleep" => u + Interval + Work(UpTo(b)) - timer' < RecoverBound
                     /\ ToCome(b)' => u + Work(Remaining' \cap UpTo(b)) - timer' < RecoverBound
                     /\ pc' # "sleep" /\ ~ToCome(b)' =>
                          u + Work(Remaining') + Interval + Work(UpTo(b)) - timer' < RecoverBound
    <3>1. pc' = pc /\ timer' = timer /\ Remaining' = Remaining /\ (ToCome(b)' <=> ToCome(b))
      BY <1>4, <2>1, <2>11, Around
    <3>2. ~healthy[b] /\ last_health_check'[b] = last_health_check[b]
      BY <1>4, <2>1, <2>11 DEF Leave, Join, Change, TypeOK
    <3>3. u <= t
      BY <1>1, <2>2, <3>1
    <3>4. /\ last_health_check[b] < Cooldown => t <= last_health_check[b] + Timeout
          /\ last_health_check[b] = Cooldown =>
               /\ pc = "sleep" => t + Interval + Work(UpTo(b)) - timer < RecoverBound
               /\ ToCome(b) => t + Work(Remaining \cap UpTo(b)) - timer < RecoverBound
               /\ pc # "sleep" /\ ~ToCome(b) =>
                    t + Work(Remaining) + Interval + Work(UpTo(b)) - timer < RecoverBound
      BY <2>1, <3>2 DEF Recovers
    <3> QED BY <1>1, <1>2, <1>3, <3>1, <3>2, <3>3, <3>4, Bounds, Times
  <2>12. Skip => last_health_check'[b] = Cooldown \/ last_health_check'[b] < Cooldown
    BY <1>3, Times
  <2> QED BY <2>3, <2>4, <2>5, <2>6, <2>7, <2>8, <2>9, <2>10, <2>11, <2>12 DEF Next
<1> QED BY <1>7, <1>8

-----------------------------------------------------------------------------
(* The theorems.                                                           *)
Lags == \A b \in Backend : Skipped(b) /\ (b = watched => Switched(b, steady) /\ Fails(b))
FailInv == TypeOK /\ watched \in Backend /\ steady \in Nat /\ Lags
RecoverInv == FailInv /\ \A b \in Backend : b = watched => Recovers(b, steady)

LEMMA LagsInit == TimesInit => RecoverInv
<1> SUFFICES ASSUME TimesInit PROVE RecoverInv
  OBVIOUS
<1>1. TypeOK
  BY TypeInit DEF TimesInit
<1>2. /\ pc = "sleep" /\ timer = 0 /\ steady = 0 /\ watched \in Backend
      /\ \A b \in Backend : healthy[b] = TRUE
  BY DEF TimesInit, Init
<1>3. steady + Interval + Sweep - timer <= FailBound
  BY <1>2, Bounds, Times
<1> QED BY <1>1, <1>2, <1>3 DEF RecoverInv, FailInv, Lags, Skipped, Switched, Fails, Recovers, InFlight

LEMMA WatchedLapse ==
    ASSUME TypeOK, TypeOK', Observe, steady \in Nat, NEW u, u = steady'
    PROVE  Lapse(watched, steady, u)
<1>1. CASE Changes
  BY <1>1, Watching DEF Lapse
<1>2. CASE ~Changes
  BY <1>2, Watching DEF Lapse, Changes
<1> QED BY <1>1, <1>2

LEMMA FailInvStep ==
    ASSUME FailInv, [Next /\ Observe]_timesVars
    PROVE  FailInv'
<1>1. TypeOK /\ TypeOK' /\ steady \in Nat /\ watched \in Backend
  <2>1. [Next]_vars
    BY DEF timesVars
  <2> QED BY <2>1, TypeStep DEF FailInv
<1>2. CASE Next /\ Observe
  <2>1. watched' = watched /\ steady' \in Nat
    BY <1>1, <1>2, Watching
  <2>2. \A b \in Backend : Skipped(b)'
    BY <1>1, <1>2, SkippedStep DEF FailInv, Lags
  <2>3. ASSUME NEW b \in Backend, b = watched PROVE Switched(b, steady)' /\ Fails(b)'
    <3>1. PICK t \in Nat : t = steady
      BY <1>1
    <3>2. PICK u \in Nat : u = steady'
      BY <2>1
    <3>3. Lapse(b, t, u)
      BY <1>1, <1>2, <2>3, <3>1, <3>2, WatchedLapse
    <3>4. Switched(b, t) /\ Switched(b, steady) /\ Fails(b)
      BY <2>3, <3>1 DEF FailInv, Lags, Switched
    <3>5. Switched(b, u)'
      BY <1>1, <1>2, <3>3, <3>4, SwitchedStep
    <3>6. Switched(b, steady)'
      BY <3>2, <3>5 DEF Switched
    <3> QED BY <1>1, <1>2, <2>3, <3>4, <3>6, FailsStep
  <2> QED BY <1>1, <2>1, <2>2, <2>3 DEF FailInv, Lags
<1>3. CASE UNCHANGED timesVars
  <2>1. /\ UNCHANGED <<listed, healthy, last_health_check, pc, group, backends, timer, alive, seen>>
        /\ UNCHANGED <<watched, steady>>
    BY <1>3 DEF timesVars, vars, loopVars
  <2>2. Remaining' = Remaining /\ Probed' = Probed
    BY <2>1 DEF Remaining, Probed, At
  <2>3. \A b \in Backend : (ToCome(b)' <=> ToCome(b)) /\ (InFlight(b)' <=> InFlight(b))
    BY <2>1, <2>2 DEF ToCome, InFlight, Home
  <2>4. \A b \in Backend : Skipped(b)' <=> Skipped(b)
    BY <2>1, <2>2, <2>3 DEF Skipped, UpTo, Home
  <2>5. \A b \in Backend : (Switched(b, steady)' <=> Switched(b, steady)) /\ (Fails(b)' <=> Fails(b))
    BY <2>1, <2>2, <2>3 DEF Switched, Fails, Due, Work
  <2> QED BY <1>1, <2>1, <2>4, <2>5 DEF FailInv, Lags
<1> QED BY <1>2, <1>3

LEMMA RecoverInvStep ==
    ASSUME Cooldown > 0, RecoverInv, [Next /\ Observe]_timesVars
    PROVE  RecoverInv'
<1>1. /\ TypeOK /\ TypeOK' /\ steady \in Nat /\ watched \in Backend /\ FailInv /\ FailInv'
      /\ \A b \in Backend : Skipped(b)' /\ (b = watched => Switched(b, steady) /\ Recovers(b, steady))
  BY FailInvStep DEF RecoverInv, FailInv, Lags
<1>2. CASE Next /\ Observe
  <2>1. watched' = watched
    BY <1>1, <1>2, Watching
  <2>2. ASSUME NEW b \in Backend, b = watched PROVE Recovers(b, steady)'
    <3>1. PICK t \in Nat : t = steady
      BY <1>1
    <3>2. PICK u \in Nat : u = steady'
      BY <1>1, <1>2, Watching
    <3>3. Lapse(b, t, u)
      BY <1>1, <1>2, <2>2, <3>1, <3>2, WatchedLapse
    <3>4. Switched(b, t) /\ Recovers(b, t)
      BY <1>1, <2>2, <3>1 DEF Switched, Recovers
    <3>5. Recovers(b, u)'
      BY <1>1, <1>2, <3>3, <3>4, RecoversStep
    <3> QED BY <3>2, <3>5 DEF Recovers
  <2> QED BY <1>1, <2>1, <2>2 DEF RecoverInv
<1>3. CASE UNCHANGED timesVars
  <2>1. \A b \in Backend : Recovers(b, steady)' <=> Recovers(b, steady)
    BY <1>3 DEF Recovers, ToCome, Remaining, Home, UpTo, Work, timesVars, vars, loopVars
  <2> QED BY <1>1, <1>3, <2>1 DEF RecoverInv, timesVars
<1> QED BY <1>2, <1>3

LEMMA FailsSoon == FailInv => FailsInTime
<1> SUFFICES ASSUME FailInv, watched \in listed, alive[watched] # "up", healthy[watched],
                    steady > FailBound
             PROVE  FALSE
  BY DEF FailsInTime
<1>1. TypeOK /\ Fails(watched) /\ steady \in Nat
  BY DEF FailInv, Lags
<1>2. CASE pc = "sleep"
  <2>1. timer \in Nat /\ timer <= Interval
    BY <1>1, <1>2, Times DEF TypeOK, Lasting
  <2>2. steady + Interval + Sweep - timer <= FailBound
    BY <1>1, <1>2 DEF Fails
  <2> QED BY <1>1, <2>1, <2>2, Bounds, Times
<1>3. CASE pc # "sleep"
  <2>1. timer \in Nat /\ timer <= Work(Remaining)
    BY <1>1, <1>3, TimerCovered
  <2>2. Work(Remaining) \in Nat
    BY <1>1, RemainingIs, WorkOf
  <2>3. \/ steady + Work(Remaining) - timer <= FailBound
        \/ steady + Work(Remaining) + Interval + Sweep - timer <= FailBound
    BY <1>1, <1>3 DEF Fails
  <2> QED BY <1>1, <2>1, <2>2, <2>3, Bounds, Times
<1> QED BY <1>2, <1>3

\* Once the bound has passed, the backend is in rotation.
LEMMA Recovered ==
    ASSUME TypeOK, NEW b \in listed, NEW t \in Nat, Recovers(b, t), alive[b] = "up",
           t >= RecoverBound
    PROVE  healthy[b] = TRUE
<1> SUFFICES ASSUME ~healthy[b] PROVE FALSE
  BY DEF TypeOK
<1>1. b \in Backend
  BY DEF TypeOK
<1> DEFINE l == last_health_check[b]
<1>2. l \in Nat /\ l <= Cooldown
  BY <1>1, Times DEF TypeOK
<1>3. CASE l < Cooldown
  <2>1. t <= l + Timeout
    BY <1>3 DEF Recovers
  <2> HIDE DEF l
  <2> QED BY <1>2, <1>3, <2>1, Bounds, Times
<1>4. CASE l = Cooldown /\ pc = "sleep"
  <2>1. timer \in Nat /\ timer <= Interval
    BY <1>4, Times DEF TypeOK, Lasting
  <2>2. t + Interval + Work(UpTo(b)) - timer < RecoverBound
    BY <1>4 DEF Recovers
  <2>3. Work(UpTo(b)) \in Nat
    BY <1>1, UpToIs, WorkOf
  <2> QED BY <2>1, <2>2, <2>3, Bounds, Times
<1>5. CASE l = Cooldown /\ pc # "sleep"
  <2> DEFINE T == Work(Remaining \cap UpTo(b))
             R == Work(Remaining)
             U == Work(UpTo(b))
  <2>1. timer \in Nat /\ timer <= R /\ (ToCome(b) => timer <= T)
    BY <1>5, TimerCovered
  <2>2. T \in Nat /\ R \in Nat /\ U \in Nat
    BY <1>1, RemainingIs, UpToIs, WorkOf
  <2>3. \/ ToCome(b) /\ t + T - timer < RecoverBound
        \/ t + R + Interval + U - timer < RecoverBound
    BY <1>5 DEF Recovers
  <2> HIDE DEF T, R, U
  <2> QED BY <2>1, <2>2, <2>3, Bounds, Times
<1> QED BY <1>2, <1>3, <1>4, <1>5, Times

LEMMA RecoversInBound == RecoverInv => RecoversInTime
<1> SUFFICES ASSUME RecoverInv, watched \in listed, alive[watched] = "up", steady >= RecoverBound
             PROVE  healthy[watched] = TRUE
  BY DEF RecoversInTime
<1>1. TypeOK /\ Recovers(watched, steady) /\ steady \in Nat
  BY DEF RecoverInv, FailInv, Lags
<1> QED BY <1>1, Recovered

(* A backend that stays down is out of rotation after a sleep and two      *)
(* sweeps, whichever place of whichever group it is in, whatever the other *)
(* backends and the reloads do meanwhile (health_check_loop).              *)
THEOREM DownIsSeen == TimesSpec => []FailsInTime
<1>1. TimesInit => FailInv
  BY LagsInit DEF RecoverInv
<1>2. FailInv /\ [Next /\ Observe]_timesVars => FailInv'
  BY FailInvStep
<1> QED BY <1>1, <1>2, FailsSoon, PTL DEF TimesSpec

(* With any cooldown at all, a backend that stays up is back in rotation   *)
(* after the cooldown, a sleep, a sweep and one probe more                 *)
(* (health_check_loop).                                                    *)
THEOREM UpIsSeen == Cooldown > 0 => (TimesSpec => []RecoversInTime)
<1> SUFFICES ASSUME Cooldown > 0 PROVE TimesSpec => []RecoversInTime
  OBVIOUS
<1>1. RecoverInv /\ [Next /\ Observe]_timesVars => RecoverInv'
  BY RecoverInvStep
<1> QED BY <1>1, LagsInit, RecoversInBound, PTL DEF TimesSpec

-----------------------------------------------------------------------------
(* At most one backend is out.                                             *)
\* The order of a restart is made of the backends of the route, and the one
\* that is drained comes first.
LEMMA OrderOf ==
    ASSUME 1 \in DOMAIN Routes, NEW x \in Range(Routes[1]), NEW set, set \subseteq {x}
    PROVE  /\ RestartOrder(set) \in Seq(Range(Routes[1]))
           /\ set # {} => RestartOrder(set) # <<>> /\ Head(RestartOrder(set)) = x
<1> DEFINE R == Routes[1]
           P == DOMAIN R
           First(i) == R[i] \in set
           Ordered(p) == \A i, j \in P : i < j =>
                           IF First(p[i]) = First(p[j]) THEN p[i] < p[j] ELSE First(p[i])
           order == CHOOSE p \in Bijection(P, P) : Ordered(p)
<1>1. R \in Seq(Backend) /\ Len(R) \in Nat /\ P = 1 .. Len(R)
  <2>1. R \in Seq(Backend)
    BY RoutesAssumption
  <2> QED BY <2>1
<1>2. PICK k \in P : R[k] = x
  BY DEF Range
<1>3. \A i \in P : R[i] = x => i = k
  <2> SUFFICES ASSUME NEW i \in P, R[i] = x PROVE i = k
    OBVIOUS
  <2>1. <<1, i>> \in Place /\ <<1, k>> \in Place
    BY PlaceIs
  <2>2. Routes[<<1, i>>[1]][<<1, i>>[2]] = Routes[<<1, k>>[1]][<<1, k>>[2]]
    BY <1>2
  <2> QED BY <2>1, <2>2, RoutesAssumption
<1>4. \A i \in P : First(i) <=> set # {} /\ i = k
  BY <1>2, <1>3
<1>5. \E p \in Bijection(P, P) : Ordered(p)
  <2>1. CASE set = {}
    <3> DEFINE p == [i \in P |-> i]
    <3>1. p \in Bijection(P, P)
      BY DEF Bijection, Injection, Surjection, IsInjective
    <3>2. Ordered(p)
      BY <1>4, <2>1
    <3> QED BY <3>1, <3>2
  <2>2. CASE set # {}
    <3> DEFINE p == [i \in P |-> IF i = 1 THEN k ELSE IF i <= k THEN i - 1 ELSE i]
               q == [i \in P |-> IF i = k THEN 1 ELSE IF i < k THEN i + 1 ELSE i]
    <3>1. p \in [P -> P] /\ q \in [P -> P]
      BY <1>1
    <3>2. \A i \in P : p[q[i]] = i /\ q[p[i]] = i
      BY <1>1
    <3>3. p \in Bijection(P, P)
      <4> HIDE DEF p, q
      <4> QED BY <3>1, <3>2 DEF Bijection, Injection, Surjection, IsInjective
    <3>4. Ordered(p)
      <4> SUFFICES ASSUME NEW i \in P, NEW j \in P, i < j
                   PROVE  IF First(p[i]) = First(p[j]) THEN p[i] < p[j] ELSE First(p[i])
        OBVIOUS
      <4>1. p[i] \in P /\ p[j] \in P /\ p[j] # k /\ (p[i] # k => p[i] < p[j])
        BY <1>1
      <4> HIDE DEF p
      <4>2. ~First(p[j]) /\ (First(p[i]) <=> p[i] = k)
        BY <1>4, <2>2, <4>1
      <4>3. CASE First(p[i])
        BY <4>2, <4>3
      <4>4. CASE ~First(p[i])
        BY <4>1, <4>2, <4>4
      <4> QED BY <4>3, <4>4
    <3> HIDE DEF p, Ordered
    <3> QED BY <3>3, <3>4
  <2> QED BY <2>1, <2>2
<1>6. order \in Bijection(P, P) /\ Ordered(order)
  <2> HIDE DEF Ordered, P
  <2> QED BY <1>5
<1>7. RestartOrder(set) = [i \in P |-> R[order[i]]]
  BY DEF RestartOrder, FirstThen
<1> HIDE DEF order
<1>8. order \in [P -> P] /\ \A i \in P : \E j \in P : order[j] = i
  BY <1>6 DEF Bijection, Injection, Surjection
<1>9. RestartOrder(set) \in Seq(Range(R))
  <2>1. \A i \in P : R[order[i]] \in Range(R)
    BY <1>8 DEF Range
  <2> HIDE DEF R
  <2>2. RestartOrder(set) \in [1 .. Len(R) -> Range(R)]
    BY <1>1, <1>7, <2>1
  <2> QED BY <1>1, <2>2
<1>10. ASSUME set # {} PROVE RestartOrder(set) # <<>> /\ Head(RestartOrder(set)) = x
  <2>1. PICK j \in P : order[j] = k
    BY <1>8
  <2>2. 1 \in P /\ order[1] \in P
    <3>1. 1 \in P
      <4> HIDE DEF R
      <4> QED BY <1>1, <2>1
    <3> QED BY <1>8, <3>1
  <2>3. order[1] = k
    <3>1. CASE j = 1
      BY <2>1, <3>1
    <3>2. CASE 1 < j
      <4>1. IF First(order[1]) = First(order[j]) THEN order[1] < order[j] ELSE First(order[1])
        BY <1>6, <2>2, <3>2
      <4>2. First(order[j])
        BY <1>4, <1>10, <2>1
      <4>3. First(order[1]) => order[1] = k
        BY <1>4, <2>2
      <4> HIDE DEF First
      <4>4. First(order[1]) => order[1] < order[j]
        BY <4>1, <4>2
      <4>5. First(order[1])
        BY <4>1, <4>2
      <4> QED BY <4>3, <4>5
    <3> QED BY <1>1, <2>1, <3>1, <3>2
  <2>4. Head(RestartOrder(set)) = RestartOrder(set)[1] /\ RestartOrder(set)[1] = x
    BY <1>2, <1>7, <1>9, <2>2, <2>3
  <2>5. RestartOrder(set) # <<>>
    BY <1>7, <2>2
  <2> QED BY <2>4, <2>5
<1> QED BY <1>9, <1>10

\* While a run works on a backend, and until the next run has taken it up, no
\* other is drained in the file; what is not drained in the file is up.
Turn(x) ==
    /\ file \subseteq {x}
    /\ step \in {"draining", "restart", "starting", "settling"} => todo # <<>> /\ x = Head(todo)
    /\ step \in {"draining", "restart", "starting"} => x \in file
    /\ step = "drain" /\ file # {} => todo # <<>> /\ x = Head(todo)
    /\ step = "settling" => file = {}

OthersUp == alive \in [Backend -> State] /\ \A b \in Backend \ file : alive[b] = "up"

TurnInv ==
    /\ OthersUp /\ todo \in Seq(Range(Routes[1]))
    /\ \E x \in Range(Routes[1]) : Turn(x)

\* Only what the file drains goes down or comes up.
LEMMA OthersStay ==
    ASSUME OthersUp, [RollingNext]_allVars,
           step = "restart" => Head(todo) \in file
    PROVE  alive' \in [Backend -> State] /\ \A b \in Backend \ file : alive'[b] = alive[b]
<1>1. alive \in [Backend -> State] /\ \A b \in Backend \ file : alive[b] = "up"
  BY DEF OthersUp
<1>2. CASE RestartService
  <2>1. Head(todo) \in file /\ \E s \in State : alive' = [alive EXCEPT ![Head(todo)] = s] \/ alive' = alive
    BY <1>2 DEF RestartService, Change, vars
  <2> QED BY <1>1, <2>1
<1>3. CASE \E c \in Backend : ComeUp(c)
  <2>1. PICK c \in Backend : alive[c] # "up" /\ alive' = [alive EXCEPT ![c] = "up"]
    BY <1>3 DEF ComeUp, Change
  <2> QED BY <1>1, <2>1 DEF State
<1>4. CASE ~RestartService /\ ~\E c \in Backend : ComeUp(c)
  <2>1. alive' = alive
    BY <1>4 DEF RollingNext, Script, Run, Drain, AlreadyDrained, Drained, Undrain, RestartFailed,
          Settled, Complete, Interrupt, Reload, Pass, Tick, Checker, WakeUp, NextGroup, EndSweep,
          EndGroup, Skip, Send, Store, vars, allVars
  <2> QED BY <1>1, <2>1
<1> QED BY <1>2, <1>3, <1>4

\* The script takes its place in the file with it.
LEMMA TurnStep ==
    ASSUME 1 \in DOMAIN Routes, OthersUp, todo \in Seq(Range(Routes[1])),
           NEW x \in Range(Routes[1]), Turn(x), [RollingNext]_allVars
    PROVE  /\ todo' \in Seq(Range(Routes[1]))
           /\ Drain => file = {} /\ \E y \in Range(Routes[1]) : y = Head(todo) /\ Turn(y)'
           /\ Drain \/ Turn(x)'
<1> USE DEF Goto, SetDrain, balancer, script
<1>1. /\ file \subseteq {x}
      /\ step \in {"draining", "restart", "starting", "settling"} => todo # <<>> /\ x = Head(todo)
      /\ step \in {"draining", "restart", "starting"} => x \in file
      /\ step = "drain" /\ file # {} => todo # <<>> /\ x = Head(todo)
      /\ step = "settling" => file = {}
  BY DEF Turn
<1>2. CASE Drain
  <2>1. /\ step = "drain" /\ todo # <<>> /\ Head(todo) \notin file /\ todo' = todo
        /\ file' = file \cup {Head(todo)} /\ step' = "draining"
    BY <1>2 DEF Drain
  <2>2. file = {} /\ Head(todo) \in Range(Routes[1])
    BY <1>1, <2>1
  <2>3. PICK y \in Range(Routes[1]) : y = Head(todo)
    BY <2>2
  <2>4. Turn(y)'
    BY <2>1, <2>2, <2>3 DEF Turn
  <2> QED BY <1>2, <2>1, <2>2, <2>3, <2>4
<1>3. ASSUME ~Drain PROVE todo' \in Seq(Range(Routes[1])) /\ Turn(x)'
  <2>1. CASE Run
    <3>1. todo' = RestartOrder(file) /\ step' = "drain" /\ file' = file
      BY <2>1 DEF Run
    <3>2. /\ RestartOrder(file) \in Seq(Range(Routes[1]))
          /\ file # {} => RestartOrder(file) # <<>> /\ Head(RestartOrder(file)) = x
      BY <1>1, OrderOf
    <3> QED BY <1>1, <3>1, <3>2 DEF Turn
  <2>2. CASE AlreadyDrained \/ Drained \/ RestartService \/ RestartFailed \/ Complete \/ Interrupt
    <3>1. UNCHANGED <<file, todo>>
      BY <2>2 DEF AlreadyDrained, Drained, RestartService, RestartFailed, Complete, Interrupt
    <3>2. /\ step' \in {"restart", "starting", "failed", "idle", "stopped"}
          /\ step' \in {"restart", "starting"} => todo # <<>> /\ x = Head(todo) /\ x \in file
      BY <1>1, <2>2 DEF AlreadyDrained, Drained, RestartService, RestartFailed, Complete, Interrupt
    <3> QED BY <1>1, <3>1, <3>2 DEF Turn
  <2>3. CASE Undrain
    <3>1. step = "starting" /\ step' = "settling" /\ todo' = todo /\ file' = file \ {Head(todo)}
      BY <2>3 DEF Undrain
    <3> QED BY <1>1, <3>1 DEF Turn
  <2>4. CASE Settled
    <3>1. step = "settling" /\ step' = "drain" /\ todo' = Tail(todo) /\ file' = file
      BY <2>4 DEF Settled
    <3>2. todo' \in Seq(Range(Routes[1]))
      BY <1>1, <3>1
    <3> QED BY <1>1, <3>1, <3>2 DEF Turn
  <2>5. CASE \/ Reload \/ Pass \/ (Checker /\ UNCHANGED <<balancer, script>>)
             \/ UNCHANGED allVars \/ \E b \in Backend : ComeUp(b)
    <3>1. UNCHANGED <<file, step, todo>>
      BY <2>5 DEF Reload, Pass, ComeUp, allVars
    <3> QED BY <1>1, <3>1 DEF Turn
  <2> QED BY <1>3, <2>1, <2>2, <2>3, <2>4, <2>5 DEF RollingNext, Script
<1> QED BY <1>2, <1>3

LEMMA TurnInvStep ==
    ASSUME 1 \in DOMAIN Routes, TurnInv, [RollingNext]_allVars
    PROVE  TurnInv' /\ \A b \in Backend \ file : alive'[b] = alive[b]
<1>1. PICK x \in Range(Routes[1]) : Turn(x)
  BY DEF TurnInv
<1>2. OthersUp /\ todo \in Seq(Range(Routes[1])) /\ (step = "restart" => Head(todo) \in file)
  BY <1>1 DEF TurnInv, Turn
<1>3. alive' \in [Backend -> State] /\ \A b \in Backend \ file : alive'[b] = alive[b]
  BY <1>2, OthersStay
<1>4. ASSUME NEW b \in Backend \ file' PROVE alive'[b] = "up"
  <2>1. CASE b \notin file
    BY <1>2, <1>3, <2>1 DEF OthersUp
  <2>2. CASE b \in file
    <3>1. Undrain
      BY <1>4, <2>2 DEF RollingNext, Script, Run, Drain, AlreadyDrained, Drained, RestartService,
            RestartFailed, Settled, Complete, Interrupt, Reload, Pass, ComeUp, SetDrain, balancer, allVars
    <3> QED BY <1>4, <2>2, <3>1 DEF Undrain, SetDrain, vars
  <2> QED BY <2>1, <2>2
<1>5. todo' \in Seq(Range(Routes[1])) /\ \E y \in Range(Routes[1]) : Turn(y)'
  <2>1. Drain => \E y \in Range(Routes[1]) : Turn(y)'
    BY <1>1, <1>2, TurnStep
  <2>2. todo' \in Seq(Range(Routes[1])) /\ (Drain \/ Turn(x)')
    BY <1>1, <1>2, TurnStep
  <2> QED BY <1>1, <2>1, <2>2
<1> QED BY <1>3, <1>4, <1>5 DEF TurnInv, OthersUp

LEMMA TurnStarts ==
    ASSUME \E b : b \in Range(Routes[1]), RollingInit
    PROVE  TurnInv
<1>1. alive = [b \in Backend |-> "up"] /\ file = {} /\ todo = <<>> /\ step = "idle"
  BY DEF RollingInit
<1>2. PICK x : x \in Range(Routes[1])
  OBVIOUS
<1>3. Turn(x)
  BY <1>1 DEF Turn
<1> QED BY <1>1, <1>2, <1>3 DEF TurnInv, OthersUp, State

(* At most one backend is drained in the file or down, through aborts,     *)
(* interruptions and reruns at any time, whatever the times the script     *)
(* waits: it takes up the backend an earlier run left behind before it     *)
(* drains another (build_restart_order, rolling_restart).                  *)
THEOREM OneBackendOut ==
    ASSUME 1 \in DOMAIN Routes, \E b : b \in Range(Routes[1])
    PROVE  RollingSpec => []OneAtATime
<1>1. RollingInit => TurnInv
  BY TurnStarts
<1>2. TurnInv /\ [RollingNext]_allVars => TurnInv'
  BY TurnInvStep
<1>3. TurnInv => OneAtATime
  BY DEF TurnInv, Turn, OthersUp, OneAtATime
<1> QED BY <1>1, <1>2, <1>3, PTL DEF RollingSpec

-----------------------------------------------------------------------------
(* What the file drains is drained, but while the script waits for it, or  *)
(* after an interruption, and in a run that was hasty.  Where the script   *)
(* waits after a save, and where it was interrupted, the file differs from *)
(* the balancer for at least as long as it is there.                       *)
RollingTypes ==
    /\ alive \in [Backend -> State]
    /\ clock \in Nat /\ lag \in Nat

Saved == {"draining", "settling", "stopped"}
FileInForce ==
    /\ file # drained => lag <= Lag /\ (step \in Saved => clock <= lag)
    /\ step \notin {"draining", "stopped"} => file \subseteq drained \/ hasty

DownIsDrained == \A b \in Backend : alive[b] # "up" => b \in file /\ (b \in drained \/ hasty)

AtWork == step \in {"draining", "restart", "starting"} => Head(todo) \in file

RollingInv == RollingTypes /\ FileInForce /\ DownIsDrained /\ AtWork

LEMMA TimesAreNats ==
    /\ DrainTimeout \in Nat /\ StartupTimeout \in Nat /\ Settle \in Nat /\ Lag \in Nat
    /\ MaxClock \in Nat /\ MaxClock >= DrainTimeout
<1> DEFINE T == {DrainTimeout, StartupTimeout, Settle}
<1>1. T \subseteq Nat /\ Lag \in Nat
  BY ScriptAssumption
<1>2. \E m \in T : \A n \in T : n <= m
  <2>1. DrainTimeout \in Nat /\ StartupTimeout \in Nat /\ Settle \in Nat
    BY <1>1
  <2>2. CASE DrainTimeout >= StartupTimeout /\ DrainTimeout >= Settle
    BY <2>1, <2>2
  <2>3. CASE StartupTimeout >= DrainTimeout /\ StartupTimeout >= Settle
    BY <2>1, <2>3
  <2>4. CASE Settle >= DrainTimeout /\ Settle >= StartupTimeout
    BY <2>1, <2>4
  <2> QED BY <2>1, <2>2, <2>3, <2>4
<1>3. MaxClock \in T /\ \A n \in T : n <= MaxClock
  BY <1>2 DEF MaxClock
<1> QED BY <1>1, <1>3

LEMMA RollingStarts == RollingInit => RollingInv
<1> SUFFICES ASSUME RollingInit PROVE RollingInv
  OBVIOUS
<1>1. alive = [b \in Backend |-> "up"] /\ file = {} /\ drained = {} /\ lag = 0 /\ clock = 0 /\ step = "idle"
  BY DEF RollingInit
<1> QED BY <1>1 DEF RollingInv, RollingTypes, FileInForce, DownIsDrained, AtWork, State

\* A step of the checker leaves the backends and the script alone.
LEMMA CheckerStep ==
    ASSUME RollingInv, Checker \/ UNCHANGED vars, UNCHANGED <<balancer, script>>
    PROVE  RollingInv'
<1>1. UNCHANGED alive
  BY DEF Checker, WakeUp, NextGroup, EndSweep, EndGroup, Skip, Send, Store, vars
<1> QED BY <1>1 DEF RollingInv, RollingTypes, FileInForce, DownIsDrained, AtWork, balancer, script

\* Time passes for the file and for the script at once.
LEMMA PassStep ==
    ASSUME RollingInv, Pass
    PROVE  RollingInv'
<1>1. UNCHANGED <<alive, file, drained, step, todo, hasty>>
  BY DEF Pass, Tick
<1>2. clock \in Nat /\ lag \in Nat /\ Lag \in Nat /\ MaxClock \in Nat
  BY TimesAreNats DEF RollingInv, RollingTypes
<1>3. /\ file # drained => lag < Lag
      /\ lag' = IF file # drained THEN lag + 1 ELSE 0
      /\ clock' = clock \/ clock' = clock + 1
  BY DEF Pass, Aged
<1>4. RollingTypes'
  BY <1>1, <1>2, <1>3 DEF RollingInv, RollingTypes
<1>5. FileInForce'
  BY <1>1, <1>2, <1>3 DEF RollingInv, FileInForce
<1> QED BY <1>1, <1>4, <1>5 DEF RollingInv, DownIsDrained, AtWork

\* A step of the script that saves nothing and restarts nothing.
LEMMA ScriptMoves ==
    ASSUME RollingInv, UNCHANGED <<alive, file, drained, lag>>, clock' = 0,
           step' # "stopped" => file \subseteq drained \/ hasty',
           hasty => file \subseteq drained \/ hasty',
           step' \in {"restart", "starting"} => Head(todo') \in file,
           step' # "draining"
    PROVE  RollingInv'
<1>1. RollingTypes /\ FileInForce /\ DownIsDrained /\ AtWork /\ lag \in Nat
  BY DEF RollingInv, RollingTypes
<1>2. RollingTypes' /\ FileInForce' /\ AtWork'
  BY <1>1 DEF RollingTypes, FileInForce, AtWork
<1>3. DownIsDrained'
  BY <1>1 DEF DownIsDrained
<1> QED BY <1>2, <1>3 DEF RollingInv

LEMMA ScriptStep ==
    ASSUME RollingInv, Lag < DrainTimeout, step = "settling" => file = {}, Script
    PROVE  RollingInv'
<1> USE DEF Goto, vars, balancer, SetDrain
<1>1. /\ RollingTypes /\ FileInForce /\ DownIsDrained /\ AtWork
      /\ clock \in Nat /\ lag \in Nat /\ Lag \in Nat /\ DrainTimeout \in Nat /\ Settle \in Nat
  BY TimesAreNats DEF RollingInv, RollingTypes
<1>2. CASE Run
  <2>1. /\ step \in {"idle", "failed", "stopped"} /\ step' = "drain" /\ clock' = 0
        /\ UNCHANGED <<alive, file, drained, lag>>
        /\ hasty' = IF step = "stopped" THEN ~Patient ELSE hasty
    BY <1>2 DEF Run
  <2>2. step = "stopped" /\ Patient => file = drained
    BY <1>1 DEF FileInForce, Saved, Patient
  <2>3. file \subseteq drained \/ hasty'
    BY <1>1, <2>1, <2>2 DEF FileInForce
  <2> QED BY <2>1, <2>3, ScriptMoves
<1>3. CASE Drain
  <2>1. /\ step = "drain" /\ step' = "draining" /\ clock' = 0 /\ lag' = 0 /\ UNCHANGED <<todo, hasty>>
        /\ file' = file \cup {Head(todo)} /\ UNCHANGED <<alive, drained>>
    BY <1>3 DEF Drain
  <2>2. RollingTypes' /\ FileInForce' /\ AtWork'
    BY <1>1, <2>1 DEF RollingTypes, FileInForce, AtWork, Saved
  <2>3. DownIsDrained'
    BY <1>1, <2>1 DEF DownIsDrained
  <2> QED BY <2>2, <2>3 DEF RollingInv
<1>4. CASE AlreadyDrained
  <2>1. /\ step = "drain" /\ Head(todo) \in file /\ step' = "restart" /\ clock' = 0
        /\ UNCHANGED <<alive, file, drained, lag, todo, hasty>>
    BY <1>4 DEF AlreadyDrained
  <2>2. file \subseteq drained \/ hasty
    BY <1>1, <2>1 DEF FileInForce
  <2> QED BY <2>1, <2>2, ScriptMoves
<1>5. CASE Drained
  <2>1. /\ step = "draining" /\ clock >= DrainTimeout /\ step' = "restart" /\ clock' = 0
        /\ UNCHANGED <<alive, file, drained, lag, todo, hasty>>
    BY <1>5 DEF Drained
  <2>2. file = drained
    BY <1>1, <2>1 DEF FileInForce, Saved
  <2>3. Head(todo) \in file
    BY <1>1, <2>1 DEF AtWork
  <2> QED BY <2>1, <2>2, <2>3, ScriptMoves
<1>6. CASE RestartService
  <2>1. /\ step = "restart" /\ step' = "starting" /\ clock' = 0
        /\ UNCHANGED <<file, drained, lag, todo, hasty>>
    BY <1>6 DEF RestartService
  <2>2. Head(todo) \in file /\ (Head(todo) \in drained \/ hasty)
    BY <1>1, <2>1 DEF AtWork, FileInForce, Saved
  <2>3. alive' \in [Backend -> State] /\ \A b \in Backend : b # Head(todo) => alive'[b] = alive[b]
    BY <1>1, <1>6 DEF RestartService, Change, RollingTypes, State
  <2>4. RollingTypes' /\ FileInForce' /\ AtWork'
    BY <1>1, <2>1, <2>2, <2>3 DEF RollingTypes, FileInForce, AtWork, Saved
  <2>5. DownIsDrained'
    BY <1>1, <2>1, <2>2, <2>3 DEF DownIsDrained
  <2> QED BY <2>4, <2>5 DEF RollingInv
<1>7. CASE Undrain
  <2>1. /\ step = "starting" /\ step' = "settling" /\ clock' = 0 /\ lag' = 0 /\ alive[Head(todo)] = "up"
        /\ file' = file \ {Head(todo)} /\ UNCHANGED <<alive, drained, todo, hasty>>
    BY <1>7 DEF Undrain
  <2>2. RollingTypes' /\ FileInForce' /\ AtWork'
    BY <1>1, <2>1 DEF RollingTypes, FileInForce, AtWork, Saved
  <2>3. DownIsDrained'
    BY <1>1, <2>1 DEF DownIsDrained
  <2> QED BY <2>2, <2>3 DEF RollingInv
<1>8. CASE Settled
  <2>1. /\ step = "settling" /\ step' = "drain" /\ clock' = 0
        /\ UNCHANGED <<alive, file, drained, lag>>
    BY <1>8 DEF Settled
  <2>2. file = {}
    BY <2>1
  <2> QED BY <2>1, <2>2, ScriptMoves
<1>9. CASE RestartFailed \/ Complete
  <2>1. /\ step \in {"starting", "drain"} /\ step' \in {"failed", "idle"} /\ clock' = 0
        /\ UNCHANGED <<alive, file, drained, lag, hasty>>
    BY <1>9 DEF RestartFailed, Complete
  <2>2. file \subseteq drained \/ hasty
    BY <1>1, <2>1 DEF FileInForce
  <2> QED BY <2>1, <2>2, ScriptMoves
<1> QED BY <1>2, <1>3, <1>4, <1>5, <1>6, <1>7, <1>8, <1>9 DEF Script

LEMMA RollingStep ==
    ASSUME Lag < DrainTimeout, TurnInv, RollingInv, [RollingNext]_allVars
    PROVE  RollingInv'
<1>1. CASE Script
  BY <1>1, ScriptStep DEF TurnInv, Turn
<1>2. CASE Interrupt
  <2>1. step' = "stopped" /\ clock' = 0 /\ UNCHANGED <<alive, file, drained, lag, todo, hasty>>
    BY <1>2 DEF Interrupt, Goto, vars, balancer
  <2> QED BY <2>1, ScriptMoves DEF Saved
<1>3. CASE Reload
  <2>1. drained' = file /\ lag' = 0 /\ UNCHANGED <<alive, file, step, todo, clock, hasty>>
    BY <1>3 DEF Reload, vars, script
  <2> QED BY <2>1 DEF RollingInv, RollingTypes, FileInForce, DownIsDrained, AtWork
<1>4. CASE Pass
  BY <1>4, PassStep
<1>5. CASE Checker /\ UNCHANGED <<balancer, script>>
  BY <1>5, CheckerStep
<1>6. CASE \E b \in Backend : ComeUp(b)
  <2>1. PICK b \in Backend : alive' = [alive EXCEPT ![b] = "up"]
    BY <1>6 DEF ComeUp, Change
  <2>2. UNCHANGED <<file, drained, lag, step, todo, clock, hasty>>
    BY <1>6 DEF ComeUp, balancer, script
  <2>3. alive' \in [Backend -> State] /\ \A c \in Backend : alive'[c] # "up" => alive[c] # "up"
    BY <2>1 DEF RollingInv, RollingTypes, State
  <2> QED BY <2>2, <2>3 DEF RollingInv, RollingTypes, FileInForce, DownIsDrained, AtWork
<1>7. CASE UNCHANGED allVars
  BY <1>7, CheckerStep DEF allVars
<1> QED BY <1>1, <1>2, <1>3, <1>4, <1>5, <1>6, <1>7 DEF RollingNext

-----------------------------------------------------------------------------
(* If the script waits longer after a drain than the file takes to come    *)
(* into force, then none of its restarts takes a backend down that the     *)
(* balancer still sends to, in a first run and in one after a service did  *)
(* not come up.  A run that follows on an interruption sooner than the     *)
(* script itself would wait is excused until it has waited for a backend:  *)
(* it may restart one whose drain is not in force (rolling_restart).       *)
THEOREM NoneDownInRotation ==
    ASSUME Lag < DrainTimeout, 1 \in DOMAIN Routes, \E b : b \in Range(Routes[1])
    PROVE  RollingSpec => []RestartsDrained
<1>1. RollingInit => TurnInv /\ RollingInv
  BY TurnStarts, RollingStarts
<1>2. TurnInv /\ RollingInv /\ [RollingNext]_allVars => TurnInv' /\ RollingInv'
  BY TurnInvStep, RollingStep
<1>3. RollingInv => RestartsDrained
  BY DEF RollingInv, DownIsDrained, RestartsDrained
<1> QED BY <1>1, <1>2, <1>3, PTL DEF RollingSpec

-----------------------------------------------------------------------------
(* Some backend serves at any moment of an update.  A backend the checker  *)
(* finds up for good stays in rotation; one that the file lists as active  *)
(* is in it after the wait of the script, which is the stopwatch on it.    *)
Good(b) == alive[b] = "up" /\ healthy[b] /\ (InFlight(b) => seen = {"up"})
Returning(b) == alive[b] = "up" /\ Switched(b, clock) /\ Recovers(b, clock)

\* No backend but x is drained or on its way back, and but for the waits the
\* balancer agrees with the file.
Focus(x) ==
    /\ step \in Saved \/ file = drained
    /\ drained \subseteq {x}
    /\ \A b \in Backend \ {x} : Good(b)
    /\ x \notin file => Good(x) \/ step \in {"settling", "stopped"}

\* All but the last line holds of every run, and lets one that was hasty make
\* up for it.
ServeInv ==
    /\ TypeOK /\ RollingInv /\ TurnInv
    /\ listed = Backend /\ \A b \in Backend : Skipped(b)
    /\ \A b \in Backend \ file : Returning(b)
    /\ hasty \/ \E x \in Range(Routes[1]) : Turn(x) /\ Focus(x)

\* The checker leaves a backend in rotation that it has found up since it sent
\* its probe.
Checks == UNCHANGED vars \/ Checker \/ Tick \/ \E c \in Backend : \E s \in State : Change(c, s)

LEMMA KeepsGood ==
    ASSUME TypeOK, TypeOK', Checks, NEW b \in listed, Good(b), alive'[b] = alive[b]
    PROVE  Good(b)'
<1> SUFFICES healthy'[b] /\ (InFlight(b)' => seen' = {"up"})
  BY DEF Good
<1>1. healthy[b] /\ alive[b] = "up" /\ (InFlight(b) => seen = {"up"}) /\ b \in Backend
  BY DEF Good, TypeOK
<1>2. b # Gone
  BY <1>1, HomeOf
<1>3. CASE UNCHANGED vars
  BY <1>1, <1>3 DEF vars, loopVars, InFlight, Probed, At
<1>4. CASE WakeUp \/ NextGroup \/ EndSweep \/ EndGroup \/ Skip
  <2>1. pc' # "probe" /\ healthy' = healthy
    BY <1>4 DEF WakeUp, NextGroup, EndSweep, EndGroup, Skip
  <2> QED BY <1>1, <2>1 DEF InFlight
<1>5. CASE Send \/ Tick
  <2>1. Probed' = Probed /\ healthy' = healthy
    BY <1>5, Stays
  <2>2. CASE Send
    BY <1>1, <1>2, <2>1, <2>2 DEF Send, InFlight
  <2>3. CASE Tick
    BY <1>1, <2>1, <2>3 DEF Tick, InFlight
  <2> QED BY <1>5, <2>2, <2>3
<1>6. ASSUME NEW ok \in BOOLEAN, Store(ok) PROVE healthy'[b] /\ (InFlight(b)' => seen' = {"up"})
  <2>1. pc = "probe" /\ pc' = "backend"
    BY <1>6 DEF Store
  <2>2. CASE Probed # b
    BY <1>1, <1>6, <2>1, <2>2 DEF Store, InFlight, TypeOK
  <2>3. CASE Probed = b
    <3>1. seen = {"up"}
      BY <1>1, <2>1, <2>3 DEF InFlight
    <3>2. Cardinality({"up"}) = 1
      BY FS_Singleton
    <3>3. ok
      BY <1>6, <3>1, <3>2 DEF Store, Answer, TimedOut
    <3> QED BY <1>1, <1>2, <1>6, <2>1, <2>3, <3>3 DEF Store, InFlight, TypeOK
  <2> QED BY <2>2, <2>3
<1>7. ASSUME NEW c \in Backend, NEW s \in State, Change(c, s)
      PROVE  healthy'[b] /\ (InFlight(b)' => seen' = {"up"})
  <2>1. healthy' = healthy /\ c # b /\ listed' = listed
    BY <1>1, <1>7 DEF Change, TypeOK
  <2>2. InFlight(b)' <=> InFlight(b)
    BY <1>7, <2>1, Around
  <2>3. InFlight(b) => seen' = seen
    BY <1>7, <2>1 DEF Change, InFlight
  <2> QED BY <1>1, <2>1, <2>2, <2>3
<1> QED BY <1>3, <1>4, <1>5, <1>6, <1>7 DEF Checks, Checker

\* When it begins, nothing is claimed yet.
LEMMA StartsReturning ==
    ASSUME TypeOK, TypeOK', UNCHANGED vars, clock' = 0, NEW b \in Backend, alive[b] = "up",
           Skipped(b), Cooldown > 0
    PROVE  Returning(b)'
<1>1. UNCHANGED <<listed, healthy, last_health_check, pc, group, backends, timer, alive, seen>>
  BY DEF vars, loopVars
<1>2. timer \in Nat /\ last_health_check[b] \in Nat
  BY Times DEF TypeOK, Lasting
<1>3. Switched(b, clock)'
  BY <1>1, <1>2 DEF Switched
<1>4. Recovers(b, 0)
  <2>1. 0 - timer < Cooldown + Timeout
    <3>1. 0 < Cooldown + Timeout /\ Cooldown + Timeout \in Nat
      BY Times
    <3> QED BY <1>2, <3>1, Less
  <2>2. Remaining \in SUBSET Place
    BY RemainingIs
  <2>3. /\ 0 + Interval + Work(UpTo(b)) - timer < RecoverBound
        /\ 0 + Work(Remaining \cap UpTo(b)) - timer < RecoverBound
        /\ Remaining \cap UpTo(b) = {} =>
             0 + Work(Remaining) + Interval + Work(UpTo(b)) - timer < RecoverBound
    BY <1>2, <2>1, <2>2, RecoversSoon
  <2>4. 0 <= last_health_check[b] + Timeout
    BY <1>2, Times
  <2> QED BY <2>3, <2>4 DEF Recovers, Skipped
<1>5. Recovers(b, clock)'
  BY <1>1, <1>4 DEF Recovers, ToCome, Remaining, Home, UpTo, Work
<1> QED BY <1>1, <1>3, <1>5 DEF Returning

\* Time does not pass while nothing changes.
LEMMA Stopped == ASSUME TypeOK, UNCHANGED vars PROVE ~Tick
<1>1. timer \in Nat /\ timer' = timer
  BY Times DEF TypeOK, Lasting, vars, loopVars
<1> QED BY <1>1 DEF Tick

\* The wait of the script runs no faster than the time.
LEMMA KeepsReturning ==
    ASSUME TypeOK, TypeOK', Checks, Cooldown > 0, NEW b \in Backend, b \in listed, b \in listed',
           Returning(b), Skipped(b), Skipped(b)', alive'[b] = alive[b],
           clock \in Nat, clock' \in Nat,
           clock' = 0 \/ clock' = clock \/ (Tick /\ clock' <= clock + 1)
    PROVE  Returning(b)'
<1>1. alive[b] = "up" /\ alive'[b] = "up"
  BY DEF Returning
<1>2. CASE UNCHANGED vars
  <2>1. CASE clock' = 0
    BY <1>1, <1>2, <2>1, StartsReturning
  <2>2. CASE clock' # 0
    <3>1. clock' = clock
      BY <1>2, <2>2, Stopped
    <3>2. Switched(b, clock)' <=> Switched(b, clock)
      BY <1>2, <3>1 DEF Switched, InFlight, Probed, At, vars, loopVars
    <3>3. Recovers(b, clock)' <=> Recovers(b, clock)
      BY <1>2, <3>1 DEF Recovers, ToCome, Remaining, Home, UpTo, Work, vars, loopVars
    <3> QED BY <1>1, <3>2, <3>3 DEF Returning
  <2> QED BY <2>1, <2>2
<1>3. CASE Next
  <2>1. PICK t \in Nat : t = clock
    OBVIOUS
  <2>2. PICK u \in Nat : u = clock'
    OBVIOUS
  <2>3. Lapse(b, t, u)
    BY <2>1, <2>2 DEF Lapse, Tick
  <2>4. Switched(b, t) /\ Recovers(b, t)
    BY <2>1 DEF Returning, Switched, Recovers
  <2>5. Switched(b, u)' /\ Recovers(b, u)'
    BY <1>3, <2>3, <2>4, SwitchedStep, RecoversStep
  <2> QED BY <1>1, <2>2, <2>5 DEF Returning, Switched, Recovers
<1> QED BY <1>2, <1>3 DEF Checks, Checker, Next

\* When it is over, the backend is in rotation for good.
LEMMA Returned ==
    ASSUME TypeOK, NEW b \in listed, clock \in Nat, clock >= RecoverBound, Cooldown > 0, Returning(b)
    PROVE  Good(b)
<1>1. alive[b] = "up" /\ Switched(b, clock) /\ Recovers(b, clock)
  BY DEF Returning
<1>2. healthy[b]
  BY <1>1, Recovered
<1>3. ASSUME InFlight(b) PROVE seen = {"up"}
  <2>1. timer \in Nat /\ timer <= Timeout
    BY <1>3, Times DEF TypeOK, Lasting, InFlight
  <2>2. ~(clock <= timer)
    BY <2>1, Bounds, Times
  <2>3. \A s \in seen : s = "up"
    BY <1>1, <1>3, <2>2 DEF Switched
  <2>4. seen # {}
    BY <1>3 DEF InFlight, TypeOK
  <2> QED BY <2>3, <2>4
<1> QED BY <1>1, <1>2, <1>3 DEF Good

\* What the script must know of the balancer.
WaitsEnough == Lag < DrainTimeout /\ Lag < Settle /\ RecoverBound <= Settle /\ Cooldown > 0

\* A step is one of the checker and of the backends, or leaves both alone; the
\* stopwatch goes on, or starts again.
LEMMA StepIs ==
    ASSUME 1 \in DOMAIN Routes, TypeOK, TurnInv, clock \in Nat, [RollingNext]_allVars
    PROVE  /\ Checks /\ [Next]_vars /\ listed' = listed
           /\ clock' = 0 \/ clock' = clock \/ (Tick /\ clock' <= clock + 1)
<1>1. Range(Routes[1]) \subseteq Backend
  BY DEF Backend
<1>2. Checks /\ (clock' = 0 \/ clock' = clock \/ (Tick /\ clock' <= clock + 1))
  <2>1. CASE RestartService
    <3>1. todo # <<>> /\ todo \in Seq(Range(Routes[1]))
      BY <2>1 DEF RestartService, TurnInv, Turn
    <3>2. Head(todo) \in Backend
      BY <1>1, <3>1
    <3> QED BY <2>1, <3>2 DEF RestartService, Checks, Goto
  <2>2. CASE \E b \in Backend : ComeUp(b)
    BY <2>2 DEF ComeUp, Checks, State, script
  <2>3. CASE Pass
    BY <2>3, TimesAreNats DEF Pass, Checks, Aged
  <2>4. CASE Checker /\ UNCHANGED <<balancer, script>>
    BY <2>4 DEF Checks, script
  <2>5. CASE Run \/ Drain \/ AlreadyDrained \/ Drained \/ Undrain \/ RestartFailed \/ Settled \/ Complete \/ Interrupt
    <3>1. UNCHANGED vars /\ clock' = 0
      BY <2>5 DEF Run, Drain, AlreadyDrained, Drained, Undrain, RestartFailed, Settled, Complete,
            Interrupt, Goto
    <3> QED BY <3>1 DEF Checks
  <2>6. CASE Reload \/ UNCHANGED allVars
    <3>1. UNCHANGED vars /\ clock' = clock
      BY <2>6 DEF Reload, allVars, script
    <3> QED BY <3>1 DEF Checks
  <2> QED BY <2>1, <2>2, <2>3, <2>4, <2>5, <2>6 DEF RollingNext, Script
<1>3. [Next]_vars
  BY <1>2 DEF Checks, Checker, Next
<1>4. listed' = listed
  BY <1>2 DEF Checks, Checker, WakeUp, NextGroup, EndSweep, EndGroup, Skip, Send, Store, Tick,
        Change, vars
<1> QED BY <1>2, <1>3, <1>4

LEMMA ServeParts ==
    ASSUME WaitsEnough, 1 \in DOMAIN Routes, ServeInv, [RollingNext]_allVars
    PROVE  /\ Checks /\ TypeOK /\ TypeOK' /\ RollingInv /\ RollingInv' /\ TurnInv'
           /\ listed = Backend /\ listed' = Backend /\ \A b \in Backend : Skipped(b) /\ Skipped(b)'
           /\ clock \in Nat /\ clock' \in Nat
           /\ \A b \in Backend \ file : alive'[b] = alive[b]
<1>1. /\ TypeOK /\ RollingInv /\ TurnInv /\ listed = Backend /\ \A b \in Backend : Skipped(b)
      /\ clock \in Nat
  BY DEF ServeInv, RollingInv, RollingTypes
<1>2. Checks /\ [Next]_vars /\ listed' = Backend
  BY <1>1, StepIs
<1>3. TypeOK'
  BY <1>1, <1>2, TypeStep
<1>4. ASSUME NEW b \in Backend PROVE Skipped(b)'
  <2>1. CASE Next
    BY <1>1, <1>3, <2>1, SkippedStep
  <2>2. CASE UNCHANGED vars
    BY <1>1, <2>2 DEF Skipped, ToCome, Remaining, InFlight, Probed, At, UpTo, Home, vars, loopVars
  <2> QED BY <1>2, <2>1, <2>2
<1>5. RollingInv' /\ clock' \in Nat
  BY <1>1, RollingStep DEF WaitsEnough, RollingInv, RollingTypes
<1>6. TurnInv' /\ \A b \in Backend \ file : alive'[b] = alive[b]
  BY <1>1, TurnInvStep
<1> QED BY <1>1, <1>2, <1>3, <1>4, <1>5, <1>6

\* The stopwatch runs for every backend that the file lists as active.
LEMMA ReturningStep ==
    ASSUME WaitsEnough, 1 \in DOMAIN Routes, ServeInv, [RollingNext]_allVars,
           NEW b \in Backend, b \notin file'
    PROVE  Returning(b)'
<1>1. /\ TypeOK /\ TypeOK' /\ Checks /\ b \in listed /\ b \in listed' /\ Skipped(b) /\ Skipped(b)'
      /\ clock \in Nat /\ clock' \in Nat /\ Cooldown > 0
      /\ \A c \in Backend \ file : alive'[c] = alive[c] /\ Returning(c)
  BY ServeParts DEF ServeInv, WaitsEnough
<1>2. CASE b \notin file
  <2>1. clock' = 0 \/ clock' = clock \/ (Tick /\ clock' <= clock + 1)
    BY <1>1, StepIs DEF ServeInv
  <2> QED BY <1>1, <1>2, <2>1, KeepsReturning
<1>3. CASE b \in file
  <2>1. Undrain
    BY <1>3 DEF RollingNext, Script, Run, Drain, AlreadyDrained, Drained, RestartService,
          RestartFailed, Settled, Complete, Interrupt, Reload, Pass, ComeUp, SetDrain, balancer, allVars
  <2>2. alive[b] = "up" /\ clock' = 0 /\ UNCHANGED vars
    BY <1>3, <2>1 DEF Undrain, SetDrain, Goto
  <2> QED BY <1>1, <2>2, StartsReturning
<1> QED BY <1>2, <1>3

\* After the wait all of them serve, and what the file drains is drained.
LEMMA WaitedEnough ==
    ASSUME WaitsEnough, ServeInv, clock >= Settle, step \in {"settling", "stopped"}
    PROVE  file = drained /\ \A b \in Backend \ file : Good(b)
<1>1. /\ clock \in Nat /\ lag \in Nat /\ Lag \in Nat /\ Settle \in Nat /\ Cooldown > 0
      /\ Lag < Settle /\ RecoverBound <= Settle /\ RecoverBound \in Nat
  BY TimesAreNats, Bounds DEF WaitsEnough, ServeInv, RollingInv, RollingTypes
<1>2. file = drained
  BY <1>1 DEF ServeInv, RollingInv, FileInForce, Saved
<1>3. clock >= RecoverBound
  BY <1>1
<1>4. \A b \in Backend \ file : Good(b)
  BY <1>1, <1>3, Returned DEF ServeInv
<1> QED BY <1>2, <1>4

\* The others serve on, and so does x if it did.
LEMMA OthersServe ==
    ASSUME WaitsEnough, 1 \in DOMAIN Routes, ServeInv, [RollingNext]_allVars,
           NEW x \in Range(Routes[1]), Turn(x)
    PROVE  \A b \in Backend : Good(b) /\ (b # x \/ b \notin file) => Good(b)'
<1>1. /\ TypeOK /\ TypeOK' /\ Checks /\ listed = Backend
      /\ file \subseteq {x} /\ \A b \in Backend \ file : alive'[b] = alive[b]
  BY ServeParts DEF Turn
<1> QED BY <1>1, KeepsGood

\* A run that is not hasty, and one that has made up for it.
LEMMA FocusStep ==
    ASSUME WaitsEnough, 1 \in DOMAIN Routes, ServeInv, [RollingNext]_allVars, ~hasty'
    PROVE  \E y \in Range(Routes[1]) : Turn(y)' /\ Focus(y)'
<1> USE DEF Goto, SetDrain, balancer, script
<1> DEFINE Waited == Settled \/ (Run /\ step = "stopped")
<1>1. /\ FileInForce /\ todo \in Seq(Range(Routes[1])) /\ Range(Routes[1]) \subseteq Backend
      /\ OthersUp /\ \E x \in Range(Routes[1]) : Turn(x)
  BY DEF ServeInv, RollingInv, TurnInv, Backend
<1>2. CASE Waited
  <2>1. /\ clock >= Settle /\ step \in {"settling", "stopped"} /\ step' = "drain"
        /\ UNCHANGED <<file, drained>>
    BY <1>2 DEF Settled, Run, Patient
  <2>2. file = drained /\ \A b \in Backend \ file : Good(b)
    BY <2>1, WaitedEnough
  <2>3. PICK x \in Range(Routes[1]) : Turn(x)
    BY <1>1
  <2>4. Turn(x)'
    BY <1>1, <2>1, <2>3, TurnStep DEF Drain
  <2>5. \A b \in Backend \ file : Good(b)'
    BY <2>2, <2>3, OthersServe
  <2>6. file \subseteq {x}
    BY <2>3 DEF Turn
  <2>7. Focus(x)'
    BY <1>1, <2>1, <2>2, <2>5, <2>6 DEF Focus
  <2> QED BY <2>4, <2>7
<1>3. CASE ~Waited
  <2>1. ~hasty
    BY <1>3 DEF RollingNext, Script, Run, Drain, AlreadyDrained, Drained, RestartService, Undrain,
          RestartFailed, Complete, Interrupt, Reload, Pass, ComeUp, allVars
  <2>2. PICK x \in Range(Routes[1]) : Turn(x) /\ Focus(x)
    BY <2>1 DEF ServeInv
  <2>3. /\ drained \subseteq {x} /\ file \subseteq {x} /\ (step \in Saved \/ file = drained)
        /\ x \notin file => Good(x) \/ step \in {"settling", "stopped"}
        /\ \A b \in Backend \ {x} : Good(b)
    BY <2>2 DEF Turn, Focus
  <2>4. /\ \A b \in Backend \ {x} : Good(b)'
        /\ x \notin file /\ Good(x) => Good(x)'
    BY <1>1, <2>2, <2>3, OthersServe
  <2>5. CASE Drain
    <3>1. /\ step = "drain" /\ step' = "draining"
          /\ file' = file \cup {Head(todo)} /\ drained' = drained
      BY <2>5 DEF Drain
    <3>2. file = {} /\ \E y \in Range(Routes[1]) : y = Head(todo) /\ Turn(y)'
      BY <1>1, <2>2, <2>5, TurnStep
    <3>3. PICK y \in Range(Routes[1]) : y = Head(todo) /\ Turn(y)'
      BY <3>2
    <3>4. drained = {}
      BY <2>3, <3>1, <3>2 DEF Saved
    <3>5. \A b \in Backend : Good(b)'
      BY <2>3, <2>4, <3>1, <3>2
    <3>6. Focus(y)'
      BY <3>1, <3>3, <3>4, <3>5 DEF Focus, Saved
    <3> QED BY <3>3, <3>6
  <2>6. CASE ~Drain
    <3>1. Turn(x)'
      BY <1>1, <2>2, <2>6, TurnStep
    <3>2. drained' \subseteq {x}
      BY <2>3, <2>6 DEF RollingNext, Script, Run, AlreadyDrained, Drained, RestartService, Undrain,
            RestartFailed, Settled, Complete, Interrupt, Reload, Pass, ComeUp, allVars
    <3>3. x \notin file' => Good(x)' \/ step' \in {"settling", "stopped"}
      <4>1. CASE Undrain \/ Interrupt
        BY <4>1 DEF Undrain, Interrupt
      <4>2. CASE ~(Undrain \/ Interrupt)
        <5>1. file' = file /\ (step \in {"settling", "stopped"} => step' = step)
          BY <1>3, <2>6, <4>2 DEF RollingNext, Script, Run, AlreadyDrained, Drained, RestartService,
                RestartFailed, Settled, Complete, Reload, Pass, ComeUp, allVars
        <5> QED BY <2>3, <2>4, <5>1
      <4> QED BY <4>1, <4>2
    <3>4. step' \in Saved \/ file' = drained'
      <4>1. CASE Undrain \/ Interrupt
        BY <4>1 DEF Undrain, Interrupt, Saved
      <4>2. CASE Drained
        <5>1. /\ clock \in Nat /\ lag \in Nat /\ Lag \in Nat /\ DrainTimeout \in Nat
              /\ Lag < DrainTimeout /\ step = "draining" /\ clock >= DrainTimeout
              /\ UNCHANGED <<file, drained>>
          BY <4>2, TimesAreNats DEF Drained, WaitsEnough, ServeInv, RollingInv, RollingTypes
        <5> QED BY <1>1, <5>1 DEF FileInForce, Saved
      <4>3. CASE Reload
        BY <4>3 DEF Reload
      <4>4. CASE ~(Undrain \/ Interrupt) /\ ~Drained /\ ~Reload
        <5>1. UNCHANGED <<file, drained>> /\ (step \in Saved => step' = step)
          BY <1>3, <2>6, <4>4 DEF RollingNext, Script, Run, AlreadyDrained, RestartService,
                RestartFailed, Settled, Complete, Pass, ComeUp, Saved, allVars
        <5> QED BY <2>3, <5>1
      <4> QED BY <4>1, <4>2, <4>3, <4>4
    <3>5. Focus(x)'
      BY <2>4, <3>2, <3>3, <3>4 DEF Focus
    <3> QED BY <3>1, <3>5
  <2> QED BY <2>5, <2>6
<1> QED BY <1>2, <1>3

(* Some backend of the route is up, in rotation and not drained at any     *)
(* moment of an update, through aborts and the runs that recover from      *)
(* them, if the script waits longer after a drain and after a restart than *)
(* the file takes to come into force, and longer after a restart than the  *)
(* checker may take to find a backend up.  A run that follows at once on   *)
(* an interruption is excused until it has waited for a backend, and one   *)
(* that follows after that long is not (rolling_restart,                   *)
(* health_check_loop).                                                     *)
THEOREM UpdateServes ==
    ASSUME WaitsEnough, 1 \in DOMAIN Routes, \E a, b \in Range(Routes[1]) : a # b
    PROVE  RollingSpec => []ZeroDowntime
<1>1. RollingInit => ServeInv
  <2> SUFFICES ASSUME RollingInit PROVE ServeInv
    OBVIOUS
  <2>1. TypeOK /\ RollingInv /\ TurnInv
    BY TypeInit, RollingStarts, TurnStarts DEF RollingInit
  <2>2. /\ pc = "sleep" /\ alive = [b \in Backend |-> "up"] /\ healthy = [b \in Backend |-> TRUE]
        /\ listed = Backend /\ file = {} /\ drained = {}
    BY DEF RollingInit, Init
  <2>3. \A b \in Backend : Good(b) /\ Skipped(b) /\ Returning(b)
    BY <2>2 DEF Good, Skipped, Returning, Switched, Recovers, InFlight
  <2>4. PICK x \in Range(Routes[1]) : Turn(x)
    BY <2>1 DEF TurnInv
  <2>5. x \in Backend
    BY <2>4 DEF Backend
  <2>6. Focus(x)
    BY <2>2, <2>3, <2>5 DEF Focus
  <2> QED BY <2>1, <2>2, <2>3, <2>4, <2>6 DEF ServeInv
<1>2. ServeInv /\ [RollingNext]_allVars => ServeInv'
  <2> SUFFICES ASSUME ServeInv, [RollingNext]_allVars PROVE ServeInv'
    OBVIOUS
  <2>1. /\ TypeOK' /\ RollingInv' /\ TurnInv' /\ listed' = Backend
        /\ \A b \in Backend : Skipped(b)'
    BY ServeParts
  <2>2. \A b \in Backend \ file' : Returning(b)'
    BY ReturningStep
  <2>3. hasty' \/ \E x \in Range(Routes[1]) : Turn(x)' /\ Focus(x)'
    BY FocusStep
  <2> QED BY <2>1, <2>2, <2>3 DEF ServeInv
<1>3. ServeInv => ZeroDowntime
  <2> SUFFICES ASSUME ServeInv, ~hasty PROVE ZeroDowntime
    BY DEF ZeroDowntime
  <2>1. PICK x \in Range(Routes[1]) : Focus(x)
    BY DEF ServeInv
  <2>2. PICK b \in Range(Routes[1]) : b # x
    OBVIOUS
  <2>3. b \in Backend
    BY DEF Backend
  <2>4. Good(b) /\ b \notin drained
    BY <2>1, <2>2, <2>3 DEF Focus
  <2> QED BY <2>3, <2>4 DEF Good, ZeroDowntime
<1> QED BY <1>1, <1>2, <1>3, PTL DEF RollingSpec
=============================================================================
