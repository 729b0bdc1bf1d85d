------------------------------ MODULE HealthCheck ------------------------------
(***************************************************************************)
(* health_check_loop (src/src/backends.rs) in discrete time: one task that *)
(* sleeps, then probes the backends of every group one after the other,    *)
(* while backends go up and down and reloads change the lists.  Time is    *)
(* kept as ages, so that no clock has to be bounded; the task itself takes *)
(* no time but in its sleep and in its probes.                             *)
(***************************************************************************)
EXTENDS Integers, FiniteSets, Sequences, SequencesExt

CONSTANTS
    Routes,         \* the groups: for each the sequence of backends it may list
    Gone,           \* a backend that left the list after it was cloned
    Interval, Timeout, Cooldown     \* [health], in units of time

Backend == UNION {Range(Routes[n]) : n \in DOMAIN Routes}

\* A place is the number of a route and a position in its list; a backend, an
\* object of the registry, has one of them.
Place == UNION {{n} \X DOMAIN Routes[n] : n \in DOMAIN Routes}

ASSUME RoutesAssumption == /\ Routes \in Seq(Seq(Backend)) /\ Gone \notin Backend
                           /\ \A p, q \in Place :
                                Routes[p[1]][p[2]] = Routes[q[1]][q[2]] => p = q
ASSUME TimesAssumption == Interval \in Nat /\ Timeout \in Nat \ {0} /\ Cooldown \in Nat

VARIABLES
    listed,             \* the backends the table lists, each in its group
    healthy,
    last_health_check,  \* how long ago it was, Cooldown standing for all longer times
    pc, group,          \* the loop: its place, the group
    backends,           \* the rest of the cloned list: position -> backend
    timer,                  \* age of the sleep or of the probe
    alive,              \* environment: "up", "failing" (answers badly), "hung" (does not)
    seen                \* what the backend was since the probe was sent

loopVars == <<pc, group, backends, timer>>
vars == <<listed, healthy, last_health_check, loopVars, alive, seen>>

State == {"up", "failing", "hung"}
At == Min(DOMAIN backends)
Probed == backends[At]
Rest == Restrict(backends, DOMAIN backends \ {At})

\* How long a probe of each backend, a sleep and another of each may take, and
\* a probe that is too early, the cooldown, a sleep and a probe of each.
Count == Cardinality(Place)
FailBound == Interval + 2 * Count * Timeout
RecoverBound == Cooldown + Interval + (Count + 1) * Timeout

-----------------------------------------------------------------------------
(* A sweep.                                                                *)
WakeUp ==
    /\ pc = "sleep" /\ timer = Interval
    /\ pc' = "group" /\ group' = 1 /\ timer' = 0
    /\ UNCHANGED <<listed, healthy, last_health_check, backends, alive, seen>>

\* The list of a group is cloned when the sweep comes to it.  The clone of the
\* table that the sweep starts with is left out.
NextGroup ==
    /\ pc = "group" /\ group \in DOMAIN Routes
    /\ backends' = Restrict(Routes[group], {k \in DOMAIN Routes[group] : Routes[group][k] \in listed})
    /\ group' = group + 1
    /\ pc' = "backend"
    /\ UNCHANGED <<listed, healthy, last_health_check, timer, alive, seen>>

EndSweep ==
    /\ pc = "group" /\ group \notin DOMAIN Routes
    /\ pc' = "sleep" /\ timer' = 0
    /\ UNCHANGED <<listed, healthy, last_health_check, group, backends, alive, seen>>

EndGroupEarly ==                \* mutant of EndGroup
    /\ pc = "backend" /\ Cardinality(DOMAIN backends) <= 1
    /\ pc' = "group"
    /\ UNCHANGED <<listed, healthy, last_health_check, group, backends, timer, alive, seen>>
EndGroup ==
    /\ pc = "backend" /\ DOMAIN backends = {}
    /\ pc' = "group"
    /\ UNCHANGED <<listed, healthy, last_health_check, group, backends, timer, alive, seen>>

CoolingAll(b) == b # Gone /\ last_health_check[b] < Cooldown    \* mutant of Cooling
Cooling(b) == b # Gone /\ ~healthy[b] /\ last_health_check[b] < Cooldown

SkipRestarts ==                 \* mutant of Skip
    /\ pc = "backend" /\ DOMAIN backends # {} /\ Cooling(Probed)
    /\ backends' = Rest
    /\ last_health_check' = [last_health_check EXCEPT ![Probed] = 0]
    /\ UNCHANGED <<listed, healthy, pc, group, timer, alive, seen>>
Skip ==
    /\ pc = "backend" /\ DOMAIN backends # {}
    /\ Cooling(Probed)
    /\ backends' = Rest
    /\ UNCHANGED <<listed, healthy, last_health_check, pc, group, timer, alive, seen>>

Send ==
    /\ pc = "backend" /\ DOMAIN backends # {}
    /\ ~Cooling(Probed)
    /\ pc' = "probe" /\ timer' = 0
    /\ seen' = IF Probed = Gone THEN State ELSE {alive[Probed]}
    /\ UNCHANGED <<listed, healthy, last_health_check, group, backends, alive>>

\* The answer tells what the backend was at some moment since the request; a
\* backend that was always hung gives none, and the request times out.
Answer(ok) == /\ IF ok THEN "up" \in seen ELSE "failing" \in seen \/ Cardinality(seen) > 1
              /\ timer <= Timeout
TimedOut == "hung" \in seen /\ timer = Timeout

\* The time of the check first, then the flag.
Store(ok) ==
    /\ pc = "probe"
    /\ IF ok THEN Answer(TRUE) ELSE Answer(FALSE) \/ TimedOut
    /\ IF Probed = Gone THEN UNCHANGED <<healthy, last_health_check>>
       ELSE /\ last_health_check' = [last_health_check EXCEPT ![Probed] = 0]
            /\ healthy' = [healthy EXCEPT ![Probed] = ok]
    /\ backends' = Rest
    /\ pc' = "backend" /\ timer' = 0
    /\ seen' = {}
    /\ UNCHANGED <<listed, group, alive>>

-----------------------------------------------------------------------------
(* Around it: time, the backends, and reloads.                             *)
Aged(n, most) == IF n < most THEN n + 1 ELSE n

Tick ==
    /\ \/ pc = "sleep" /\ timer < Interval
       \/ pc = "probe" /\ timer < Timeout
    /\ timer' = timer + 1
    /\ last_health_check' = [b \in Backend |-> Aged(last_health_check[b], Cooldown)]
    /\ UNCHANGED <<listed, healthy, pc, group, backends, alive, seen>>

Change(b, s) ==
    /\ alive[b] # s
    /\ alive' = [alive EXCEPT ![b] = s]
    /\ seen' = IF pc = "probe" /\ Probed = b THEN seen \cup {s} ELSE seen
    /\ UNCHANGED <<listed, healthy, last_health_check, loopVars>>

\* The object of a removed backend lives on in the cloned list only.
Leave(b) ==
    /\ b \in listed
    /\ listed' = listed \ {b}
    /\ backends' = [k \in DOMAIN backends |-> IF backends[k] = b THEN Gone ELSE backends[k]]
    /\ UNCHANGED <<healthy, last_health_check, pc, group, timer, alive, seen>>

\* Backend::new: "assume healthy until first check".
Join(b) ==
    /\ b \notin listed
    /\ listed' = listed \cup {b}
    /\ healthy' = [healthy EXCEPT ![b] = TRUE]
    /\ last_health_check' = [last_health_check EXCEPT ![b] = 0]
    /\ UNCHANGED <<loopVars, alive, seen>>

-----------------------------------------------------------------------------
Init ==
    /\ listed = Backend
    /\ healthy = [b \in Backend |-> TRUE] /\ last_health_check = [b \in Backend |-> 0]
    /\ pc = "sleep" /\ group = 1 /\ backends = <<>> /\ timer = 0
    /\ alive \in [Backend -> State] /\ seen = {}

Next ==
    \/ WakeUp \/ NextGroup \/ EndSweep \/ EndGroup \/ Skip \/ Send
    \/ \E ok \in BOOLEAN : Store(ok)
    \/ Tick
    \/ \E b \in Backend : Leave(b) \/ Join(b) \/ \E s \in State : Change(b, s)

Spec == Init /\ [][Next]_vars

\* How long the loop may be at each of its places.
Lasting == [sleep |-> Interval, group |-> 0, backend |-> 0, probe |-> Timeout]

TypeOK ==
    /\ listed \subseteq Backend /\ healthy \in [Backend -> BOOLEAN]
    /\ last_health_check \in [Backend -> 0..Cooldown]
    /\ pc \in {"sleep", "group", "backend", "probe"} /\ group \in 1..(Len(Routes) + 1)
    /\ IF pc \in {"sleep", "group"} THEN DOMAIN backends = {}
       ELSE /\ group - 1 \in DOMAIN Routes /\ DOMAIN backends \subseteq DOMAIN Routes[group - 1]
            /\ \A k \in DOMAIN backends :
                 backends[k] = Gone \/ (backends[k] = Routes[group - 1][k] /\ backends[k] \in listed)
    /\ timer \in 0..Lasting[pc]
    /\ pc = "probe" => DOMAIN backends # {}
    /\ pc = "probe" <=> seen # {}
    /\ alive \in [Backend -> State] /\ seen \subseteq State
=============================================================================
