-------------------------------- MODULE Stats --------------------------------
(***************************************************************************)
(* The statistics of the dashboard (src/src/stats.rs): a loop that clones  *)
(* the table, then the list of each route, and then takes the error count  *)
(* of each backend and records it under the URL, while requests fail and   *)
(* reloads change the table.  A backend is an object of the pool Bid, with *)
(* a URL for good; one that nothing refers to any more is free again.  The *)
(* number of connections a sample also holds is left out.                  *)
(***************************************************************************)
EXTENDS Integers, Sequences, SequencesExt, FiniteSets, FiniteSetsExt

CONSTANTS
    Group, Bid,     \* the pools of routes and of backends
    Url, UrlOf,     \* the URLs, and the URL of each backend
    None,
    MaxSamples,     \* MAX_SAMPLES
    Errors, Sweeps  \* bounds on the errors and on the turns of the loop

ASSUME PoolAssumption == UrlOf \in [Bid -> Url] /\ None \notin Bid
ASSUME BoundAssumption == MaxSamples \in Nat \ {0} /\ Errors \in Nat /\ Sweeps \in Nat

VARIABLES
    groups, members,    \* the table: the routes it has, and the list of each
    retired,            \* backends off the table that a request or the loop still holds
    error_count,
    data,               \* per URL, the ring of samples [sweep, e]
    pc, todo, backends, \* sample_loop: its place and what is left of the two clones
    cur, e,             \* the backend at hand and the count taken from it
    sweep,              \* how many sweeps have begun
    recorded,           \* history: per URL, all samples ever recorded
    raised, lost,       \* history: errors per URL, in all and gone with their backend
    unseen,             \* history: backends listed ever since the sweep began, not sampled in it
    routes,             \* history: per URL, the routes that have listed it since then
    unlisted            \* history: the URLs a reload has taken off a list

table == <<groups, members>>
loop == <<pc, todo, backends, cur, e, sweep>>
history == <<recorded, raised, lost, unseen, routes, unlisted>>
vars == <<table, retired, error_count, data, loop, history>>

Listed(gs, m) == UNION {m[g] : g \in gs}
Alive == Listed(groups, members) \cup retired
\* The sum of the values of f, as the number of the units in it.
Sum(f) == Cardinality(UNION {{x} \X (1 .. f[x]) : x \in DOMAIN f})
Of(u) == {b \in Bid : UrlOf[b] = u}
Listing(gs, m, u) == {g \in gs : m[g] \cap Of(u) # {}}

-----------------------------------------------------------------------------
(* The loop.                                                               *)
Tick ==
    /\ pc = "sleep" /\ sweep < Sweeps
    /\ sweep' = sweep + 1
    /\ todo' = groups
    /\ pc' = "sweep"
    /\ unseen' = Listed(groups, members)
    /\ routes' = [u \in Url |-> Listing(groups, members, u)]
    /\ UNCHANGED <<table, retired, error_count, data, backends, cur, e, recorded, raised, lost, unlisted>>

NextGroupAgain(g) ==            \* mutant of NextGroup
    /\ pc = "sweep" /\ backends = {} /\ g \in todo
    /\ backends' = members[g]
    /\ UNCHANGED <<table, retired, error_count, data, pc, todo, cur, e, sweep, history>>
NextGroup(g) ==
    /\ pc = "sweep" /\ backends = {} /\ g \in todo
    /\ todo' = todo \ {g}
    /\ backends' = members[g]
    /\ UNCHANGED <<table, retired, error_count, data, pc, cur, e, sweep, history>>

SwapKeeps(b) ==                 \* mutant of Swap: a load
    /\ pc = "sweep" /\ b \in backends
    /\ backends' = backends \ {b}
    /\ cur' = b /\ e' = error_count[b]
    /\ pc' = "record"
    /\ unseen' = unseen \ {b}
    /\ UNCHANGED <<table, retired, error_count, data, todo, sweep, recorded, raised, lost, routes, unlisted>>
Swap(b) ==
    /\ pc = "sweep" /\ b \in backends
    /\ backends' = backends \ {b}
    /\ cur' = b /\ e' = error_count[b]
    /\ error_count' = [error_count EXCEPT ![b] = 0]
    /\ pc' = "record"
    /\ unseen' = unseen \ {b}
    /\ UNCHANGED <<table, retired, data, todo, sweep, recorded, raised, lost, routes, unlisted>>

Sample == [sweep |-> sweep, e |-> e]
Overfull(ring) == Len(ring) > MaxSamples        \* mutant of Full
Full(ring) == Len(ring) >= MaxSamples
Record ==
    /\ pc = "record"
    /\ data' = [data EXCEPT ![UrlOf[cur]] = Append(IF Full(@) THEN Tail(@) ELSE @, Sample)]
    /\ recorded' = [recorded EXCEPT ![UrlOf[cur]] = Append(@, Sample)]
    /\ cur' = None /\ e' = 0
    /\ pc' = "sweep"
    /\ UNCHANGED <<table, retired, error_count, todo, backends, sweep, raised, lost, unseen, routes, unlisted>>

EndSweepEarly ==                \* mutant of EndSweep
    /\ pc = "sweep" /\ todo = {}
    /\ pc' = "sleep" /\ backends' = {}
    /\ UNCHANGED <<table, retired, error_count, data, todo, cur, e, sweep, history>>
EndSweep ==
    /\ pc = "sweep" /\ backends = {} /\ todo = {}
    /\ pc' = "sleep"
    /\ UNCHANGED <<table, retired, error_count, data, todo, backends, cur, e, sweep, history>>

-----------------------------------------------------------------------------
(* Requests.                                                               *)

\* error_count.fetch_add of a dial or an exchange that failed, also on a
\* backend that has left the table since.
Fail(b) ==
    /\ b \in Alive /\ Sum(raised) < Errors
    /\ error_count' = [error_count EXCEPT ![b] = @ + 1]
    /\ raised' = [raised EXCEPT ![UrlOf[b]] = @ + 1]
    /\ UNCHANGED <<table, retired, data, loop, recorded, lost, unseen, routes, unlisted>>

\* The last Arc goes, and what the backend had counted with it.
Drop(b) ==
    /\ b \in retired \ (Listed(todo, members) \cup backends \cup {cur})
    /\ retired' = retired \ {b}
    /\ error_count' = [error_count EXCEPT ![b] = 0]
    /\ lost' = [lost EXCEPT ![UrlOf[b]] = @ + error_count[b]]
    /\ UNCHANGED <<table, data, loop, recorded, raised, unseen, routes, unlisted>>

-----------------------------------------------------------------------------
(* Reloads.  apply_backends keeps the backend of a URL the list has, and   *)
(* makes one for any other.                                                *)
KeepsNone(old, new) == new \cap Alive = {}      \* mutant of Keeps
Keeps(old, new) == \A b \in new \ old : b \notin Alive /\ Of(UrlOf[b]) \cap old = {}
Installed(gs, m) ==
    /\ groups' = gs /\ members' = m
    /\ unseen' = unseen \cap Listed(gs, m)
    /\ routes' = [u \in Url |-> routes[u] \cup Listing(gs, m, u)]
    /\ unlisted' = unlisted \cup {u \in Url : ~(Listing(groups, members, u) \subseteq Listing(gs, m, u))}
    /\ retired' = Alive \ Listed(gs, m)
    /\ UNCHANGED <<error_count, data, loop, recorded, raised, lost>>
OnePerUrl(new) == \A b, c \in new : UrlOf[b] = UrlOf[c] => b = c

Apply(g, new) ==
    /\ g \in groups
    /\ OnePerUrl(new) /\ Keeps(members[g], new)
    /\ Installed(groups, [members EXCEPT ![g] = new])

\* A route comes as a new object, or goes; the loop may still have it.
AddRoute(g, new) ==
    /\ g \notin groups \cup todo
    /\ OnePerUrl(new) /\ Keeps({}, new)
    /\ Installed(groups \cup {g}, [members EXCEPT ![g] = new])

RemoveRoute(g) == g \in groups /\ Installed(groups \ {g}, members)

-----------------------------------------------------------------------------
Init ==
    /\ groups = {} /\ members = [g \in Group |-> {}]
    /\ retired = {} /\ error_count = [b \in Bid |-> 0]
    /\ data = [u \in Url |-> <<>>]
    /\ pc = "sleep" /\ todo = {} /\ backends = {} /\ cur = None /\ e = 0 /\ sweep = 0
    /\ recorded = data /\ raised = [u \in Url |-> 0] /\ lost = raised
    /\ unseen = {} /\ routes = [u \in Url |-> {}] /\ unlisted = {}

Next ==
    \/ Tick \/ Record \/ EndSweep
    \/ \E g \in Group : NextGroup(g) \/ RemoveRoute(g)
    \/ \E b \in Bid : Swap(b) \/ Fail(b) \/ Drop(b)
    \/ \E g \in Group, new \in SUBSET Bid : Apply(g, new) \/ AddRoute(g, new)

Spec == Init /\ [][Next]_vars

-----------------------------------------------------------------------------
(* Properties.                                                             *)

(* Every error of a URL is in one sample, in the hand of the loop, in the  *)
(* counter of a backend, or went with the backend that counted it; a       *)
(* failure between the loop's look at a counter and its reset is not lost  *)
(* (sample_loop).                                                          *)
ErrorsConserved ==
    \A u \in Url :
        raised[u] = Sum([k \in DOMAIN recorded[u] |-> recorded[u][k].e])
                    + (IF cur \in Of(u) THEN e ELSE 0)
                    + Sum(Restrict(error_count, Of(u))) + lost[u]

(* A URL that no reload has taken off a list loses no errors: its backend  *)
(* is the same object after each reload, with what it had counted          *)
(* (apply_backends).                                                       *)
LostWithBackendOnly == \A u \in Url : lost[u] > 0 => u \in unlisted

(* A sweep samples every backend that was listed all through it, however   *)
(* reloads change the table and the lists around it (sample_loop).         *)
SweepIsComplete == pc = "sleep" => unseen = {}

(* A URL gets one sample a sweep for each route that lists it at some time *)
(* of the sweep, and no more: a point of the chart is doubled only by a    *)
(* second route (record: samples are keyed by URL).                        *)
SamplesPerRoute ==
    \A u \in Url : Cardinality({k \in DOMAIN recorded[u] : recorded[u][k].sweep = sweep})
                     <= Cardinality(routes[u])

(* The ring shows the latest samples of its URL, up to the maximum.        *)
RingIsRecent ==
    \A u \in Url : data[u] = LET n == Len(recorded[u])
                             IN SubSeq(recorded[u], Max({1, n - MaxSamples + 1}), n)
=============================================================================
