# tinylb: models and proofs

TLA+ models of tinylb, the load balancer in `src/`, with the TLC
configurations that check them and TLAPS proofs of what matters most. Paths
such as `backends.rs:164` are relative to `src/src/`.

## The system

tinylb is one process on a multi-threaded tokio runtime. Everything its tasks
share is in a registry of routes.

| Part | State it keeps | Operations | What makes it correct |
|---|---|---|---|
| Registry of routes (`backends.rs`) | `groups`: a list of `Arc<BackendGroup>` under a lock | `find_group`, `apply_config` | the table is the configuration in force; requests that run across a reload are not disturbed |
| Route, or group (`backends.rs`) | the list of `Arc<Backend>` under a lock of its own | `select_backend`, `apply_backends` | least connections among backends that may be used; a reload keeps the objects of backends that stay |
| Host pattern (`backends.rs:68`) | none | `HostMatch::parse`, the match in `find_group` | a request goes to the route the documentation names |
| Backend (`backends.rs`) | atomics: limit, drain, healthy, `active_connections`, `error_count`; time of the last check; two throttles | `ConnectionGuard`, the stores of reload and health checker | the counter is the number of live guards, on every path |
| HTTP forwarding (`http_proxy.rs`) | the guard, moved into the response body | `proxy_http`, `GuardedBody` | a stream counts as long as it lives, an error not longer |
| WebSocket session (`proxy.rs`) | the guard, two frame pumps under `select!` | `proxy_websocket` | the same; frames in order, neither side blocks the other, an end of one side ends both |
| Health checker (`backends.rs:476`) | the sweep: cloned lists, one probe at a time | `health_check_loop` | a flag lags behind its backend by a bounded time |
| Reload loop (`main.rs:585-666`) | `last_modified`, the signal listener | poll of the file's time, SIGHUP, reload | a saved file comes into force |
| TLS certificates (`tls.rs`) | the pair in an `ArcSwap` | `try_reload_certs` | the pair served is the one on disk |
| Error throttle (`throttle.rs`) | three atomics per throttle, a global window | `on_error`, `on_success` | no error lost or told twice, one line per window |
| Log file (`logfile.rs`) | file handle and size under a mutex | `write_line`, `rotate` | bounded disk use; only the oldest lines are given up |
| Statistics (`stats.rs`) | samples per URL | `sample_loop`, `record`, `to_json` | every error is in one sample; no backend is left out |
| Rolling update scripts (`examples/rolling-update`) | the configuration file, a plan | drain, restart, wait, take back | one backend always serves |

How they meet: every request calls `find_group` (read lock on the table), then
`select_backend` (read lock on the group), then creates a guard without any
lock. The health checker and the sampler clone the lists and work on the
clones. The reload loop reads the files and calls `apply_config`, which holds
the write lock on the table for its whole loop over the routes and the write
lock of one group at a time. Locks are never held across an `await`. The
scripts touch the balancer through its configuration file and a signal only.

What is hard about it: the gap between the selection and the guard (an `await`
without a bound for a WebSocket); atomics that are loaded one after the other
while others store them; objects that live on after the table has dropped
them; a file, its time and two certificate files that change between the reads
of one reload; signals that find no listener; probes that are stale when their
result is stored; a rotation that fails or ends between two renames; two pumps
of which one is cancelled; a script that waits by its own clock.
`PROJECT.json` lists each hazard at its line.

## The modules

| Module | Subject |
|---|---|
| `HostMatch` | parsing and matching of hosts, and the documented meaning |
| `Balancer` | registry, selection, guards, `apply_config` / `apply_backends`; extends `HostMatch` |
| `Admission` | what the balancer promises, abstractly; `Balancer` implements it |
| `BalancerHistory` | `Balancer` with history variables, for promises about whole scans and whole reloads |
| `BalancerProofs` | theorems about `Balancer`; that it implements `Admission` |
| `RegistryProofs` | theorems about the table, the hosts, whole scans and whole reloads (`Balancer`, `BalancerHistory`) |
| `BalancerConfigs`, `MCBalancer`, `MCHistory` | route lists, and the instances for TLC |
| `ConfigReload`, `ConfigReloadProofs`, `MCConfigReload` | start of the program, reload loop, SIGHUP, certificates |
| `HealthCheck` | health checker in discrete time |
| `HealthTimes`, `MCHealthCheck` | `HealthCheck` with a stopwatch |
| `RollingUpdate`, `MCRollingUpdate` | the scripts on top of `HealthCheck` |
| `HealthProofs` | theorems about `HealthCheck`, `HealthTimes` and `RollingUpdate` |
| `ErrorThrottle`, `ErrorThrottleProofs` | the throttle and its theorems |
| `LogRotation`, `LogRotationProofs` | the rotating log file |
| `Stats`, `StatsProofs`, `MCStats` | the sampler, and its theorems |
| `WsSession`, `WsSessionProofs` | the two pumps of a WebSocket session |

### HostMatch

A name is the sequence of its labels, so that the leading `*.` and the dots
that decide (`a.x` is below `x`, `ax` is not) are there, and the letters are
not; `LowerCase` folds a label, and a header carries what follows its first
colon. `MatchesExact` and `MatchesWildcard` are the code's comparisons,
`Covers`, `Beats` and `Best` the documentation's words. Byte lengths of
suffixes become numbers of labels, which for suffixes of one name have the
same order.

### Balancer and Admission

A request is a process: `FindGroup`, `SelectBegin`, then for each backend
`SelectFlags` (drain and health) and `SelectCount` (the counter, loaded later
than the flags), `SelectEnd`, `ConnectionGuardNew`, and the ways a connection
ends: `UpgradeFail`, `DialOk`, `DialFail`, `Finish`, `Disconnect`. The states
of `pc` are the points between two accesses to shared state. `"picked"` and
`"upgrade"` hold an `Arc<Backend>` that is not counted yet; `Counted` are the
states in which a guard is alive.

A reload is `ReloadStart` (the validation and the write lock on the table),
one `ApplyRoute` per route, `ReloadFinish`. `route = 0` means that lock is
free: `FindGroup` waits for it, requests that already hold a group do not.
`WriteLockFree` is the group's own lock. Objects are identities: a group or a
backend nobody refers to any more is free, and a new allocation may take its
identity. An allocation when all are in use waits; the size of the pools `Gid`
and `Bid` is therefore a bound, and named as one below. `HealthStore` stores
any value at any time; what the checker really does is in `HealthCheck`.

`Admission` knows requests, backends and which backends are closed, and
nothing of routes, scans, locks or objects. The refinement mapping: a request
is with a backend from the end of its scan to the end of its guard; a backend
is closed when its drain flag is set; a step of a reload is a change of the
closed set, or nothing. That a request is never admitted to a closed backend
is what the locks of the scan buy.

### ConfigReload

`BootLoad`, `ReadCert`, `ReadKey`, `Start` are the start of the program;
`Arm`, `Poll`, `Sighup` the `select!` of the loop; `ReadConfig`, `OpenFails`,
`ReadCert`, `ReadKey`, `CertFails` one reload, with a step for each file that
is read. Around it an operator saves the file (in place, in two writes, or by
replacing it), renews certificates and sends signals. mtime is the value of a
clock that may stand still between two saves. tokio's signal driver
(`Broadcast`) is modelled from its use: it tells the listeners that exist at
that moment, and SIGHUP kills a process that has not yet called `signal`.
File times that are set back by hand are not modelled. A file with a
certificate and no key, or the reverse (`HalfTls`), ends the start
(main.rs:154) and is taken by a reload without a look at certificates. A
`signal` that fails leaves one turn of the `select!` without a listener, which
is `Arm` not taken before the tick.

### HealthCheck and RollingUpdate

Time is discrete and kept as ages. The task itself takes no time except in its
sleep and in its probes, so that bounds on delays can be stated as invariants.
A place is a route and a position in its list; a backend, an object of the
registry, has one of them. The list cloned for a group is a function from the
positions still to come to what is there, and the loop takes the least one.
A probe may answer with what the backend was at any moment since it was sent;
a backend that is hung throughout runs into the timeout. A backend that leaves
the list in the middle of a sweep leaves `Gone` at its position: it takes the
time of a probe, and its result reaches nobody. `HealthTimes` watches one
backend, any of them, with a stopwatch. Not in the model is the clone of the
table at the start of a sweep (backends.rs:489): a route that is dropped or
added during a sweep counts here from when the sweep comes to it, in the code
from the next sweep. The bounds cover both, as they count a probe for every
place in either sweep, and a whole sweep before the next.

`RollingUpdate` takes the actions of `HealthCheck` as they are and adds
`rolling_restart`: `Drain` and `Undrain` save the file, the balancer takes it
over within `Lag` (`Reload`), and the script waits by its own clock. The order
of a restart (`RestartOrder`) is a reordering of the positions of the route,
the drained backends first. A service
may come up late or never (`RestartFailed`), a command may fail and the
operator may interrupt anywhere (`Interrupt`). A new run may follow at once,
after a service that did not come up and after an interruption alike (`Run`):
the script looks at the file, waits for nothing, and sees no state of the
balancer. The history variable `hasty` remembers a run that followed on an
interruption sooner than the script itself would have waited after a save
(`Patient`), until that run has waited for a backend, or a patient one has
followed; no action reads it. Backends go down by being restarted only: a
second failure at the same time is not the script's.

### LogRotation

One action for each call of the file system: `RemoveOldest`, `Rename`,
`Reopen`, `OpenMissing`, `Write`. Each may fail (`Faults`), a write with a part
of the line on disk, an open with the length unknown. `Crash` ends the process
between any two, and `Start` is `RotatingFile::new` on the files that are
there. Lines are written under one lock, so there is a single writer. A file is
the sequence of the pieces appended to it. When `new` itself fails the program
logs to stdout, and the file is out of the picture.

### Stats

`Tick`, `NextGroup`, `Swap`, `Record`, `EndSweep` are `sample_loop`; the table
and each list are cloned when it comes to them. `Apply`, `AddRoute` and
`RemoveRoute` are the effects of a reload on the objects, one route at a time.
A backend that has left the table lives on while a request or the loop holds
it (`retired`), may still count errors, and takes them with it (`Drop`). The
identity of a dropped backend is free for a new one.

### WsSession

Sockets are queues with room for `Room` frames. A pump takes a frame
(`NextFrame`), then waits for room at the other side (`Send`); the first pump
to end (`NextFails`, `SendFails`, `SinkClose`) drops the other with the frame
it has in hand. A peer may close, leave, and stop reading for good.

### ErrorThrottle

One action per atomic access. The code uses relaxed ordering; each property
rests on read-modify-writes of one location (`suppressed`, `in_error`,
`last_log_ms`), for which relaxed ordering adds no outcome.

## What the runs check

| Run | Question | Bounds |
|---|---|---|
| `HistoryScan` | Are counters exact, scans stable and honest, drained backends closed, is the cap exceeded by races only, is `Admission` implemented, and does every reload and every drain end? | 2 requests, 2 backends with limits 2 and 1, reloads between two files |
| `HistoryReload` | Does the table become the file, with the objects that stay, and do requests go where the documentation says, while a request is anywhere? | 1 request, 5 headers, 3 files (one refused), 4 groups and 4 backends |
| `ReloadFile` | Is a stale configuration always explained, the pair served the one on disk, and a saved file in force in the end? | 3 saves of 6 contents, mtimes 1 to 3, 1 signal, 1 renewal, 1 failed read |
| `HealthTimes` | How long does a health flag lag behind? | 2 routes of 1 backend, times 3, 1 and 5 (interval, timeout, cooldown) |
| `RollingUpdate` | Is one backend out at a time, and does one always serve, during updates, aborts and reruns? | 2 backends, times below |
| `ErrorThrottle` | Are errors conserved, recoveries and lines not multiplied? | 3 threads, 3 errors, clock to 4, windows 0 and 2 |
| `LogRotation` | What do failures and crashes cost? | 7 lines of 1 or 2 bytes, files of 3, `max_files` 0 and 3, 2 failures, 1 crash |
| `Stats` | Is every error and every backend sampled, once a sweep and route? | 2 routes, 2 backend objects of one URL, 2 errors, 3 sweeps, rings of 2 |
| `WsSession` | Are frames in order, does no side block the other, does a session end? | 3 frames and a close per direction, room for 2 |
| `BalancerHardCap` | README:111, "Hard cap" | violated |
| `ReloadHangup` | README:127, SIGHUP reloads | violated |
| `RollingDowntime` | rolling-update/README:3, "zero-downtime", with the shipped times | violated |

Why these bounds are enough. Two requests are needed to race for a place, to
exceed a limit, or to load a counter that the other changes; a third adds only
more of the same comparisons. Two backends are needed for a choice, and for a
scan to pass one and come back to compare. In `HistoryReload` one request is
enough, because what a reload could break it would break for a single reader,
while four identities leave room for an old object in use beside a new one of
the same URL; its headers are an apex with a port, a name in lower and in upper
case one label below it, another beside it, and a name two labels below; its
routes are a wildcard, a wildcard below that, and an exact route. The limits 2
and 1 make a backend with connections still eligible. In `ReloadFile` a stale
file needs a save at each of the places between two reads, and three saves
cover each pair of places. The times of `HealthTimes` have the proportions of
`lb.toml` (10, 3, 15); the bounds also held for three backends on two routes
(13 million states) and for a timeout of 2 units, outside the regular runs.
Three threads allow a winner, a loser and a recovery at once. `RollingUpdate`
counts in units of 5 seconds: interval 10 s, timeout 3 s taken as one unit,
cooldown 15 s, drain wait 15 s, and a reload within 10 s, the period of the
poll. `RollingDowntime` adds the 10 s the script waits after an undrain,
`RollingUpdate` 50 s, which is `RecoverBound + Lag`; the least wait that passes
is 40 s, which is `RecoverBound`, and 35 s fail. Two backends are the worst
case, one being out; with three and a wait one unit longer all three invariants
held too. `LogRotation` needs three backups for a rename between two others,
and seven lines to fill them; two failures meet in one rotation or in two,
before and after the crash. In `Stats` two objects of one URL are a backend
that was listed again; a sweep that reloads disturb has one before and one
after it.

### What holds

- `CountExact`: a counter is the number of live guards, through every end of a
  request, also for objects that are out of the table.
- `ScanIsStable`: a scan never sees its list change: its index stays in range,
  and its choice stays listed.
- `ScanSkipsShunned`, `ScanIsLeastLoaded`: a backend drained or unhealthy
  during the whole scan is not chosen; one that was eligible during the whole
  scan is not passed over for a fuller one, nor by a 503.
- `CapHoldsUnlessRaced`: without another guard, or a lowered limit, between
  the load of the counter and the guard, the limit holds.
- `DrainClosesDoor`: from the reload that drains a backend on, no request
  comes to refer to it. This is stronger than the counter, which still may rise
  by requests that chose it before.
- `ImplementsAdmission`: a request is admitted to an open backend, stays with
  it, and is counted there from its connection to its end.
- `TableMatchesConfig`, `ReloadKeepsBackends`: after a reload the table is the
  file, with the objects (counters, health) of all backends both files list.
- `RoutesAsDocumented`: a header goes to a route that covers it and that no
  other route of the table beats, and is a 404 only when none covers it.
- `ReloadCompletes`: a reload waits for scans only. `DrainCompletes`: a
  backend that stays drained runs empty, if peers answer and finish.
- `NoSilentStale`: when no poll will look again and the file is not what is in
  force, then the last read failed, or the last save left the mtime as it was,
  or the file was saved during the start. `SaveIsLoaded`: but for these, a file
  that stays is in force in the end, with no signal at all.
  `ServesFilesOfReload`: the pair served is that of the files, unless a renewal
  or a failed read came after the last reload began to read them.
- `RecoversInTime`: a backend that stays up is used again after at most
  cooldown + interval + (N + 1) timeouts, N the number of backends.
  `FailsInTime`: one that stays down is out after at most interval + 2 N
  timeouts. A unit less is reachable for the first, and for the second the
  bound itself is.
- `OneAtATime`: at most one backend is drained in the file or down, however
  often the script is interrupted and however soon it is run again.
- `ZeroDowntime`, `RestartsDrained`: one backend is up, healthy and not
  drained at any moment of an update, its aborts and its recovery; and none is
  restarted while the balancer still sends to it. Both excuse a hasty run (see
  below), and hold again when it has waited for a backend.
- `LinesInOrder`, `OldestLostFirst`, `Bounded`, `BackupsKept`: no failure and
  no crash duplicates or reorders lines; only the oldest are given up, unless a
  rename fails; a file outgrows its limit by at most its limit for each
  failure; and the promised number of backups is there but for failures.
- `ErrorsConserved`, `LostWithBackendOnly`, `SweepIsComplete`,
  `SamplesPerRoute`, `RingIsRecent`: every error is in one sample, in the
  counter, in the loop's hand, or went with a backend that a reload took off a
  list; each backend listed through a sweep is sampled in it, once per route.
- `InOrder`, `Forwards`, `SessionEnds`: a side gets a prefix of what the other
  sent; a direction whose reader reads makes progress though the other reader
  has stopped; and a session one peer leaves ends if the other reads or leaves.
- `Conserved`, `RecoveryOnce`, `LogSpacing`: see the throttle above.

### What does not hold

Three statements of the documentation are contradicted by the code with a run
that shows it, and a finding in `PROJECT.json`: the hard cap is exceeded by
requests that select at the same time; a SIGHUP is lost when a tick overtakes
it or a reload is running (and with it the reload of a renewed certificate,
which no poll replaces); and with the shipped times a rolling update leaves
moments without a backend in rotation, because a backend that a probe met
during its restart waits for the cooldown while the script waits 10 s.

A fourth is excused in the properties (`hasty`) rather than shown by a run: a
script that was interrupted and is run again at once. `build_restart_order`
says of the backends it finds drained that "they're already not receiving
traffic" (rolling_update_lib.py:119), and the script's README (lines 14-16)
lets one just re-run. If the interruption came after the save of the drain and
before the reload, the new run restarts the backend while the balancer sends to
it; if it came in the wait after an undrain, the new run drains the next
backend while the last is out of rotation. Without `hasty \/`,
`RestartsDrained` fails in the 7th state of `RollingUpdate` and `ZeroDowntime`
in the 51st. What then still holds is `OneAtATime`.

Smaller ones, each a consequence of what the models show: a drained and idle
backend may still get a connection that was chosen before (README:112;
`DrainClosesDoor` is what holds); a save during the start is never loaded
(README:130; the cause `early` of `NoSilentStale`); a reload in the middle of a
renewal serves a mixed pair (README:167; the condition `renewed` of
`ServesFilesOfReload`); a backend that is up again may wait longer than the
interval (README:151; `RecoverBound`); changed certificate paths are taken
from the new file at once, where README:142 asks for a restart; and a URL that
two routes list gets two samples a sweep (`SamplesPerRoute`), so that its ring
of 1440 covers 12 hours, not 24 (README:17, stats.rs:11).

### Fairness

`HistoryScan` assumes for its two temporal properties that the program's own
steps are taken (`SchedulerFairness`: tokio schedules every task, and no lock
is held across an `await`). `DrainCompletes` assumes in its statement that
peers finish upgrades, answer dials and end their streams (`PeerFairness`),
because the code has no timeout on any of them; `ReloadCompletes` does not. It
is not assumed that anyone reloads, disconnects or checks health. `ReloadFile`
and `ReloadHangup` assume that the loop's task runs, that its interval ticks,
and that the signal driver runs; nothing about the operator. `WsSession`
assumes that a task whose socket is ready is polled; that the other side reads
is a premise of its two temporal properties. The other runs need no fairness.

## What is proved

Proved by TLAPS for every value of the constants (any number of requests,
threads, backends, routes, files, frames and failures), from the assumptions
the modules name: requests are finitely many, the placeholders `NoGroup` and
`NoBackend` are no identities, configurations are well formed, a backend has
one URL for good, the windows of the throttle are 0 or at least `MinWindow`,
the marks of a WebSocket stream are no frames, a backend has one place in the
configuration, a timeout is not 0, the lengths of lines are finitely many. TLC
has checked each inductive invariant on the instance of the component's run.
Where a theorem has a hypothesis of its own, it is named below.

| Property | Theorem | Module |
|---|---|---|
| `TypeOK`, `CountExact`, `ScanIsStable`, `DrainClosesDoor` | `TypeCorrect`, `CountersExact`, `ScansStable`, `DrainTheorem` | `BalancerProofs` |
| `ImplementsAdmission` | `Refinement` | `BalancerProofs` |
| `RoutesAsDocumented`, `TableMatchesConfig`, `ReloadKeepsBackends` | `Routing`, `TableIsConfig`, `ReloadKeeps` | `RegistryProofs` |
| `ScanSkipsShunned`, `ScanIsLeastLoaded`, `CapHoldsUnlessRaced` | `SkipsShunned`, `LeastLoaded`, `CapRacedOnly` | `RegistryProofs` |
| `TypeOK`, `NoSilentStale`, `ServesFilesOfReload` | `FilesTyped`, `StaleExplained`, `PairIsOfReload` | `ConfigReloadProofs` |
| `ErrorsConserved`, `SweepIsComplete`, `LostWithBackendOnly` | `NoErrorLost`, `SweepsComplete`, `ErrorsStay` | `StatsProofs` |
| `SamplesPerRoute`, `RingIsRecent` | `OneSamplePerRoute`, `RingKeepsLatest` | `StatsProofs` |
| `Conserved`, `RecoveryOnce`, `LogSpacing` | `ErrorsConserved`, `RecoveriesFollow`, `LinesSpaced` | `ErrorThrottleProofs` |
| `LinesInOrder`, `OldestLostFirst` | `LinesStayOrdered`, `OnlyOldestLost` | `LogRotationProofs` |
| `Bounded`, `BackupsKept` | `SizesBounded`, `BackupsStay` | `LogRotationProofs` |
| `InOrder` | `FramesInOrder` | `WsSessionProofs` |
| `TypeOK`, `FailsInTime`, `RecoversInTime` | `HealthTyped`, `DownIsSeen`, `UpIsSeen` | `HealthProofs` |
| `OneAtATime` | `OneBackendOut` | `HealthProofs` |
| `RestartsDrained`, `ZeroDowntime` | `NoneDownInRotation`, `UpdateServes` | `HealthProofs` |

### The balancer

The inductive invariant `IInv` is `TypeOK`, `RequestShape`, `GroupsDisjoint`,
`ScanIsStable`, `CountExact`.

- `ScanIsStable` is not inductive alone: the reload of one group could change
  the flags of a backend that a scan of another group has chosen. This needs
  `GroupsDisjoint`: two live groups never share a backend, because a group
  takes backends from its own list or fresh ones only. And it needs
  `RequestShape`, which says what a request holds at which point.
- `CountExact` needs that a fresh backend has no holders: fresh identities are
  outside `LiveBackends`, which includes what requests hold.
- `DrainTheorem` is an action property: the step that adds a user of a backend
  is `SelectCount`, and the invariant says the backend it looks at is not
  drained, because no reload of that group can run during the scan.
- `Refinement`: the initial state maps to an initial state; under `IInv` each
  step maps to one of `Admission` or to none. `SelectEnd` is `Admit`, and needs
  `ScanIsStable` for the backend to be open; `ApplyRoute` is `Configure`, and
  needs `CountExact` for the counters it resets to have been 0 already.

### The registry

- `Routing` needs no invariant but types: it is about `Lookup` and its
  documented meaning. `CoversIsMatch` shows that the code's comparison of
  suffixes is the documented covering, for names of any depth; `LongestExists`
  and `WildcardLength`, that the longest suffix is the most specific route.
- `TableIsConfig` rests on `TableInv`: in the middle of `apply_config`, what is
  built so far shows the first routes of the file. `RouteApplied` says what one
  turn of the loop does to the group it puts in place, and that the groups
  built before are left alone.
- `HistoryInvariance`: `ScanSeen` relates what a scan holds to what it has
  passed. No backend that was drained or unhealthy throughout is the best one
  or the one at hand, and the best is not fuller than any backend passed whose
  every state during the scan was eligible. `HasRoom` says that a choice keeps
  room until somebody races it. `ScanMoves` and `ChoiceMoves` name the few
  steps that matter to a scan.
- `ReloadKeeps` has the hypothesis `DistinctFiles`: a file lists no host twice,
  and in one route no URL twice, as documented. Without it the code does
  otherwise: two routes of one host share a group. Its invariant `KeepInv`
  says, for the routes done and those to come, which object a host and URL had
  when the reload began.

### The reload loop

`FilesInv` adds to the two properties: where the program can be before and
after the loop has begun (`Phase`); that no remembered time is ahead of the
clock, and that a save in a unit of the clock which has a remembered save is a
blurred one (`Stamps`); and what the certificate in hand is before the key is
read (`PairOnDisk`). `Stamps` is the heart: a stale file with the remembered
time must have been saved within the same unit.

### The sampler

`StatsInvariance` says that the lists of the table and of the loop share no
backend (else a reload could move one from before the loop to behind it), that
what is unseen is in the clone at hand or in a list still to come, and that a
retired backend's URL has been unlisted. The three reloads share one lemma,
`InstalledKeeps`. `SampleInvariance` adds `Charged`, a count: the routes that
have listed a URL and are not to come any more number at least the samples it
has, the one in hand, and the one it may get from the clone at hand.
`ErrorInv` says that the sums of `ErrorsConserved` are finite. A sum is the
number of its units, pairs of an entry and a number up to its value, so that
`SumOfMore` and `SumOfChange` (one entry more, one entry changed) follow from
the theorems about cardinalities, without an induction over the entries.

### The throttle

The invariant adds `CasReady`: a thread that is about to compare and exchange
has found `last = 0`, or its own time a window later than `last`; with the
success of the exchange (`last_log_ms = last`) this gives the spacing. The
count of calls under way is a cardinality, and `InFlightStep` says how a step
of one thread changes it.

### The log file

`LogInvariance`: besides the properties, what is stored is older than the line
at hand (`Before`), so that appending keeps the order; a rename finds its target
free, unless it is the oldest backup or a rename has failed
(`OverwritesOldest`), so that nothing but the oldest goes (`OldestGoes`); and
which backups should be there in the middle of a rotation (`Required`), of
which no more are missing than calls have failed and crashes been. A rename
that finds no file moves the gap up by one and adds none (`OneMoreMissing`).

`SizeInv` is about `size`, which the code sets to 0 when it cannot tell and
does not raise for half a line. While the file is open, `size` is short of its
length by no more than the failures allow (`SizeKnown`). Where no length was
checked, after a rotation that could not move the file, or when it is opened
late by `write_line`, a call has failed since, and the file is within what the
failures allowed before it (`Rotated`); so what is about to be appended still
fits (`HasSpace`). The length of a file is the number of its bytes, and an
append adds those of the line (`BytesOf`).

### The WebSocket session

`SessionInvariance`: while the session runs, what one side sent is what the
other has received, what is on its way there, what the pump has in hand, and
what is on its way to the pump, in this order (`Whole`). What is dropped when
the pumps end is the tail of it, and what remains a prefix (`Cut`).

### The health checker

How long a flag may lag is a sum: what the stopwatch reads now, and what the
sweep still takes until it stores the result that ends the lag. `Remaining` is
the set of places the sweep is at or comes to yet, and the time it takes at
the most is their number times the timeout (`Work`), so that the sums are
cardinalities. `TimerCovered`: the age of a probe is inside that work.

- `FailInv` has three parts. `Skipped`: a backend out of rotation that the
  sweep will not take up has been passed already, and it is probed only after
  its cooldown. `Switched`: a probe that met a backend both up and down met it
  changing, so the stopwatch is no older than the probe. `Fails`: the sum, in
  the sleep, while the sweep comes to the backend (`Due`), and when it has
  passed it or its probe may still answer well and another sweep is needed.
- `RecoverInv` has `Recovers` in the place of `Fails`: the sum for a backend
  that is up and out of rotation, which adds the cooldown that is left. Only a
  store on a backend that is out of rotation starts its cooldown anew, and
  `Skipped` says that no such store comes early.
- `UpIsSeen` has the hypothesis `Cooldown > 0`. Without a cooldown the bound
  itself is reached: TLC finds a backend that is out of rotation at
  `RecoverBound`.
- The lemmas speak of any reading that runs no faster than the time and starts
  anew when the backend changes (`Lapse`), so that they serve the stopwatch of
  `HealthTimes` and the clock of the script alike.

### The update scripts

`OneBackendOut` needs a route with a backend and nothing about the times. Its
invariant `TurnInv`: only what is drained in the file is down, and the file
drains at most one backend, which is the one the run works on, or that the next
run takes up first (`Turn`, `OrderOf`). An abort or an interruption leaves it
there, and no rerun, however soon, changes that.

`NoneDownInRotation` adds the hypothesis `Lag < DrainTimeout`: the script waits
longer after a drain than a saved file takes to come into force. The shipped
times satisfy it (15 s, and a poll every 10 s); with equal times TLC finds a
restart in rotation. The invariant `RollingInv`: while the script waits, and
after an interruption, the file differs from the balancer for at least as long
as that has lasted; anywhere else in a run that is not hasty, what the file
drains is drained. This is why a recovery run may skip the wait for a backend
that is drained in the file, and why one that follows at once on an
interruption may not: the theorem, like the property, excuses it until it has
waited for a backend (`Settled`), when nothing is drained or down.

`UpdateServes` needs two backends and `WaitsEnough`: `Lag < DrainTimeout`,
`Lag < Settle`, `Cooldown > 0`, and `RecoverBound <= Settle`: the script waits
after a restart as long as the checker may take to find a backend up. The run
`RollingUpdate` satisfies all of it; the shipped `Settle` of 10 s is neither
longer than the period of the poll nor than the bound of 40 s, and the run
`RollingDowntime`, in which nobody interrupts the script (`Uninterrupted`),
shows the moment without a backend. With a `Settle` one unit below the bound
TLC finds one too, so the hypothesis is as weak as it can be. The invariant
`ServeInv` has a part that holds of every run: each backend that the file lists
as active is up, and `Recovers` with the script's clock for a stopwatch says
that it is in rotation when the clock has reached the bound (`Returning`,
`Returned`). And a part for a run that is not hasty: of all backends at most
one, x, is drained or on its way back (`Focus`); the others are up, in
rotation, and stay so, since every probe under way has seen them up only
(`Good`). A hasty run loses the second part and gets it back from the first one
after the wait for a backend, and so does a patient rerun (`WaitedEnough`).

### Model-checked only

- Everything temporal under fairness (`ReloadCompletes`, `DrainCompletes`,
  `SaveIsLoaded`, `Forwards`, `SessionEnds`), which TLAPS does not support.

## Not modelled

- Header rewriting, SHA-1 and base64 of the handshake, TOML parsing, JSON and
  HTML: functions of one input without shared state.
- Accept loops and the TLS handshake: a loop that spawns and pauses after a
  failure, and a library. Descriptors, which are what it can run out of, belong
  to the kernel.
- `simple.py`, the second script: the same order of steps, with a wait for a
  queue of the application, which is not in this repository.
- Panics and the poisoning of locks.
- IPv6 literals as headers, two routes with one host, and a URL twice in one
  route: outside the documented format. The theorems about counters, scans and
  drains hold for such files too.

## Plan

Every invariant and action property of the passing runs has a theorem; the
temporal ones stay with TLC. What is left:

- theorems about `Admission` by itself, which through the refinement hold of
  `Balancer`: what an open backend has admitted, and that its count goes to 0
  when it is closed and its requests leave;
- the accept loops and the forwarding of a request (`main.rs`,
  `http_proxy.rs`), of which only the guard is modelled so far.
