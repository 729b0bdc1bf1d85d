---------------------------- MODULE RollingUpdate ----------------------------
(***************************************************************************)
(* The rolling update of the backends of a route by                        *)
(* src/examples/rolling-update/rolling_update_lib.py, on top of the health *)
(* checker.  The script drains, restarts and takes back one backend after  *)
(* the other through the configuration file; the balancer applies the file *)
(* within Lag, by the signal or by its poll.  The script waits by its own  *)
(* clock and never looks at what the balancer has made of the file or of   *)
(* the health of a backend.  The backends fail by being restarted only.    *)
(***************************************************************************)
EXTENDS HealthCheck

CONSTANTS
    DrainTimeout,   \* --drain-timeout
    StartupTimeout, \* --startup-timeout
    Settle,         \* "Waiting 10s for LB health check"
    Lag             \* from a save of the file to the reload

ASSUME ScriptAssumption == {DrainTimeout, StartupTimeout, Settle, Lag} \subseteq Nat

VARIABLES
    file, drained,  \* the drained backends: in the file, and in the balancer
    lag,            \* how long they have differed
    step, todo,     \* the place in rolling_restart; what is left of `order`
    clock,          \* how long the script has been there
    hasty           \* history: it was interrupted and run again at once, and
                    \* has not waited for a backend since

script == <<step, todo, clock, hasty>>
balancer == <<file, drained, lag>>
allVars == <<vars, balancer, script>>

MaxClock == CHOOSE m \in {DrainTimeout, StartupTimeout, Settle} :
                \A n \in {DrainTimeout, StartupTimeout, Settle} : n <= m

Goto(place) == step' = place /\ clock' = 0
SetDrain(set) == file' = set /\ lag' = 0

-----------------------------------------------------------------------------
\* The backends of the route, those of `set` first, and otherwise in the order
\* of the file.
FirstThen(set) ==
    LET positions == DOMAIN Routes[1]
        First(i) == Routes[1][i] \in set
        order == CHOOSE p \in Bijection(positions, positions) :
                   \A i, j \in positions : i < j =>
                     IF First(p[i]) = First(p[j]) THEN p[i] < p[j] ELSE First(p[i])
    IN  [i \in positions |-> Routes[1][order[i]]]

\* build_restart_order: the drained ones first, then the others.
ActiveFirst(set) == FirstThen(Backend \ set)    \* mutant of RestartOrder
RestartOrder(set) == FirstThen(set)

\* The script is started, for the first time or again: when it gave up, and
\* after an interruption at any time, since it looks at the file and waits for
\* nothing.  What is recorded is whether it was given the longer of the times
\* that the script itself waits after a save.
Patient == clock >= DrainTimeout /\ clock >= Settle
Run ==
    /\ step \in {"idle", "failed", "stopped"}
    /\ todo' = RestartOrder(file)
    /\ hasty' = IF step = "stopped" THEN ~Patient ELSE hasty
    /\ Goto("drain")
    /\ UNCHANGED <<vars, balancer>>

Drain ==
    /\ step = "drain" /\ todo # <<>> /\ Head(todo) \notin file
    /\ SetDrain(file \cup {Head(todo)})
    /\ Goto("draining")
    /\ UNCHANGED <<vars, drained, todo, hasty>>

\* "already drained (recovering from previous failure)": no wait.
AlreadyDrained ==
    /\ step = "drain" /\ todo # <<>> /\ Head(todo) \in file
    /\ Goto("restart")
    /\ UNCHANGED <<vars, balancer, todo, hasty>>

DrainedAtOnce ==                \* mutant of Drained
    /\ step = "draining"
    /\ Goto("restart")
    /\ UNCHANGED <<vars, balancer, todo, hasty>>
Drained ==
    /\ step = "draining" /\ clock >= DrainTimeout
    /\ Goto("restart")
    /\ UNCHANGED <<vars, balancer, todo, hasty>>

RestartService ==
    /\ step = "restart"
    /\ \E s \in State \ {"up"} :
           Change(Head(todo), s) \/ (alive[Head(todo)] = s /\ UNCHANGED vars)
    /\ Goto("starting")
    /\ UNCHANGED <<balancer, todo, hasty>>

\* wait_healthy, by the healthcheck of docker.
Undrain ==
    /\ step = "starting" /\ alive[Head(todo)] = "up"
    /\ SetDrain(file \ {Head(todo)})
    /\ Goto("settling")
    /\ UNCHANGED <<vars, drained, todo, hasty>>

RestartFailed ==
    /\ step = "starting" /\ clock >= StartupTimeout
    /\ Goto("failed")
    /\ UNCHANGED <<vars, balancer, todo, hasty>>

Settled ==
    /\ step = "settling" /\ clock >= Settle
    /\ todo' = Tail(todo)
    /\ hasty' = FALSE
    /\ Goto("drain")
    /\ UNCHANGED <<vars, balancer>>

Complete ==
    /\ step = "drain" /\ todo = <<>>
    /\ Goto("idle")
    /\ UNCHANGED <<vars, balancer, todo, hasty>>

\* A command that fails raises, and the operator interrupts, anywhere.
Interrupt ==
    /\ step \notin {"idle", "failed", "stopped"}
    /\ Goto("stopped")
    /\ UNCHANGED <<vars, balancer, todo, hasty>>

-----------------------------------------------------------------------------
(* The balancer, docker, and time.                                         *)
Reload ==
    /\ file # drained
    /\ drained' = file /\ lag' = 0
    /\ UNCHANGED <<vars, file, script>>

ComeUp(b) == Change(b, "up") /\ UNCHANGED <<balancer, script>>

Pass ==
    /\ Tick
    /\ file # drained => lag < Lag
    /\ lag' = IF file # drained THEN lag + 1 ELSE 0
    /\ clock' = Aged(clock, MaxClock)
    /\ UNCHANGED <<file, drained, step, todo, hasty>>

Checker == WakeUp \/ NextGroup \/ EndSweep \/ EndGroup \/ Skip \/ Send
           \/ \E ok \in BOOLEAN : Store(ok)

RollingInit ==
    /\ Init /\ alive = [b \in Backend |-> "up"]
    /\ file = {} /\ drained = {} /\ lag = 0
    /\ step = "idle" /\ todo = <<>> /\ clock = 0 /\ hasty = FALSE

Script == \/ Run \/ Drain \/ AlreadyDrained \/ Drained \/ RestartService
          \/ Undrain \/ RestartFailed \/ Settled \/ Complete

RollingNext ==
    \/ Script \/ Interrupt \/ Reload \/ Pass
    \/ Checker /\ UNCHANGED <<balancer, script>>
    \/ \E b \in Backend : ComeUp(b)

RollingSpec == RollingInit /\ [][RollingNext]_allVars

\* No command fails but the restart, and nobody interrupts the script.
Uninterrupted == RollingInit /\ [][RollingNext /\ step' # "stopped"]_allVars

-----------------------------------------------------------------------------
(* Properties.  The first two excuse a script that was run again at once   *)
(* after an interruption, until it has waited for a backend: it restarts a *)
(* backend that is drained in the file without a wait, or drains the next  *)
(* one while the last is out of rotation (build_restart_order says of the  *)
(* drained ones that "they're already not receiving traffic").             *)

(* The update takes nothing out of service: at any moment, also after an   *)
(* abort and in the run that recovers from it, some backend is up, in      *)
(* rotation and not drained (the README of the scripts: "zero-downtime     *)
(* rolling updates"; "traffic continues on the surviving instances").      *)
ZeroDowntime ==
    hasty \/ \E b \in Backend : b \notin drained /\ healthy[b] /\ alive[b] = "up"

(* A backend goes down only after the balancer has stopped to send to it,  *)
(* though the script never asks the balancer (rolling_restart).            *)
RestartsDrained ==
    \A b \in Backend : alive[b] # "up" => b \in drained \/ hasty

(* However often the script is interrupted and run again, and however      *)
(* soon, at most one backend is drained in the file or down: a run takes   *)
(* up the one that an earlier run left behind before it drains another     *)
(* (build_restart_order).                                                  *)
OneAtATime ==
    LET Out == {b \in Backend : b \in file \/ alive[b] # "up"}
    IN  \A b, c \in Out : b = c
=============================================================================
