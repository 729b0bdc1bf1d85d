---------------------------- MODULE ErrorThrottle ----------------------------
(***************************************************************************)
(* The log throttle shared by all requests of a backend or a route         *)
(* (src/src/throttle.rs): three atomics, no lock.  One action per atomic   *)
(* access; the accesses interleave as in a sequentially consistent         *)
(* execution, and the time read by a thread is stale when it is used.      *)
(*                                                                         *)
(* errors, lines, reported, marks and recoveries observe the calls and     *)
(* what they return; no step depends on them, except through MaxErrors.    *)
(***************************************************************************)
EXTENDS Integers, FiniteSets

CONSTANTS
    Thread,
    Window,         \* values of error_summary_secs, in ms; 0 = log every error
    MinWindow,      \* no window but 0 is shorter
    MaxTime,        \* bound on the clock
    MaxErrors       \* bound on the calls of on_error

ASSUME ThreadAssumption == IsFiniteSet(Thread)
ASSUME WindowAssumption ==
    /\ Window \subseteq Nat /\ MinWindow \in Nat \ {0}
    /\ \A w \in Window : w = 0 \/ w >= MinWindow
ASSUME BoundAssumption == MaxTime \in Nat /\ MaxErrors \in Nat

VARIABLES
    clock, window,                          \* now_ms() and WINDOW_MS
    in_error, last_log_ms, suppressed,      \* the fields of ErrorThrottle
    pc, now, win, last,                     \* the locals of on_error_at
    errors, lines, reported,                \* calls of on_error, lines they log, and
                                            \* the sum of the suppressed=N of all lines
    marks, recoveries                       \* stores of true into in_error, recovery lines

throttleVars == <<in_error, last_log_ms, suppressed>>
localVars == <<now, win, last>>
logVars == <<errors, lines, reported>>
stateVars == <<marks, recoveries>>
vars == <<clock, window, throttleVars, pc, localVars, logVars, stateVars>>

Goto(t, l) == pc' = [pc EXCEPT ![t] = l]

-----------------------------------------------------------------------------
(* on_error: the time first, then the window.                              *)
OnError(t) ==
    /\ pc[t] = "idle" /\ errors < MaxErrors
    /\ now' = [now EXCEPT ![t] = clock]
    /\ errors' = errors + 1
    /\ Goto(t, "window")
    /\ UNCHANGED <<clock, window, throttleVars, win, last, lines, reported, stateVars>>

LoadWindow(t) ==
    /\ pc[t] = "window"
    /\ win' = [win EXCEPT ![t] = window]
    /\ Goto(t, IF window = 0 THEN "always" ELSE "last")
    /\ UNCHANGED <<clock, window, throttleVars, now, last, logVars, stateVars>>

\* A window of 0: logged, with suppressed = 0.
LogAlways(t) ==
    /\ pc[t] = "always"
    /\ in_error' = TRUE
    /\ marks' = marks + 1
    /\ lines' = lines + 1
    /\ Goto(t, "idle")
    /\ UNCHANGED <<clock, window, last_log_ms, suppressed, localVars, errors, reported, recoveries>>

\* saturating_sub: another thread with a later time may have logged.
Elapsed(n, l) == IF n > l THEN n - l ELSE 0
DueWrapping(n, l, w) == l = 0 \/ n - l >= w \/ n < l       \* mutant of Due
Due(n, l, w) == l = 0 \/ Elapsed(n, l) >= w

LoadLast(t) ==
    /\ pc[t] = "last"
    /\ last' = [last EXCEPT ![t] = last_log_ms]
    /\ Goto(t, IF Due(now[t], last_log_ms, win[t]) THEN "cas" ELSE "count")
    /\ UNCHANGED <<clock, window, throttleVars, now, win, logVars, stateVars>>

CompareExchange(t) ==
    /\ pc[t] = "cas"
    /\ \/ /\ last_log_ms = last[t]
          /\ last_log_ms' = now[t]
          /\ Goto(t, "mark")
       \/ /\ last_log_ms # last[t]
          /\ Goto(t, "count")
          /\ UNCHANGED last_log_ms
    /\ UNCHANGED <<clock, window, in_error, suppressed, localVars, logVars, stateVars>>

Mark(t) ==
    /\ pc[t] = "mark"
    /\ in_error' = TRUE
    /\ marks' = marks + 1
    /\ Goto(t, "report")
    /\ UNCHANGED <<clock, window, last_log_ms, suppressed, localVars, logVars, recoveries>>

\* The line is logged with the count that is swapped out.
ReportKeeps(t) ==               \* mutant of Report
    /\ pc[t] = "report"
    /\ reported' = reported + suppressed
    /\ lines' = lines + 1
    /\ Goto(t, "idle")
    /\ UNCHANGED <<clock, window, throttleVars, localVars, errors, stateVars>>
Report(t) ==
    /\ pc[t] = "report"
    /\ reported' = reported + suppressed
    /\ suppressed' = 0
    /\ lines' = lines + 1
    /\ Goto(t, "idle")
    /\ UNCHANGED <<clock, window, in_error, last_log_ms, localVars, errors, stateVars>>

Count(t) ==
    /\ pc[t] = "count"
    /\ suppressed' = suppressed + 1
    /\ Goto(t, "idle")
    /\ UNCHANGED <<clock, window, in_error, last_log_ms, localVars, logVars, stateVars>>

-----------------------------------------------------------------------------
(* on_success.  The fast path, in_error = FALSE, changes nothing.          *)
OnSuccess(t) ==
    /\ pc[t] = "idle" /\ in_error
    /\ Goto(t, "swap")
    /\ UNCHANGED <<clock, window, throttleVars, localVars, logVars, stateVars>>

SwapUnchecked(t) ==             \* mutant of Swap
    /\ pc[t] = "swap"
    /\ in_error' = FALSE
    /\ recoveries' = recoveries + 1
    /\ Goto(t, "recovered")
    /\ UNCHANGED <<clock, window, last_log_ms, suppressed, localVars, logVars, marks>>
Swap(t) ==
    /\ pc[t] = "swap"
    /\ in_error' = FALSE
    /\ \/ in_error /\ recoveries' = recoveries + 1 /\ Goto(t, "recovered")
       \/ ~in_error /\ Goto(t, "idle") /\ UNCHANGED recoveries
    /\ UNCHANGED <<clock, window, last_log_ms, suppressed, localVars, logVars, marks>>

Recovered(t) ==
    /\ pc[t] = "recovered"
    /\ reported' = reported + suppressed
    /\ suppressed' = 0
    /\ Goto(t, "idle")
    /\ UNCHANGED <<clock, window, in_error, last_log_ms, localVars, errors, lines, stateVars>>

-----------------------------------------------------------------------------
(* Time passes, and a reload stores another window.                        *)
Tick ==
    /\ clock < MaxTime
    /\ clock' = clock + 1
    /\ UNCHANGED <<window, throttleVars, pc, localVars, logVars, stateVars>>

SetWindow(w) ==
    /\ window' = w
    /\ UNCHANGED <<clock, throttleVars, pc, localVars, logVars, stateVars>>

Init ==
    /\ clock = 1 /\ window \in Window
    /\ in_error = FALSE /\ last_log_ms = 0 /\ suppressed = 0
    /\ pc = [t \in Thread |-> "idle"]
    /\ now = [t \in Thread |-> 0] /\ win = [t \in Thread |-> 0] /\ last = [t \in Thread |-> 0]
    /\ errors = 0 /\ lines = 0 /\ reported = 0 /\ marks = 0 /\ recoveries = 0

Next ==
    \/ \E t \in Thread :
         \/ OnError(t) \/ LoadWindow(t) \/ LogAlways(t) \/ LoadLast(t) \/ CompareExchange(t)
         \/ Mark(t) \/ Report(t) \/ Count(t)
         \/ OnSuccess(t) \/ Swap(t) \/ Recovered(t)
    \/ Tick
    \/ \E w \in Window : SetWindow(w)

Spec == Init /\ [][Next]_vars

-----------------------------------------------------------------------------
(* Properties.                                                             *)
InOnError == {"window", "always", "last", "cas", "mark", "report", "count"}
InFlight == {t \in Thread : pc[t] \in InOnError}

TypeOK ==
    /\ clock \in Nat \ {0} /\ window \in Window
    /\ in_error \in BOOLEAN /\ last_log_ms \in Nat /\ suppressed \in Nat
    /\ pc \in [Thread -> {"idle", "swap", "recovered"} \cup InOnError]
    /\ now \in [Thread -> Nat] /\ last \in [Thread -> Nat] /\ win \in [Thread -> Nat]
    /\ errors \in Nat /\ lines \in Nat /\ reported \in Nat
    /\ marks \in Nat /\ recoveries \in Nat

(* No error vanishes and none is told twice: each is a line, or in the     *)
(* count of exactly one line, or still in the counter, or on its way,      *)
(* however calls race with each other and with recoveries (on_error:       *)
(* "with `suppressed` similar errors swallowed since the last logged one").*)
Conserved == errors = lines + reported + suppressed + Cardinality(InFlight)

(* A recovery line follows an error line of its own: successes that race   *)
(* report one recovery only (on_success: "once when recovering").          *)
RecoveryOnce == recoveries + (IF in_error THEN 1 ELSE 0) <= marks

(* While the window is not 0, two lines are a window apart: a thread with  *)
(* a stale time, or a stale last_log_ms, never gets a second line through, *)
(* and the time of the last line never goes back (on_error_at: "one line   *)
(* per window").                                                           *)
LogSpacing ==
    [][last_log_ms # 0 /\ last_log_ms' # last_log_ms
         => last_log_ms' >= last_log_ms + MinWindow]_vars
=============================================================================
