------------------------- MODULE ErrorThrottleProofs -------------------------
(***************************************************************************)
(* The properties of ErrorThrottle, for any number of threads and any      *)
(* windows, times and numbers of errors.                                   *)
(***************************************************************************)
EXTENDS ErrorThrottle, FiniteSetTheorems, TLAPS

\* A thread about to compare and exchange has found the window elapsed.
CasReady ==
    \A t \in Thread :
        /\ pc[t] \in {"last", "cas"} => win[t] >= MinWindow
        /\ pc[t] = "cas" => last[t] = 0 \/ now[t] >= last[t] + MinWindow

IInv == TypeOK /\ CasReady /\ Conserved /\ RecoveryOnce

LEMMA InFlightFinite == IsFiniteSet(InFlight) /\ Cardinality(InFlight) \in Nat
BY ThreadAssumption, FS_Subset, FS_CardinalityType DEF InFlight

\* How the count of calls under way follows the step of one thread.
LEMMA InFlightStep ==
    ASSUME NEW t \in Thread, TypeOK, NEW l, pc' = [pc EXCEPT ![t] = l]
    PROVE  /\ l \in InOnError /\ pc[t] \in InOnError
                => Cardinality(InFlight') = Cardinality(InFlight)
           /\ l \in InOnError /\ pc[t] \notin InOnError
                => Cardinality(InFlight') = Cardinality(InFlight) + 1
           /\ l \notin InOnError /\ pc[t] \in InOnError
                => Cardinality(InFlight') = Cardinality(InFlight) - 1
           /\ l \notin InOnError /\ pc[t] \notin InOnError
                => Cardinality(InFlight') = Cardinality(InFlight)
<1>1. \A u \in Thread : pc'[u] = IF u = t THEN l ELSE pc[u]
  BY DEF TypeOK
<1>2. CASE l \in InOnError /\ pc[t] \in InOnError
  <2>1. InFlight' = InFlight
    BY <1>1, <1>2 DEF InFlight
  <2> QED BY <1>2, <2>1, InFlightFinite
<1>3. CASE l \in InOnError /\ pc[t] \notin InOnError
  <2>1. InFlight' = InFlight \cup {t} /\ t \notin InFlight
    BY <1>1, <1>3 DEF InFlight
  <2>2. Cardinality(InFlight') = Cardinality(InFlight) + 1
    BY <2>1, InFlightFinite, FS_AddElement
  <2> QED BY <1>3, <2>2, InFlightFinite
<1>4. CASE l \notin InOnError /\ pc[t] \in InOnError
  <2>1. InFlight' = InFlight \ {t} /\ t \in InFlight
    BY <1>1, <1>4 DEF InFlight
  <2>2. Cardinality(InFlight') = Cardinality(InFlight) - 1
    BY <2>1, InFlightFinite, FS_RemoveElement
  <2> QED BY <1>4, <2>2, InFlightFinite
<1>5. CASE l \notin InOnError /\ pc[t] \notin InOnError
  <2>1. InFlight' = InFlight
    BY <1>1, <1>5 DEF InFlight
  <2> QED BY <1>5, <2>1, InFlightFinite
<1> QED BY <1>2, <1>3, <1>4, <1>5

-----------------------------------------------------------------------------
LEMMA InitInv == Init => IInv
<1> SUFFICES ASSUME Init PROVE IInv
  OBVIOUS
<1>1. TypeOK
  <2>1. pc \in [Thread -> {"idle", "swap", "recovered"} \cup InOnError]
    BY DEF Init
  <2>2. now \in [Thread -> Nat] /\ win \in [Thread -> Nat] /\ last \in [Thread -> Nat]
    BY DEF Init
  <2>3. in_error \in BOOLEAN /\ window \in Window
    BY DEF Init
  <2>4. /\ clock \in Nat \ {0} /\ last_log_ms \in Nat /\ suppressed \in Nat
        /\ errors \in Nat /\ lines \in Nat /\ reported \in Nat
        /\ marks \in Nat /\ recoveries \in Nat
    BY DEF Init
  <2> QED BY <2>1, <2>2, <2>3, <2>4 DEF TypeOK
<1>4. CasReady
  BY DEF Init, CasReady
<1>5. RecoveryOnce
  BY DEF Init, RecoveryOnce
<1>2. InFlight = {}
  BY DEF Init, InFlight, InOnError
<1>3. Conserved
  BY <1>2, FS_EmptySet DEF Init, Conserved
<1> QED BY <1>1, <1>3, <1>4, <1>5 DEF IInv

LEMMA TypeStep == ASSUME TypeOK, [Next]_vars PROVE TypeOK'
<1> USE DEF vars, throttleVars, localVars, logVars, stateVars, TypeOK, Goto, InOnError
<1>1. ASSUME NEW t \in Thread, OnError(t) \/ LoadLast(t) PROVE TypeOK'
  BY <1>1 DEF OnError, LoadLast
<1>2. ASSUME NEW t \in Thread, LoadWindow(t) PROVE TypeOK'
  <2>1. window \in Nat
    BY WindowAssumption
  <2>2. CASE window = 0
    BY <1>2, <2>1, <2>2 DEF LoadWindow
  <2>3. CASE window # 0
    BY <1>2, <2>1, <2>3 DEF LoadWindow
  <2> QED BY <2>2, <2>3
<1>3. ASSUME NEW t \in Thread, LogAlways(t) \/ CompareExchange(t) \/ Mark(t) PROVE TypeOK'
  <2>1. CASE LogAlways(t)
    BY <2>1 DEF LogAlways
  <2>2. CASE CompareExchange(t)
    BY <2>2 DEF CompareExchange
  <2>3. CASE Mark(t)
    BY <2>3 DEF Mark
  <2> QED BY <1>3, <2>1, <2>2, <2>3
<1>4. ASSUME NEW t \in Thread, Report(t) \/ Count(t) \/ Recovered(t) PROVE TypeOK'
  BY <1>4 DEF Report, Count, Recovered
<1>5. ASSUME NEW t \in Thread, OnSuccess(t) \/ Swap(t) PROVE TypeOK'
  <2>1. CASE OnSuccess(t)
    BY <2>1 DEF OnSuccess
  <2>2. CASE Swap(t)
    <3>1. pc' \in [Thread -> {"idle", "swap", "recovered"} \cup InOnError]
      BY <2>2 DEF Swap
    <3>2. in_error' \in BOOLEAN
      BY <2>2 DEF Swap
    <3>3. recoveries' = recoveries + 1 \/ recoveries' = recoveries
      BY <2>2, Zenon DEF Swap
    <3>4. recoveries' \in Nat
      BY <3>3
    <3> QED BY <2>2, <3>1, <3>2, <3>4 DEF Swap
  <2> QED BY <1>5, <2>1, <2>2
<1>6. CASE Tick \/ (\E w \in Window : SetWindow(w)) \/ UNCHANGED vars
  BY <1>6 DEF Tick, SetWindow
<1> QED BY <1>1, <1>2, <1>3, <1>4, <1>5, <1>6 DEF Next

LEMMA CasStep == ASSUME TypeOK, CasReady, [Next]_vars PROVE CasReady'
<1> USE DEF vars, throttleVars, localVars, logVars, stateVars, TypeOK, Goto, CasReady
<1>1. ASSUME NEW t \in Thread, LoadWindow(t) PROVE CasReady'
  BY <1>1, WindowAssumption DEF LoadWindow
<1>2. ASSUME NEW t \in Thread, LoadLast(t) PROVE CasReady'
  BY <1>2, WindowAssumption DEF LoadLast, Due, Elapsed
<1>3. ASSUME NEW t \in Thread, OnError(t) PROVE CasReady'
  BY <1>3 DEF OnError
<1>4. ASSUME NEW t \in Thread, \/ LogAlways(t) \/ CompareExchange(t) \/ Mark(t) \/ Report(t)
                               \/ Count(t) \/ Recovered(t) \/ OnSuccess(t) \/ Swap(t)
      PROVE  CasReady'
  BY <1>4 DEF LogAlways, CompareExchange, Mark, Report, Count, Recovered, OnSuccess, Swap
<1>5. CASE Tick \/ (\E w \in Window : SetWindow(w)) \/ UNCHANGED vars
  BY <1>5 DEF Tick, SetWindow
<1> QED BY <1>1, <1>2, <1>3, <1>4, <1>5 DEF Next

LEMMA ConservedStep == ASSUME TypeOK, Conserved, [Next]_vars PROVE Conserved'
<1> USE DEF vars, throttleVars, localVars, logVars, stateVars, Conserved, Goto
<1>1. Cardinality(InFlight) \in Nat /\ errors \in Nat /\ lines \in Nat
      /\ reported \in Nat /\ suppressed \in Nat
  BY InFlightFinite DEF TypeOK
<1>2. ASSUME NEW t \in Thread, OnError(t) PROVE Conserved'
  <2>1. pc' = [pc EXCEPT ![t] = "window"] /\ "window" \in InOnError /\ pc[t] \notin InOnError
    BY <1>2 DEF OnError, InOnError
  <2>2. Cardinality(InFlight') = Cardinality(InFlight) + 1
    BY <2>1, InFlightStep
  <2> QED BY <1>1, <1>2, <2>2 DEF OnError
<1>3. ASSUME NEW t \in Thread, LoadWindow(t) \/ LoadLast(t) \/ CompareExchange(t) \/ Mark(t)
      PROVE  Conserved'
  <2>1. PICK l \in InOnError : pc' = [pc EXCEPT ![t] = l]
    BY <1>3 DEF LoadWindow, LoadLast, CompareExchange, Mark, InOnError
  <2>2. pc[t] \in InOnError
    BY <1>3 DEF LoadWindow, LoadLast, CompareExchange, Mark, InOnError
  <2>3. Cardinality(InFlight') = Cardinality(InFlight)
    BY <2>1, <2>2, InFlightStep
  <2> QED BY <1>1, <1>3, <2>3 DEF LoadWindow, LoadLast, CompareExchange, Mark
<1>4. ASSUME NEW t \in Thread, LogAlways(t) \/ Report(t) \/ Count(t) PROVE Conserved'
  <2>1. pc' = [pc EXCEPT ![t] = "idle"] /\ pc[t] \in InOnError /\ "idle" \notin InOnError
    BY <1>4 DEF LogAlways, Report, Count, InOnError
  <2>2. Cardinality(InFlight') = Cardinality(InFlight) - 1
    BY <2>1, InFlightStep
  <2> QED BY <1>1, <1>4, <2>2 DEF LogAlways, Report, Count
<1>5. ASSUME NEW t \in Thread, OnSuccess(t) \/ Swap(t) \/ Recovered(t) PROVE Conserved'
  <2>1. PICK l : pc' = [pc EXCEPT ![t] = l] /\ l \notin InOnError
    BY <1>5 DEF OnSuccess, Swap, Recovered, InOnError
  <2>2. pc[t] \notin InOnError
    BY <1>5 DEF OnSuccess, Swap, Recovered, InOnError
  <2>3. Cardinality(InFlight') = Cardinality(InFlight)
    BY <2>1, <2>2, InFlightStep
  <2> QED BY <1>1, <1>5, <2>3 DEF OnSuccess, Swap, Recovered
<1>6. CASE Tick \/ (\E w \in Window : SetWindow(w)) \/ UNCHANGED vars
  BY <1>6 DEF Tick, SetWindow, InFlight
<1> QED BY <1>2, <1>3, <1>4, <1>5, <1>6 DEF Next

LEMMA RecoveryStep == ASSUME TypeOK, RecoveryOnce, [Next]_vars PROVE RecoveryOnce'
<1> USE DEF vars, throttleVars, localVars, logVars, stateVars, TypeOK, RecoveryOnce, Goto
<1>1. ASSUME NEW t \in Thread, \/ LogAlways(t) \/ Mark(t) \/ Swap(t)
      PROVE  RecoveryOnce'
  BY <1>1 DEF LogAlways, Mark, Swap
<1>2. ASSUME UNCHANGED <<in_error, marks, recoveries>> PROVE RecoveryOnce'
  BY <1>2
<1> QED
  BY <1>1, <1>2 DEF Next, OnError, LoadWindow, LoadLast, CompareExchange, Report, Count,
                    OnSuccess, Recovered, Tick, SetWindow

-----------------------------------------------------------------------------
(* The theorems.                                                           *)
THEOREM Invariance == Spec => []IInv
<1>1. IInv /\ [Next]_vars => IInv'
  BY TypeStep, CasStep, ConservedStep, RecoveryStep DEF IInv
<1> QED BY <1>1, InitInv, PTL DEF Spec

(* No error is lost or told twice, for any number of racing threads.       *)
THEOREM ErrorsConserved == Spec => []Conserved
<1>1. IInv => Conserved
  BY DEF IInv
<1> QED BY <1>1, Invariance, PTL

(* Racing successes report one recovery for each time in_error was set.    *)
THEOREM RecoveriesFollow == Spec => []RecoveryOnce
<1>1. IInv => RecoveryOnce
  BY DEF IInv
<1> QED BY <1>1, Invariance, PTL

(* Lines that are throttled are at least the shortest window apart.        *)
THEOREM LinesSpaced == Spec => LogSpacing
<1>1. IInv /\ [Next]_vars
        => [last_log_ms # 0 /\ last_log_ms' # last_log_ms
              => last_log_ms' >= last_log_ms + MinWindow]_vars
  <2> SUFFICES ASSUME IInv, Next, last_log_ms # 0, last_log_ms' # last_log_ms
               PROVE  last_log_ms' >= last_log_ms + MinWindow
    BY DEF vars, throttleVars
  <2>1. PICK t \in Thread : CompareExchange(t)
    BY DEF Next, OnError, LoadWindow, LogAlways, LoadLast, Mark, Report, Count, OnSuccess,
           Swap, Recovered, Tick, SetWindow, throttleVars
  <2>2. pc[t] = "cas" /\ last_log_ms = last[t] /\ last_log_ms' = now[t]
    BY <2>1 DEF CompareExchange
  <2> QED BY <2>2 DEF IInv, CasReady
<1> QED BY <1>1, Invariance, PTL DEF Spec, LogSpacing
=============================================================================
