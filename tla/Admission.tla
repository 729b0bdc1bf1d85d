----------------------------- MODULE Admission ------------------------------
(***************************************************************************)
(* What the balancer promises its operator, whatever the scans, reloads    *)
(* and health checks inside it do: a request is admitted to a backend that *)
(* is not closed at that moment and stays with it; a connection is counted *)
(* on that backend from its start to its end; and closing a backend takes  *)
(* nothing away from the requests already admitted.                        *)
(***************************************************************************)
EXTENDS Naturals

CONSTANTS Request, Backend, None

VARIABLES
    user,           \* the backend each request is admitted to, or None
    connected,      \* the requests with a connection
    closed,         \* the backends that admit nobody
    load            \* the connections counted on each backend

vars == <<user, connected, closed, load>>

Init ==
    /\ user = [r \in Request |-> None]
    /\ connected = {}
    /\ closed \subseteq Backend
    /\ load = [b \in Backend |-> 0]

Admit(r, b) ==
    /\ user[r] = None
    /\ b \notin closed
    /\ user' = [user EXCEPT ![r] = b]
    /\ UNCHANGED <<connected, closed, load>>

GiveUp(r) ==
    /\ user[r] # None /\ r \notin connected
    /\ user' = [user EXCEPT ![r] = None]
    /\ UNCHANGED <<connected, closed, load>>

Connect(r) ==
    /\ user[r] # None /\ r \notin connected
    /\ connected' = connected \cup {r}
    /\ load' = [load EXCEPT ![user[r]] = @ + 1]
    /\ UNCHANGED <<user, closed>>

Release(r) ==
    /\ r \in connected
    /\ connected' = connected \ {r}
    /\ load' = [load EXCEPT ![user[r]] = @ - 1]
    /\ user' = [user EXCEPT ![r] = None]
    /\ UNCHANGED closed

Configure ==
    /\ closed' \in SUBSET Backend
    /\ UNCHANGED <<user, connected, load>>

Next ==
    \/ \E r \in Request : GiveUp(r) \/ Connect(r) \/ Release(r)
    \/ \E r \in Request, b \in Backend : Admit(r, b)
    \/ Configure

Spec == Init /\ [][Next]_vars
=============================================================================
