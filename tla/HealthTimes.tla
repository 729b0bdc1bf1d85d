----------------------------- MODULE HealthTimes -----------------------------
(***************************************************************************)
(* HealthCheck observed by a stopwatch on one backend, any of them, so     *)
(* that the time its flag may lag behind it can be stated.                 *)
(***************************************************************************)
EXTENDS HealthCheck

VARIABLES watched, steady   \* a backend, and how long it has been as it is now

timesVars == <<vars, watched, steady>>

\* The longer of the two bounds below, and one more.
Horizon == 1 + (IF FailBound > RecoverBound THEN FailBound ELSE RecoverBound)

Changes == \/ (alive[watched] = "up") # (alive'[watched] = "up")
           \/ (watched \in listed) # (watched \in listed')
Observe ==
    /\ watched' = watched
    /\ steady' = CASE Changes -> 0
                   [] ~Changes /\ timer' = timer + 1 -> Aged(steady, Horizon)
                   [] OTHER -> steady

TimesInit == Init /\ watched \in Backend /\ steady = 0
TimesSpec == TimesInit /\ [][Next /\ Observe]_timesVars

-----------------------------------------------------------------------------
(* Properties.                                                             *)

(* A backend that stays up is routed to again after the cooldown, a sleep, *)
(* and a probe of every backend but a second one of its own, whatever the  *)
(* others do to the sweeps meanwhile (health_check_loop).                  *)
RecoversInTime ==
    watched \in listed /\ alive[watched] = "up" /\ steady >= RecoverBound
      => healthy[watched]

(* A backend that stays down, also by never answering, is out of rotation  *)
(* after a sleep and two sweeps at the most.                               *)
FailsInTime ==
    watched \in listed /\ alive[watched] # "up" /\ steady > FailBound
      => ~healthy[watched]
=============================================================================
