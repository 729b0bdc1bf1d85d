------------------------- MODULE ConfigReloadProofs -------------------------
(***************************************************************************)
(* Theorems about ConfigReload, for any contents, paths and bounds: what   *)
(* is in force is the file but for the three causes, and the pair served   *)
(* is the one on disk.                                                     *)
(***************************************************************************)
EXTENDS ConfigReload, TLAPS

Reading == {"cert", "key"}

\* Where the program can be before and after the loop has begun.
Phase ==
    /\ pc \in {"boot", "start"} => ~started
    /\ pc = "boot" => served = NoPair
    /\ pc \in {"select", "open"} => started
    /\ pc \in Reading => CertPath[window] # NoPath

\* A time that is remembered, or of the file, is not ahead of the clock; and
\* once the clock has reached it, a further save is a blurred one.
Stamps ==
    /\ last_modified <= clock /\ mtime <= clock
    /\ last_modified = clock \/ mtime = clock => written

\* NoSilentStale before the loop has begun ...
FreshAtStart ==
    pc \in {"start"} \cup Reading /\ ~started /\ Loads(file) => InForce(file) \/ early

\* ... and when it has, also while it reads certificates.
NoStale ==
    pc \in {"select"} \cup Reading /\ started /\ last_modified = mtime /\ Loads(file)
      => InForce(file) \/ failed \/ blurred \/ early

\* ServesFilesOfReload, with the chain that is in hand before the key is read.
PairOnDisk ==
    /\ pc = "key" /\ ~renewed => chain = cert[CertPath[window]]
    /\ pc \in {"start", "select", "open"} /\ served # NoPair /\ ~renewed
         => served = [path |-> served.path, cert |-> cert[served.path], key |-> key[served.path]]

FilesInv == TypeOK /\ Phase /\ Stamps /\ FreshAtStart /\ NoStale /\ PairOnDisk

-----------------------------------------------------------------------------
(* The initial state.                                                      *)
LEMMA InitFiles == Init => FilesInv
<1> SUFFICES ASSUME Init PROVE FilesInv
  OBVIOUS
<1>1. TypeOK
  <2>1. cert \in [Path -> Nat] /\ key \in [Path -> Nat]
    BY DEF Init
  <2>2. /\ hooked \in BOOLEAN /\ pending \in BOOLEAN /\ written \in BOOLEAN /\ started \in BOOLEAN
        /\ unread \in BOOLEAN /\ failed \in BOOLEAN /\ blurred \in BOOLEAN
        /\ early \in BOOLEAN /\ renewed \in BOOLEAN
    BY Zenon DEF Init
  <2>3. ~started
    BY DEF Init
  <2> QED BY <2>1, <2>2, <2>3, ContentAssumption DEF Init, TypeOK
<1> QED BY <1>1 DEF Init, FilesInv, Phase, Stamps, FreshAtStart, NoStale, PairOnDisk, Reading

-----------------------------------------------------------------------------
(* Type correctness is preserved; the paths that are looked up exist.      *)
LEMMA TypeStep ==
    ASSUME FilesInv, [Next]_vars
    PROVE  TypeOK'
<1> USE DEF vars, fileVars, certVars, appliedVars, signalVars, boundVars, historyVars
<1>1. TypeOK /\ Phase
  BY DEF FilesInv
<1>2. \A c \in Content : CertPath[c] # NoPath => CertPath[c] \in Path
  BY PathAssumption
<1>3. pc \in Reading => CertPath[window] \in Path
  BY <1>1, <1>2 DEF TypeOK, Phase
<1>4. CASE BootLoad
  <2>1. renewed' \in BOOLEAN
    BY <1>1, <1>4, Zenon DEF BootLoad, TypeOK
  <2>2. /\ routes' \in Content \ Malformed /\ window' \in Content \ Malformed
        /\ routes' \in Rejected => ~started /\ pc' \in {"exit"}
    BY <1>1, <1>4 DEF BootLoad, TypeOK, Loads, Phase
  <2> QED BY <1>1, <1>4, <2>1, <2>2 DEF BootLoad, TypeOK
<1>5. CASE Start
  BY <1>1, <1>5 DEF Start, TypeOK
<1>6. CASE Arm
  BY <1>1, <1>6 DEF Arm, TypeOK
<1>7. CASE Poll
  BY <1>1, <1>7 DEF Poll, TypeOK
<1>8. CASE Sighup
  BY <1>1, <1>8 DEF Sighup, TypeOK
<1>9. CASE ReadConfig
  BY <1>1, <1>9 DEF ReadConfig, TypeOK, Loads
<1>10. CASE OpenFails
  BY <1>1, <1>10 DEF OpenFails, Fail, TypeOK
<1>11. CASE ReadCert
  BY <1>1, <1>3, <1>11 DEF ReadCert, TypeOK, Reading
<1>12. CASE ReadKey
  <2>1. served' \in [path : Path, cert : Nat, key : Nat]
    BY <1>1, <1>3, <1>12 DEF ReadKey, TypeOK, Reading
  <2> QED BY <1>1, <1>12, <2>1 DEF ReadKey, TypeOK
<1>13. CASE CertFails
  BY <1>1, <1>13 DEF CertFails, Fail, TypeOK
<1>14. ASSUME NEW c \in Content, Edit(c) PROVE TypeOK'
  <2>1. written' \in BOOLEAN /\ blurred' \in BOOLEAN /\ early' \in BOOLEAN
    BY <1>14, Zenon DEF Edit
  <2>2. file' \in Content /\ mtime' \in Nat /\ edits' \in Nat
    BY <1>1, <1>14 DEF Edit, TypeOK
  <2> QED BY <1>1, <1>14, <2>1, <2>2 DEF Edit, TypeOK
<1>15. CASE Advance
  <2>1. written' \in BOOLEAN
    BY <1>15, Zenon DEF Advance
  <2> QED BY <1>1, <1>15, <2>1 DEF Advance, TypeOK
<1>16. CASE Hup
  <2>1. unread' \in BOOLEAN
    BY <1>16, Zenon DEF Hup
  <2>2. pending' \in BOOLEAN
    BY <1>1, <1>16, Zenon DEF Hup, TypeOK
  <2> QED BY <1>1, <1>16, <2>1, <2>2 DEF Hup, TypeOK
<1>17. CASE Broadcast
  <2>1. pending' \in BOOLEAN
    BY <1>17, Zenon DEF Broadcast
  <2> QED BY <1>1, <1>17, <2>1 DEF Broadcast, TypeOK
<1>18. ASSUME NEW p \in Path, RenewBegin(p) PROVE TypeOK'
  BY <1>1, <1>18 DEF RenewBegin, TypeOK
<1>19. ASSUME NEW p \in Path, RenewEnd(p) PROVE TypeOK'
  BY <1>1, <1>19 DEF RenewEnd, TypeOK
<1>20. CASE UNCHANGED vars
  BY <1>1, <1>20 DEF TypeOK
<1> QED
  BY <1>4, <1>5, <1>6, <1>7, <1>8, <1>9, <1>10, <1>11, <1>12, <1>13, <1>14, <1>15, <1>16,
     <1>17, <1>18, <1>19, <1>20
  DEF Next, Environment, Stopped

\* Where the program can be.
LEMMA PhaseStep ==
    ASSUME FilesInv, [Next]_vars
    PROVE  Phase'
<1> USE DEF vars, fileVars, certVars, appliedVars, signalVars, boundVars, historyVars
<1>1. TypeOK /\ Phase /\ Stamps /\ FreshAtStart /\ NoStale /\ PairOnDisk
  BY DEF FilesInv
<1>2. CASE BootLoad
  BY <1>1, <1>2 DEF Phase, Reading, TypeOK, BootLoad
<1>3. CASE ReadConfig
  BY <1>1, <1>3 DEF Phase, Reading, TypeOK, ReadConfig
<1>4. CASE ReadKey \/ CertFails
  BY <1>1, <1>4 DEF Phase, Reading, TypeOK, ReadKey, CertFails, Fail
<1>5. CASE Start \/ Arm \/ Poll \/ Sighup \/ OpenFails \/ ReadCert \/ Advance \/ Hup \/
         Broadcast
  BY <1>1, <1>5 DEF Phase, Reading, TypeOK, Start, Arm, Poll, Sighup, OpenFails,
     ReadCert, Advance, Hup, Broadcast, Fail
<1>6. ASSUME NEW p \in Path, RenewBegin(p) \/ RenewEnd(p) PROVE Phase'
  BY <1>1, <1>6 DEF Phase, Reading, TypeOK, RenewBegin, RenewEnd
<1>7. ASSUME NEW c \in Content, Edit(c) PROVE Phase'
  BY <1>1, <1>7 DEF Phase, Reading, TypeOK, Edit
<1>8. CASE UNCHANGED vars
  BY <1>1, <1>8 DEF Phase, Reading, TypeOK
<1> QED
  BY <1>2, <1>3, <1>4, <1>5, <1>6, <1>7, <1>8 DEF Next, Environment, Stopped

\* No time is ahead of the clock: a save takes the time of the clock.
LEMMA StampsStep ==
    ASSUME FilesInv, [Next]_vars
    PROVE  Stamps'
<1> USE DEF vars, fileVars, certVars, appliedVars, signalVars, boundVars, historyVars
<1>1. TypeOK /\ Phase /\ Stamps /\ FreshAtStart /\ NoStale /\ PairOnDisk
  BY DEF FilesInv
<1>2. CASE Start
  BY <1>1, <1>2 DEF Stamps, TypeOK, Start
<1>3. CASE Poll \/ Sighup
  BY <1>1, <1>3 DEF Stamps, TypeOK, Poll, Sighup
<1>4. ASSUME NEW c \in Content, Edit(c) PROVE Stamps'
  <2>1. CASE c = Missing
    BY <1>1, <1>4, <2>1 DEF Stamps, TypeOK, Edit
  <2>2. CASE c # Missing
    <3>1. mtime' = clock /\ clock' = clock /\ last_modified' = last_modified
      BY <1>4, <2>2 DEF Edit
    <3>2. written'
      BY <1>4, <2>2 DEF Edit
    <3> QED BY <1>1, <3>1, <3>2 DEF Stamps, TypeOK
  <2> QED BY <2>1, <2>2
<1>5. CASE Advance
  BY <1>1, <1>5 DEF Stamps, TypeOK, Advance
<1>6. CASE BootLoad \/ Arm \/ ReadConfig \/ OpenFails \/ ReadCert \/ ReadKey \/ CertFails
         \/ Hup \/ Broadcast
  BY <1>1, <1>6 DEF Stamps, TypeOK, BootLoad, Arm, ReadConfig, OpenFails, ReadCert,
     ReadKey, CertFails, Hup, Broadcast, Fail
<1>7. ASSUME NEW p \in Path, RenewBegin(p) \/ RenewEnd(p) PROVE Stamps'
  BY <1>1, <1>7 DEF Stamps, TypeOK, RenewBegin, RenewEnd
<1>8. CASE UNCHANGED vars
  BY <1>1, <1>8 DEF Stamps, TypeOK
<1> QED
  BY <1>2, <1>3, <1>4, <1>5, <1>6, <1>7, <1>8 DEF Next, Environment, Stopped

\* Only a save during the start makes the start stale.
LEMMA FreshStep ==
    ASSUME FilesInv, [Next]_vars
    PROVE  FreshAtStart'
<1> USE DEF vars, fileVars, certVars, appliedVars, signalVars, boundVars, historyVars
<1>1. TypeOK /\ Phase /\ Stamps /\ FreshAtStart /\ NoStale /\ PairOnDisk
  BY DEF FilesInv
<1>2. CASE BootLoad
  BY <1>1, <1>2 DEF FreshAtStart, Phase, Reading, Loads, InForce, BootLoad
<1>3. ASSUME NEW c \in Content, Edit(c) PROVE FreshAtStart'
  BY <1>1, <1>3 DEF FreshAtStart, Phase, Reading, Loads, InForce, Edit
<1>4. CASE Start \/ Arm \/ Poll \/ Sighup \/ ReadConfig \/ OpenFails \/ ReadCert \/
         ReadKey \/ CertFails \/ Advance \/ Hup \/ Broadcast
  BY <1>1, <1>4 DEF FreshAtStart, Phase, Reading, Loads, InForce, Start, Arm, Poll,
     Sighup, ReadConfig, OpenFails, ReadCert, ReadKey, CertFails, Advance, Hup,
     Broadcast, Fail
<1>5. ASSUME NEW p \in Path, RenewBegin(p) \/ RenewEnd(p) PROVE FreshAtStart'
  BY <1>1, <1>5 DEF FreshAtStart, Phase, Reading, Loads, InForce, RenewBegin, RenewEnd
<1>6. CASE UNCHANGED vars
  BY <1>1, <1>6 DEF FreshAtStart, Phase, Reading, Loads, InForce
<1> QED
  BY <1>2, <1>3, <1>4, <1>5, <1>6 DEF Next, Environment, Stopped

\* The loop comes to wait with the file in force, or for a cause: a read gives
\* InForce or failed, the start InForce or early, and a save that leaves the
\* time as it was is blurred, because the clock is at that time.
LEMMA StaleStep ==
    ASSUME FilesInv, [Next]_vars
    PROVE  NoStale'
<1> USE DEF vars, fileVars, certVars, appliedVars, signalVars, boundVars, historyVars
<1>1. TypeOK /\ Phase /\ Stamps /\ FreshAtStart /\ NoStale /\ PairOnDisk
  BY DEF FilesInv
<1>2. CASE Start
  BY <1>1, <1>2 DEF NoStale, TypeOK, Phase, Reading, Loads, InForce, Start,
     FreshAtStart
<1>3. CASE Poll
  BY <1>1, <1>3 DEF NoStale, TypeOK, Phase, Reading, Loads, InForce, Poll
<1>4. CASE ReadConfig
  BY <1>1, <1>4 DEF NoStale, TypeOK, Phase, Reading, Loads, InForce, ReadConfig
<1>5. CASE OpenFails
  BY <1>1, <1>5 DEF NoStale, TypeOK, Phase, Reading, Loads, InForce, OpenFails, Fail
<1>6. ASSUME NEW c \in Content, Edit(c) PROVE NoStale'
  BY <1>1, <1>6, ContentAssumption DEF NoStale, TypeOK, Phase, Reading, Loads,
     InForce, Edit, Stamps
<1>7. CASE BootLoad \/ Arm \/ Sighup \/ ReadCert \/ ReadKey \/ CertFails \/ Advance \/ Hup
         \/ Broadcast
  BY <1>1, <1>7 DEF NoStale, TypeOK, Phase, Reading, Loads, InForce, BootLoad, Arm,
     Sighup, ReadCert, ReadKey, CertFails, Advance, Hup, Broadcast, Fail
<1>8. ASSUME NEW p \in Path, RenewBegin(p) \/ RenewEnd(p) PROVE NoStale'
  BY <1>1, <1>8 DEF NoStale, TypeOK, Phase, Reading, Loads, InForce, RenewBegin,
     RenewEnd
<1>9. CASE UNCHANGED vars
  BY <1>1, <1>9 DEF NoStale, TypeOK, Phase, Reading, Loads, InForce
<1> QED
  BY <1>2, <1>3, <1>4, <1>5, <1>6, <1>7, <1>8, <1>9 DEF Next, Environment, Stopped

\* The pair in hand and the pair served are those of the files.
LEMMA PairStep ==
    ASSUME FilesInv, [Next]_vars
    PROVE  PairOnDisk'
<1> USE DEF vars, fileVars, certVars, appliedVars, signalVars, boundVars, historyVars
<1>1. TypeOK /\ Phase /\ Stamps /\ FreshAtStart /\ NoStale /\ PairOnDisk
  BY DEF FilesInv
<1>2. CASE BootLoad
  BY <1>1, <1>2 DEF PairOnDisk, Phase, TypeOK, BootLoad
<1>3. CASE ReadCert
  BY <1>1, <1>3 DEF PairOnDisk, Phase, TypeOK, ReadCert
<1>4. CASE ReadKey
  BY <1>1, <1>4 DEF PairOnDisk, Phase, TypeOK, ReadKey
<1>5. CASE CertFails
  BY <1>1, <1>5 DEF PairOnDisk, Phase, TypeOK, CertFails, Fail
<1>6. ASSUME NEW p \in Path, RenewBegin(p) \/ RenewEnd(p) PROVE PairOnDisk'
  BY <1>1, <1>6 DEF PairOnDisk, Phase, TypeOK, RenewBegin, RenewEnd
<1>7. CASE Start \/ Arm \/ Poll \/ Sighup \/ ReadConfig \/ OpenFails \/ Advance \/ Hup \/
         Broadcast
  BY <1>1, <1>7 DEF PairOnDisk, Phase, TypeOK, Start, Arm, Poll, Sighup, ReadConfig,
     OpenFails, Advance, Hup, Broadcast, Fail
<1>8. ASSUME NEW c \in Content, Edit(c) PROVE PairOnDisk'
  BY <1>1, <1>8 DEF PairOnDisk, Phase, TypeOK, Edit
<1>9. CASE UNCHANGED vars
  BY <1>1, <1>9 DEF PairOnDisk, Phase, TypeOK
<1> QED
  BY <1>2, <1>3, <1>4, <1>5, <1>6, <1>7, <1>8, <1>9 DEF Next, Environment, Stopped

-----------------------------------------------------------------------------
(* The theorems.                                                           *)

\* FilesInv is an invariant.
THEOREM FilesInvariance == Spec => []FilesInv
<1>1. FilesInv /\ [Next]_vars => FilesInv'
  BY TypeStep, PhaseStep, StampsStep, FreshStep, StaleStep, PairStep DEF FilesInv
<1> QED BY InitFiles, <1>1, PTL DEF Spec

\* Every variable keeps its type, and no routes that were refused come into
\* force once the program runs.
THEOREM FilesTyped == Spec => []TypeOK
<1>1. FilesInv => TypeOK
  BY DEF FilesInv
<1> QED BY FilesInvariance, <1>1, PTL

\* A configuration that is stale and that no poll will look at again is so
\* for one of the three causes, whatever is edited when (config_reload_loop).
THEOREM StaleExplained == Spec => []NoSilentStale
<1>1. FilesInv => NoSilentStale
  BY DEF FilesInv, NoStale, Phase, NoSilentStale
<1> QED BY FilesInvariance, <1>1, PTL

\* The pair served is the pair of the files the last reload read, unless they
\* were renewed, or could not be read, since it began (try_reload_certs).
THEOREM PairIsOfReload == Spec => []ServesFilesOfReload
<1>1. FilesInv => ServesFilesOfReload
  BY DEF FilesInv, PairOnDisk, ServesFilesOfReload
<1> QED BY FilesInvariance, <1>1, PTL
=============================================================================
