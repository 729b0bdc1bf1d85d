----------------------------- MODULE ConfigReload -----------------------------
(***************************************************************************)
(* How a saved configuration file becomes the running configuration: the   *)
(* start of the program and config_reload_loop (src/src/main.rs), the file *)
(* readers (src/src/config.rs, src/src/tls.rs), and around them an operator *)
(* who edits the file, renews certificates and sends SIGHUP at any moment. *)
(*                                                                         *)
(* Each read of a file is a step of its own: the loop reads the time of    *)
(* the file, then its text, then the certificate, then the key.  What      *)
(* apply_config does with the text is the subject of Balancer.             *)
(***************************************************************************)
EXTENDS Integers

CONSTANTS
    Content,        \* what the configuration file may hold
    Missing,        \* the content of a file that is not there
    Malformed,      \* the contents LbConfig::load refuses: also half a file
    Rejected,       \* the contents that load, but whose routes are refused
    HalfTls,        \* those that name a certificate without a key, or a key alone
    Path, CertPath, NoPath, \* CertPath[c]: where content c finds its certificate
    NoPair,         \* TLS is off
    Boot,           \* the file when the program starts
    MaxTime, MaxEdits, MaxHups, MaxRenewals, MaxFails  \* bounds on the environment

ASSUME ContentAssumption == /\ Missing \in Malformed /\ Malformed \subseteq Content
                            /\ Rejected \subseteq Content \ Malformed
                            /\ Boot \in Content \ Malformed
ASSUME PathAssumption == /\ NoPath \notin Path /\ CertPath \in [Content -> Path \cup {NoPath}]
                         /\ \A c \in HalfTls : c \in Content /\ CertPath[c] = NoPath

VARIABLES
    \* the files: clock is the time in the units of mtime (0: no file), and
    \* written is TRUE when the file was saved in the current unit
    file, mtime, clock, written,
    cert, key,              \* the renewal the certificate and the key of a path are from
    \* the program: locals of the loop, and what it has made of the files
    pc, started, last_modified, chain,
    routes, window, served,
    \* SIGHUP: tokio's handler is installed, it ran, and the listener of the
    \* select! under way
    hooked, pending, listener,
    edits, hups, fails,
    \* history: a signal no read of the file has followed yet; the last read
    \* failed; the last save left mtime as it was; a save during the start;
    \* a renewal, or a read that failed, since a reload last began to read
    \* the certificates
    unread, failed, blurred, early, renewed

fileVars == <<file, mtime, clock, written>>
certVars == <<cert, key>>
appliedVars == <<routes, window, served>>
signalVars == <<hooked, pending, listener>>
boundVars == <<edits, hups, fails>>
historyVars == <<unread, failed, blurred, early, renewed>>
vars == <<fileVars, certVars, pc, started, last_modified, chain, appliedVars, signalVars,
          boundVars, historyVars>>

Loads(c) == c \notin Malformed
Up == pc \notin {"exit", "killed"}
Fail == fails < MaxFails /\ fails' = fails + 1

-----------------------------------------------------------------------------
(* The start: main loads the file, run loads the certificates.  Any error  *)
(* ends the program, also a certificate without its key; a reload takes    *)
(* such a file and leaves the certificates as they are.                    *)
BootLoad ==
    /\ pc = "boot"
    /\ \/ /\ Loads(file) /\ file \notin Rejected \cup HalfTls
          /\ window' = file /\ routes' = file
          /\ pc' = IF CertPath[file] = NoPath THEN "start" ELSE "cert"
          /\ renewed' = FALSE
       \/ /\ ~Loads(file) \/ file \in Rejected \cup HalfTls
          /\ pc' = "exit" /\ UNCHANGED <<window, routes, renewed>>
    /\ UNCHANGED <<fileVars, certVars, started, last_modified, chain, served, signalVars,
                   boundVars, unread, failed, blurred, early>>

\* The loop task begins: "Track last known modification time".
Start ==
    /\ pc = "start"
    /\ started' = TRUE
    /\ last_modified' = mtime
    /\ pc' = "select"
    /\ UNCHANGED <<fileVars, certVars, chain, appliedVars, signalVars, boundVars, historyVars>>

-----------------------------------------------------------------------------
(* The select! of the loop.  It polls its two futures in any order: a tick *)
(* that is due may win before wait_sighup has created its listener, and    *)
(* also when the listener has been notified.  The loser is dropped.  When  *)
(* `signal` fails, that turn of the loop has no listener: Arm is not taken *)
(* before the tick.                                                        *)
Arm ==
    /\ pc = "select" /\ listener = "none"
    /\ hooked' = TRUE
    /\ listener' = "waiting"
    /\ UNCHANGED <<fileVars, certVars, pc, started, last_modified, chain, appliedVars, pending,
                   boundVars, historyVars>>

PollStampsFirst ==              \* mutant of Poll
    /\ pc = "select"
    /\ listener' = "none"
    /\ last_modified' = mtime
    /\ UNCHANGED <<fileVars, certVars, pc, started, chain, appliedVars, hooked, pending,
                   boundVars, historyVars>>
Poll ==
    /\ pc = "select"
    /\ listener' = "none"
    /\ \/ mtime = last_modified /\ UNCHANGED <<last_modified, pc>>
       \/ mtime # last_modified /\ last_modified' = mtime /\ pc' = "open"
    /\ UNCHANGED <<fileVars, certVars, started, chain, appliedVars, hooked, pending,
                   boundVars, historyVars>>

Sighup ==
    /\ pc = "select" /\ listener = "notified"
    /\ listener' = "none"
    /\ last_modified' = mtime
    /\ pc' = "open"
    /\ UNCHANGED <<fileVars, certVars, started, chain, appliedVars, hooked, pending,
                   boundVars, historyVars>>

-----------------------------------------------------------------------------
(* One reload.  A file that cannot be opened, does not parse, or lists bad *)
(* routes leaves the routes as they were; the window and the certificates  *)
(* of bad routes are taken over.                                           *)
ReadConfigUnchecked ==          \* mutant of ReadConfig
    /\ pc = "open" /\ Loads(file)
    /\ unread' = FALSE /\ failed' = FALSE /\ early' = FALSE
    /\ window' = file /\ routes' = file
    /\ pc' = IF served # NoPair /\ CertPath[file] # NoPath THEN "cert" ELSE "select"
    /\ UNCHANGED <<fileVars, certVars, started, last_modified, chain, served, signalVars,
                   boundVars, blurred, renewed>>
ReadConfig ==
    /\ pc = "open"
    /\ unread' = FALSE /\ failed' = FALSE /\ early' = FALSE
    /\ \/ /\ Loads(file)
          /\ window' = file
          /\ routes' = IF file \in Rejected THEN routes ELSE file
          /\ pc' = IF served # NoPair /\ CertPath[file] # NoPath THEN "cert" ELSE "select"
          /\ renewed' = (renewed /\ pc' # "cert")
       \/ /\ ~Loads(file)
          /\ pc' = "select" /\ UNCHANGED <<window, routes, renewed>>
    /\ UNCHANGED <<fileVars, certVars, started, last_modified, chain, served, signalVars,
                   boundVars, blurred>>

OpenFails ==
    /\ pc = "open" /\ Fail
    /\ failed' = TRUE
    /\ pc' = "select"
    /\ UNCHANGED <<fileVars, certVars, started, last_modified, chain, appliedVars, signalVars,
                   edits, hups, unread, blurred, early, renewed>>

\* load_certified_key: the chain, then the key; the pair is swapped in as one.
ReadCert ==
    /\ pc = "cert"
    /\ chain' = cert[CertPath[window]]
    /\ pc' = "key"
    /\ UNCHANGED <<fileVars, certVars, started, last_modified, appliedVars, signalVars,
                   boundVars, historyVars>>

ReadKeyStamps ==                \* mutant of ReadKey
    /\ pc = "key"
    /\ served' = [path |-> CertPath[window], cert |-> chain, key |-> key[CertPath[window]]]
    /\ pc' = IF started THEN "select" ELSE "start"
    /\ last_modified' = mtime
    /\ UNCHANGED <<fileVars, certVars, started, chain, routes, window, signalVars, boundVars,
                   historyVars>>
ReadKeyIfNew ==                 \* another: an unchanged chain is not loaded again
    /\ pc = "key"
    /\ served' = IF served # NoPair /\ served.path = CertPath[window] /\ served.cert = chain
                 THEN served
                 ELSE [path |-> CertPath[window], cert |-> chain, key |-> key[CertPath[window]]]
    /\ pc' = IF started THEN "select" ELSE "start"
    /\ UNCHANGED <<fileVars, certVars, started, last_modified, chain, routes, window, signalVars,
                   boundVars, historyVars>>
ReadKey ==
    /\ pc = "key"
    /\ served' = [path |-> CertPath[window], cert |-> chain, key |-> key[CertPath[window]]]
    /\ pc' = IF started THEN "select" ELSE "start"
    /\ UNCHANGED <<fileVars, certVars, started, last_modified, chain, routes, window, signalVars,
                   boundVars, historyVars>>

CertFails ==
    /\ pc \in {"cert", "key"} /\ Fail
    /\ pc' = IF started THEN "select" ELSE "exit"
    /\ renewed' = TRUE
    /\ UNCHANGED <<fileVars, certVars, started, last_modified, chain, appliedVars, signalVars,
                   edits, hups, unread, failed, blurred, early>>

-----------------------------------------------------------------------------
(* The operator, and the system.                                           *)

\* Saving in place is two edits, the first to a content that does not load.
Edit(c) ==
    /\ Up /\ edits < MaxEdits /\ c # file
    /\ file' = c
    /\ mtime' = IF c = Missing THEN 0 ELSE clock
    /\ written' = (written \/ c # Missing)
    /\ blurred' = (written /\ c # Missing)
    /\ early' = (early \/ (pc \in {"cert", "key", "start"} /\ ~started))
    /\ edits' = edits + 1
    /\ UNCHANGED <<clock, certVars, pc, started, last_modified, chain, appliedVars, signalVars,
                   hups, fails, unread, failed, renewed>>

Advance ==
    /\ Up /\ clock < MaxTime
    /\ clock' = clock + 1
    /\ written' = FALSE
    /\ UNCHANGED <<file, mtime, certVars, pc, started, last_modified, chain, appliedVars,
                   signalVars, boundVars, historyVars>>

\* One of the two files is replaced, then the other.
RenewBegin(p) ==
    /\ Up /\ cert[p] = key[p] /\ cert[p] < MaxRenewals
    /\ \/ cert' = [cert EXCEPT ![p] = @ + 1] /\ UNCHANGED key
       \/ key' = [key EXCEPT ![p] = @ + 1] /\ UNCHANGED cert
    /\ renewed' = TRUE
    /\ UNCHANGED <<fileVars, pc, started, last_modified, chain, appliedVars, signalVars,
                   boundVars, unread, failed, blurred, early>>
RenewEnd(p) ==
    /\ Up /\ cert[p] # key[p]
    /\ \/ cert[p] > key[p] /\ key' = [key EXCEPT ![p] = cert[p]] /\ UNCHANGED cert
       \/ key[p] > cert[p] /\ cert' = [cert EXCEPT ![p] = key[p]] /\ UNCHANGED key
    /\ renewed' = TRUE
    /\ UNCHANGED <<fileVars, pc, started, last_modified, chain, appliedVars, signalVars,
                   boundVars, unread, failed, blurred, early>>

\* The default action of SIGHUP, until signal() is first called, is to kill.
Hup ==
    /\ Up /\ hups < MaxHups
    /\ hups' = hups + 1
    /\ unread' = TRUE
    /\ \/ hooked /\ pending' = TRUE /\ UNCHANGED pc
       \/ ~hooked /\ pc' = "killed" /\ UNCHANGED pending
    /\ UNCHANGED <<fileVars, certVars, started, last_modified, chain, appliedVars, hooked,
                   listener, edits, fails, failed, blurred, early, renewed>>

\* tokio's signal driver tells the listeners that exist at that moment.
Broadcast ==
    /\ Up /\ pending
    /\ pending' = FALSE
    /\ listener' = IF listener = "none" THEN "none" ELSE "notified"
    /\ UNCHANGED <<fileVars, certVars, pc, started, last_modified, chain, appliedVars, hooked,
                   boundVars, historyVars>>

Stopped == ~Up /\ UNCHANGED vars

-----------------------------------------------------------------------------
Init ==
    /\ file = Boot /\ mtime = 1 /\ clock = 1 /\ written = TRUE
    /\ cert = [p \in Path |-> 0] /\ key = [p \in Path |-> 0]
    /\ pc = "boot" /\ started = FALSE /\ last_modified = 0 /\ chain = 0
    /\ routes = Boot /\ window = Boot /\ served = NoPair
    /\ hooked = FALSE /\ pending = FALSE /\ listener = "none"
    /\ edits = 0 /\ hups = 0 /\ fails = 0
    /\ unread = FALSE /\ failed = FALSE /\ blurred = FALSE /\ early = FALSE /\ renewed = FALSE

Environment ==
    \/ \E c \in Content : Edit(c)
    \/ Advance \/ Hup \/ Broadcast
    \/ \E p \in Path : RenewBegin(p) \/ RenewEnd(p)

Next ==
    \/ BootLoad \/ Start \/ Arm \/ Poll \/ Sighup
    \/ ReadConfig \/ OpenFails \/ ReadCert \/ ReadKey \/ CertFails
    \/ Environment
    \/ Stopped

Spec == Init /\ [][Next]_vars

(* The task of the loop runs, its interval ticks, and the driver of the    *)
(* signals runs.  Nobody is obliged to edit, renew or send anything.       *)
FairSpec ==
    /\ Spec
    /\ WF_vars(BootLoad) /\ WF_vars(Start)
    /\ WF_vars(Poll) /\ WF_vars(Arm) /\ WF_vars(Sighup)
    /\ WF_vars(ReadConfig) /\ WF_vars(ReadCert) /\ WF_vars(ReadKey)
    /\ WF_vars(Broadcast)

-----------------------------------------------------------------------------
(* Properties.                                                             *)
TypeOK ==
    /\ file \in Content /\ mtime \in Nat /\ clock \in Nat \ {0} /\ written \in BOOLEAN
    /\ cert \in [Path -> Nat] /\ key \in [Path -> Nat]
    /\ pc \in {"boot", "start", "select", "open", "cert", "key", "exit", "killed"}
    /\ started \in BOOLEAN /\ last_modified \in Nat /\ chain \in Nat
    /\ routes \in Content \ Malformed /\ window \in Content \ Malformed
    /\ routes \in Rejected => ~started /\ pc \in {"boot", "exit", "killed"}
    /\ served \in {NoPair} \cup [path : Path, cert : Nat, key : Nat]
    /\ hooked \in BOOLEAN /\ pending \in BOOLEAN
    /\ listener \in {"none", "waiting", "notified"}
    /\ edits \in Nat /\ hups \in Nat /\ fails \in Nat
    /\ unread \in BOOLEAN /\ failed \in BOOLEAN /\ blurred \in BOOLEAN /\ early \in BOOLEAN
    /\ renewed \in BOOLEAN

(* What the program made of content c: the window and, unless they were    *)
(* refused, the routes.                                                    *)
InForce(c) == window = c /\ (routes = c \/ c \in Rejected)

(* When the loop waits and the time of the file is the one it remembers,   *)
(* so that no poll will look again, then what is in force is the file, but *)
(* for three causes: the last read failed, the last save left mtime as it  *)
(* was, or the file was saved between its first load and the first look at *)
(* its time.  Whatever edits and signals come between the steps of a       *)
(* reload, there is no fourth (config_reload_loop, last_modified).         *)
NoSilentStale ==
    pc = "select" /\ last_modified = mtime /\ Loads(file)
      => InForce(file) \/ failed \/ blurred \/ early

(* A file that loads and stays is in force in the end, but for the same    *)
(* causes and the end of the program, with no signal at all (README: just  *)
(* save lb.toml).                                                          *)
SaveIsLoaded ==
    \A c \in Content \ Malformed :
        file = c ~> InForce(c) \/ file # c \/ failed \/ blurred \/ early \/ ~Up

(* The certificate and the key served are those the files hold, together,  *)
(* whatever reloads and edits there were - unless a renewal touched one of *)
(* them, or one could not be read, after the last reload had begun to read *)
(* them (try_reload_certs; two files have no common moment).               *)
ServesFilesOfReload ==
    pc \in {"select", "open"} /\ served # NoPair /\ ~renewed
      => served = [path |-> served.path, cert |-> cert[served.path], key |-> key[served.path]]

(* What the documentation says, and the code does not keep.                *)

(* README: tinylb reloads on SIGHUP.  The listener lives only while the    *)
(* select! waits, and dies when a tick wins: a signal may find none, or be *)
(* dropped with it, and no read of the file follows.  When the file itself *)
(* did not change - a renewed certificate - no poll makes up for it.       *)
HangupIsHeard == unread /\ hooked ~> ~unread
=============================================================================
