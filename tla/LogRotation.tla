----------------------------- MODULE LogRotation ----------------------------
(***************************************************************************)
(* The rotating log file (src/src/logfile.rs).  A line is written under    *)
(* one lock, so a single writer takes the steps: one for each call of the  *)
(* file system, any of which may fail, with the process gone and started   *)
(* again between any two of them.  A file is the sequence of what was      *)
(* appended to it; file 0 is the live one, file n its n-th backup.         *)
(***************************************************************************)
EXTENDS Integers, Sequences, SequencesExt, FiniteSetsExt

CONSTANTS
    MaxSize,        \* max_size, at least 1
    Files,          \* the values of max_files to try
    Length,         \* the lengths of lines
    Lines,          \* bound on the number of lines
    Faults, Crashes \* bounds on calls that fail, and on crashes

ASSUME SizeAssumption == /\ MaxSize \in Nat \ {0} /\ Files \subseteq Nat
                         /\ Length \subseteq Nat \ {0} /\ Length # {} /\ IsFiniteSet(Length)
ASSUME BoundAssumption == Lines \in Nat /\ Faults \in Nat /\ Crashes \in Nat

VARIABLES
    disk,           \* number of each file that exists -> what was appended, [line, bytes]
    open, size,     \* Inner: whether file is Some, and size
    max_files,
    pc, n,          \* the place in write_line and rotate; the file to rename next
    len, line,      \* the length of the line at hand, and its number
    stored,         \* history: everything ever appended to the live file
    stuck,          \* history: whether a rename of a file that exists has failed
    rotations, failures, crashes    \* history: how many there were

inner == <<open, size, max_files>>
work == <<pc, n, len, line>>
history == <<stored, stuck, rotations, failures, crashes>>
vars == <<disk, inner, work, history>>

\* The length of a file: each of its bytes is one of an entry.
Bytes(s) == Cardinality(UNION {{j} \X (1 .. s[j].bytes) : j \in DOMAIN s})
Live == IF 0 \in DOMAIN disk THEN disk[0] ELSE <<>>
With(f, s) == [k \in DOMAIN disk \cup {f} |-> IF k = f THEN s ELSE disk[k]]
Without(f) == [k \in DOMAIN disk \ {f} |-> disk[k]]
Copied(f, g) == IF f \in DOMAIN disk THEN With(g, disk[f]) ELSE disk     \* mutant of Renamed
Renamed(f, g) == IF f \notin DOMAIN disk THEN disk
                 ELSE [k \in (DOMAIN disk \ {f}) \cup {g} |-> IF k = g THEN disk[f] ELSE disk[k]]

\* How a call of the file system ends.
Works == UNCHANGED failures
Fails == failures < Faults /\ failures' = failures + 1

\* Inner::open creates or appends; the length may still be unknown.
OpenTruncated ==                \* mutant of Opened
    /\ disk' = With(0, <<>>)
    /\ Works /\ size' = 0
    /\ open' = TRUE
Opened ==
    /\ disk' = With(0, Live)
    /\ \/ Works /\ size' = Bytes(Live)
       \/ Fails /\ size' = 0
    /\ open' = TRUE

-----------------------------------------------------------------------------
(* write_line, and rotate within it.                                       *)

LongAlready(m) == size > MaxSize        \* mutant of TooLong
TooLong(m) == size > 0 /\ size + m > MaxSize
WriteLine(m) ==
    /\ pc = "idle" /\ line < Lines
    /\ line' = line + 1 /\ len' = m
    /\ \/ TooLong(m) /\ pc' = "rotate" /\ open' = FALSE
       \/ ~TooLong(m) /\ pc' = "open" /\ UNCHANGED open
    /\ UNCHANGED <<disk, size, max_files, n, history>>

\* The oldest backup goes, or without backups the live file.
OldestButOne == max_files - 1           \* mutant of Oldest
Oldest == max_files
RemoveOldest ==
    /\ pc = "rotate"
    /\ \/ Works /\ disk' = Without(Oldest)
       \/ Fails /\ UNCHANGED disk
    /\ pc' = IF max_files = 0 THEN "reopen" ELSE "rename"
    /\ n' = max_files - 1
    /\ rotations' = rotations + 1
    /\ UNCHANGED <<inner, len, line, stored, stuck, crashes>>

\* The others move up by one, the oldest first and the live one last.
Rename ==
    /\ pc = "rename"
    /\ \/ Works /\ disk' = Renamed(n, n + 1) /\ UNCHANGED stuck
       \/ Fails /\ UNCHANGED disk /\ stuck' = (stuck \/ n \in DOMAIN disk)
    /\ \/ n > 0 /\ n' = n - 1 /\ UNCHANGED pc
       \/ n = 0 /\ pc' = "reopen" /\ UNCHANGED n
    /\ UNCHANGED <<inner, len, line, stored, rotations, crashes>>

\* The live file is opened, at the end of rotate and again by write_line.
Reopen ==
    /\ pc = "reopen"
    /\ \/ Opened
       \/ Fails /\ size' = 0 /\ UNCHANGED <<disk, open>>
    /\ pc' = "open"
    /\ UNCHANGED <<max_files, n, len, line, stored, stuck, rotations, crashes>>

OpenMissing ==
    /\ pc = "open"
    /\ \/ open /\ UNCHANGED <<disk, size, open, failures>>
       \/ ~open /\ Opened
       \/ ~open /\ Fails /\ UNCHANGED <<disk, size, open>>
    /\ pc' = "write"
    /\ UNCHANGED <<max_files, n, len, line, stored, stuck, rotations, crashes>>

\* write_all may fail with a part of the line written.
Appended(bytes) == /\ disk' = With(0, Append(disk[0], [line |-> line, bytes |-> bytes]))
                   /\ stored' = Append(stored, [line |-> line, bytes |-> bytes])
Write ==
    /\ pc = "write"
    /\ \/ open /\ Works /\ Appended(len) /\ size' = size + len
       \/ open /\ Fails /\ (\E k \in 1 .. len - 1 : Appended(k)) /\ UNCHANGED size
       \/ open /\ Fails /\ UNCHANGED <<disk, size, stored>>
       \/ ~open /\ UNCHANGED <<disk, size, stored, failures>>
    /\ pc' = "idle"
    /\ UNCHANGED <<open, max_files, n, len, line, stuck, rotations, crashes>>

Flush == pc = "idle" /\ UNCHANGED vars

-----------------------------------------------------------------------------
(* The process ends at any point, and RotatingFile::new opens the file.    *)
Crash ==
    /\ pc # "down" /\ crashes < Crashes
    /\ crashes' = crashes + 1
    /\ pc' = "down" /\ open' = FALSE
    /\ UNCHANGED <<disk, size, max_files, n, len, line, stored, stuck, rotations, failures>>

Start ==
    /\ pc = "down"
    /\ Opened
    /\ pc' = "idle"
    /\ UNCHANGED <<max_files, n, len, line, stored, stuck, rotations, crashes>>

Init ==
    /\ disk = [f \in {} |-> <<>>] /\ stored = <<>>
    /\ open = FALSE /\ size = 0 /\ max_files \in Files
    /\ pc = "down" /\ n = 0 /\ len = 0 /\ line = 0
    /\ stuck = FALSE /\ rotations = 0 /\ failures = 0 /\ crashes = 0

Next ==
    \/ \E m \in Length : WriteLine(m)
    \/ RemoveOldest \/ Rename \/ Reopen \/ OpenMissing \/ Write \/ Flush
    \/ Crash \/ Start

Spec == Init /\ [][Next]_vars

-----------------------------------------------------------------------------
(* Properties.                                                             *)

(* Whatever fails and wherever the process ends, no file holds a line that *)
(* is older than one in a higher-numbered file, or a line a second time    *)
(* (rotate: the order of the renames).                                     *)
LinesInOrder ==
    \A f, g \in DOMAIN disk : \A j \in DOMAIN disk[f], k \in DOMAIN disk[g] :
        f > g \/ (f = g /\ j < k) => disk[f][j].line < disk[g][k].line

\* All that the files hold.
OnDisk == UNION {Range(disk[f]) : f \in DOMAIN disk}

(* Only the oldest lines are ever given up, also when the process ends in  *)
(* the middle of a rotation or opens and writes fail; a rename that fails  *)
(* is the one thing that tears a hole (logfile.rs: the oldest is deleted). *)
OldestLostFirst ==
    stuck \/ \E k \in 1 .. Len(stored) + 1 : OnDisk = {stored[j] : j \in k .. Len(stored)}

(* A file outgrows max_size, or its only line, by no more than that for    *)
(* each call that failed: a rotation that cannot move the live file, a     *)
(* length that is not known, a line half written (write_line).             *)
Bounded == \A f \in DOMAIN disk : Bytes(disk[f]) <= (1 + failures) * Max(Length \cup {MaxSize})

(* Once that many rotations have been, max_files backups exist between two *)
(* lines, but for one per call that failed or crash (rotate).              *)
BackupsKept ==
    pc = "idle" => Cardinality(DOMAIN disk \ {0}) >= Min({rotations, max_files}) - failures - crashes
=============================================================================
