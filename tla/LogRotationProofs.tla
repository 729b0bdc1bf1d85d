-------------------------- MODULE LogRotationProofs --------------------------
(***************************************************************************)
(* Theorems about LogRotation, for every size and number of files, any     *)
(* lines, and any number of failures and crashes.                          *)
(***************************************************************************)
EXTENDS LogRotation, FiniteSetTheorems, SequenceTheorems, WellFoundedInduction, TLAPS

(* The inductive invariant: what the files and the history hold, and when  *)
(* there is a live file; that what is stored is older than the line at     *)
(* hand; that a rename overwrites the oldest backup only; and which        *)
(* backups there should be in the middle of a rotation.                    *)
Entry == [line : Nat, bytes : Nat]

Types ==
    /\ max_files \in Nat /\ DOMAIN disk \subseteq 0 .. max_files
    /\ \A f \in DOMAIN disk : disk[f] \in Seq(Entry)
    /\ stored \in Seq(Entry)
    /\ line \in Nat /\ len \in Nat
    /\ pc \in {"idle", "rotate", "rename", "reopen", "open", "write", "down"}
    /\ pc = "rename" => n \in 0 .. max_files - 1
    /\ rotations \in Nat /\ failures \in Nat /\ crashes \in Nat

LiveFile ==
    /\ open => 0 \in DOMAIN disk /\ pc \in {"idle", "open", "write"}
    /\ pc \in {"rotate", "rename"} => 0 \in DOMAIN disk
    /\ size > 0 /\ pc \in {"idle", "open", "write"} => 0 \in DOMAIN disk

\* The line at hand is not stored yet.
Fresh(x) == IF pc \in {"idle", "down"} THEN x.line <= line ELSE x.line < line
Before ==
    /\ \A f \in DOMAIN disk : \A j \in DOMAIN disk[f] : Fresh(disk[f][j])
    /\ \A j \in DOMAIN stored : Fresh(stored[j])

StoredInOrder == \A j, k \in DOMAIN stored : j < k => stored[j].line < stored[k].line

OverwritesOldest ==
    pc = "rename" /\ ~stuck => n + 1 \notin DOMAIN disk \/ n + 1 = max_files

Required ==
    {p \in 1 .. max_files :
        \/ pc # "rename" /\ p <= rotations
        \/ pc = "rename" /\ p <= n /\ p < rotations
        \/ pc = "rename" /\ p > n + 1 /\ p <= rotations}
Missing == Required \ DOMAIN disk
FewMissing == Cardinality(Missing) <= failures + crashes

LInv ==
    /\ Types /\ LiveFile /\ Before /\ LinesInOrder /\ StoredInOrder
    /\ OverwritesOldest /\ OldestLostFirst /\ FewMissing

-----------------------------------------------------------------------------
(* What the calls of the file system do to the files.                      *)
LEMMA OpenedDisk ==
    ASSUME Types, Opened
    PROVE  /\ open' = TRUE /\ DOMAIN disk' = DOMAIN disk \cup {0} /\ 0 \in DOMAIN disk'
           /\ \A f \in DOMAIN disk : disk'[f] = disk[f]
           /\ 0 \notin DOMAIN disk => disk'[0] = <<>>
           /\ failures' \in Nat /\ failures' >= failures
<1>1. disk' = With(0, Live) /\ open' = TRUE /\ (failures' = failures \/ failures' = failures + 1)
  BY DEF Opened, Works, Fails
<1>2. DOMAIN disk' = DOMAIN disk \cup {0}
  BY <1>1 DEF With
<1>3. \A f \in DOMAIN disk : disk'[f] = disk[f]
  BY <1>1 DEF With, Live
<1>4. 0 \notin DOMAIN disk => disk'[0] = <<>>
  BY <1>1 DEF With, Live
<1> QED BY <1>1, <1>2, <1>3, <1>4 DEF Types

LEMMA AppendedDisk ==
    ASSUME Types, 0 \in DOMAIN disk, NEW bytes \in Nat, Appended(bytes)
    PROVE  LET x == [line |-> line, bytes |-> bytes]
           IN  /\ x \in Entry /\ DOMAIN disk' = DOMAIN disk
               /\ disk'[0] = Append(disk[0], x) /\ stored' = Append(stored, x)
               /\ \A f \in DOMAIN disk \ {0} : disk'[f] = disk[f]
<1>1. [line |-> line, bytes |-> bytes] \in Entry
  BY DEF Types, Entry
<1>2. DOMAIN disk \cup {0} = DOMAIN disk
  OBVIOUS
<1> QED BY <1>1, <1>2 DEF Appended, With

LEMMA GrownSeq ==
    ASSUME NEW S, NEW s \in Seq(S), NEW x \in S
    PROVE  /\ Append(s, x) \in Seq(S) /\ Len(s) \in Nat /\ Len(Append(s, x)) = Len(s) + 1
           /\ DOMAIN s = 1 .. Len(s)
           /\ DOMAIN Append(s, x) = DOMAIN s \cup {Len(s) + 1}
           /\ \A j \in DOMAIN s : Append(s, x)[j] = s[j]
           /\ Append(s, x)[Len(s) + 1] = x
<1>1. Append(s, x) \in Seq(S) /\ Len(Append(s, x)) = Len(s) + 1
  BY AppendProperties
<1>2. DOMAIN s = 1 .. Len(s) /\ DOMAIN Append(s, x) = 1 .. Len(s) + 1 /\ Len(s) \in Nat
  BY <1>1, LenProperties
<1> QED BY <1>1, <1>2, AppendProperties

-----------------------------------------------------------------------------
LEMMA LogInit == Init => LInv
<1> SUFFICES ASSUME Init PROVE LInv
  OBVIOUS
<1>1. DOMAIN disk = {} /\ stored = <<>> /\ pc = "down" /\ DOMAIN stored = {} /\ rotations = 0
  BY DEF Init
<1>2. Types
  BY <1>1, SizeAssumption DEF Init, Types
<1>3. LiveFile /\ Before /\ LinesInOrder /\ StoredInOrder /\ OverwritesOldest
  BY <1>1 DEF Init, LiveFile, Before, LinesInOrder, StoredInOrder, OverwritesOldest
<1>4. OldestLostFirst
  <2>1. Len(stored) = 0 /\ OnDisk = {}
    BY <1>1 DEF OnDisk
  <2>2. 1 \in 1 .. Len(stored) + 1 /\ {stored[j] : j \in 1 .. Len(stored)} = {}
    BY <2>1
  <2> QED BY <2>1, <2>2 DEF OldestLostFirst
<1>5. FewMissing
  <2>1. Missing = {} /\ failures + crashes = 0
    BY <1>1, <1>2 DEF Init, Missing, Required, Types
  <2> QED BY <2>1, FS_EmptySet DEF FewMissing
<1> QED BY <1>2, <1>3, <1>4, <1>5 DEF LInv

\* A step that leaves the files and the history alone.
LEMMA FilesUntouched ==
    ASSUME Types, LinesInOrder, StoredInOrder, OldestLostFirst, UNCHANGED <<disk, stored>>, stuck => stuck'
    PROVE  LinesInOrder' /\ StoredInOrder' /\ OldestLostFirst'
BY DEF LinesInOrder, StoredInOrder, OldestLostFirst, OnDisk

-----------------------------------------------------------------------------
(* How many backups are missing.                                           *)
LEMMA MissingIsFinite ==
    ASSUME Types
    PROVE  IsFiniteSet(Missing) /\ Cardinality(Missing) \in Nat
<1>1. IsFiniteSet(1 .. max_files) /\ Missing \in SUBSET (1 .. max_files)
  BY FS_Interval DEF Types, Missing, Required
<1> QED BY <1>1, FS_Subset, FS_CardinalityType

LEMMA SumOfNats == \A a, b \in Nat : a + b \in Nat
OBVIOUS

LEMMA SumsGrow == \A a, b, c \in Nat : c >= a => c + b >= a + b
OBVIOUS

\* One more may be missing when a call fails or the process ends.
LEMMA OneMoreMissing ==
    ASSUME Types, Types', FewMissing, NEW p,
           \/ Missing' \subseteq Missing /\ failures' + crashes' >= failures + crashes
           \/ Missing' \subseteq Missing \cup {p} /\ failures' + crashes' >= failures + crashes + 1
           \/ /\ p \in Missing /\ failures' + crashes' >= failures + crashes
              /\ \E q : Missing' \subseteq (Missing \ {p}) \cup {q}
    PROVE  FewMissing'
<1>1. IsFiniteSet(Missing) /\ Cardinality(Missing) \in Nat /\ Cardinality(Missing) <= failures + crashes
      /\ failures + crashes \in Nat /\ failures' + crashes' \in Nat
  <2>1. failures \in Nat /\ crashes \in Nat /\ failures' \in Nat /\ crashes' \in Nat
    BY DEF Types
  <2>2. Cardinality(Missing) <= failures + crashes
    BY DEF FewMissing
  <2>3. IsFiniteSet(Missing) /\ Cardinality(Missing) \in Nat
    BY MissingIsFinite
  <2>4. failures + crashes \in Nat /\ failures' + crashes' \in Nat
    BY <2>1, SumOfNats, Zenon
  <2> QED BY <2>2, <2>3, <2>4, Zenon
<1>2. ASSUME NEW T, IsFiniteSet(T), Missing' \in SUBSET T, Cardinality(T) <= failures' + crashes'
      PROVE  FewMissing'
  BY <1>1, <1>2, FS_Subset, FS_CardinalityType DEF FewMissing
<1>3. CASE Missing' \subseteq Missing /\ failures' + crashes' >= failures + crashes
  BY <1>1, <1>2, <1>3
<1>4. CASE Missing' \subseteq Missing \cup {p} /\ failures' + crashes' >= failures + crashes + 1
  <2>1. IsFiniteSet(Missing \cup {p}) /\ Cardinality(Missing \cup {p}) <= Cardinality(Missing) + 1
        /\ Cardinality(Missing \cup {p}) \in Nat
    <3>1. IsFiniteSet(Missing \cup {p})
      BY <1>1, FS_AddElement
    <3>2. Cardinality(Missing \cup {p}) = IF p \in Missing THEN Cardinality(Missing)
                                          ELSE Cardinality(Missing) + 1
      BY <1>1, FS_AddElement
    <3> QED BY <1>1, <3>1, <3>2, FS_CardinalityType
  <2> QED BY <1>1, <1>2, <1>4, <2>1
<1>5. ASSUME p \in Missing, failures' + crashes' >= failures + crashes,
             NEW q, Missing' \subseteq (Missing \ {p}) \cup {q}
      PROVE  FewMissing'
  <2>1. IsFiniteSet(Missing \ {p}) /\ Cardinality(Missing \ {p}) = Cardinality(Missing) - 1
    BY <1>1, <1>5, FS_RemoveElement
  <2>2. IsFiniteSet((Missing \ {p}) \cup {q})
        /\ Cardinality((Missing \ {p}) \cup {q}) <= Cardinality(Missing \ {p}) + 1
        /\ Cardinality((Missing \ {p}) \cup {q}) \in Nat
    <3>1. IsFiniteSet((Missing \ {p}) \cup {q})
      BY <2>1, FS_AddElement
    <3>2. Cardinality((Missing \ {p}) \cup {q}) = IF q \in Missing \ {p} THEN Cardinality(Missing \ {p})
                                                 ELSE Cardinality(Missing \ {p}) + 1
      BY <2>1, FS_AddElement
    <3> QED BY <1>1, <2>1, <3>1, <3>2, FS_CardinalityType
  <2> QED BY <1>1, <1>2, <1>5, <2>1, <2>2
<1> QED BY <1>3, <1>4, <1>5

-----------------------------------------------------------------------------
(* Lines, and what is on disk.                                             *)
LEMMA EntryOnDisk ==
    ASSUME Types, NEW f \in DOMAIN disk
    PROVE  /\ Len(disk[f]) \in Nat /\ DOMAIN disk[f] = 1 .. Len(disk[f])
           /\ \A j \in DOMAIN disk[f] : disk[f][j] \in Entry /\ disk[f][j].line \in Nat
<1>1. disk[f] \in Seq(Entry)
  BY DEF Types
<1>2. Len(disk[f]) \in Nat /\ DOMAIN disk[f] = 1 .. Len(disk[f])
  BY <1>1, LenProperties
<1>3. \A j \in DOMAIN disk[f] : disk[f][j] \in Entry
  BY <1>1, <1>2, ElementOfSeq
<1> QED BY <1>2, <1>3 DEF Entry

LEMMA EntryStored ==
    ASSUME Types
    PROVE  /\ Len(stored) \in Nat /\ DOMAIN stored = 1 .. Len(stored)
           /\ \A j \in DOMAIN stored : stored[j] \in Entry /\ stored[j].line \in Nat
<1>1. stored \in Seq(Entry)
  BY DEF Types
<1>2. Len(stored) \in Nat /\ DOMAIN stored = 1 .. Len(stored)
  BY <1>1, LenProperties
<1>3. \A j \in DOMAIN stored : stored[j] \in Entry
  BY <1>1, <1>2, ElementOfSeq
<1> QED BY <1>2, <1>3 DEF Entry

\* Without its oldest file, the disk still holds the last of what was stored.
LEMMA OldestGoes ==
    ASSUME Types, LinesInOrder, StoredInOrder, NEW f \in DOMAIN disk, \A g \in DOMAIN disk : g <= f,
           NEW k \in 1 .. Len(stored) + 1, OnDisk = {stored[j] : j \in k .. Len(stored)}
    PROVE  \E i \in 1 .. Len(stored) + 1 :
               UNION {Range(disk[g]) : g \in DOMAIN disk \ {f}} = {stored[j] : j \in i .. Len(stored)}
<1> DEFINE Rest == UNION {Range(disk[g]) : g \in DOMAIN disk \ {f}}
           last == Len(disk[f])
<1>1. last \in Nat /\ DOMAIN disk[f] = 1 .. last /\ \A j \in DOMAIN disk[f] : disk[f][j].line \in Nat
  BY EntryOnDisk
<1>2. Len(stored) \in Nat /\ DOMAIN stored = 1 .. Len(stored) /\ \A j \in DOMAIN stored : stored[j].line \in Nat
  BY EntryStored
<1>3. CASE last = 0
  <2>1. Range(disk[f]) = {}
    BY <1>1, <1>3 DEF Range
  <2>2. Rest = OnDisk
    BY <2>1 DEF OnDisk
  <2> QED BY <2>2
<1>4. CASE last > 0
  <2> DEFINE x == disk[f][last]
  <2>1. last \in DOMAIN disk[f] /\ x \in OnDisk /\ x.line \in Nat
    BY <1>1, <1>4 DEF OnDisk, Range
  <2>2. PICK i \in k .. Len(stored) : stored[i] = x
    BY <2>1
  <2>3. i \in DOMAIN stored /\ i + 1 \in 1 .. Len(stored) + 1
    BY <1>2, <2>2
  <2>4. \A y \in Range(disk[f]) : y.line <= x.line
    <3>1. ASSUME NEW j \in DOMAIN disk[f] PROVE disk[f][j].line <= x.line
      <4>1. j = last \/ j < last
        BY <1>1
      <4>2. j < last => disk[f][j].line < x.line
        BY <2>1 DEF LinesInOrder
      <4> QED BY <1>1, <2>1, <4>1, <4>2
    <3> QED BY <3>1 DEF Range
  <2>5. \A y \in Rest : y.line > x.line /\ y.line \in Nat
    <3>1. ASSUME NEW g \in DOMAIN disk \ {f}, NEW j \in DOMAIN disk[g] PROVE disk[g][j].line > x.line
      <4>1. f \in Int /\ g \in Int /\ g <= f
        BY DEF Types
      <4>2. x.line < disk[g][j].line
        BY <2>1, <4>1 DEF LinesInOrder
      <4>3. disk[g][j].line \in Nat
        BY EntryOnDisk
      <4> QED BY <2>1, <4>2, <4>3
    <3>2. \A g \in DOMAIN disk : \A j \in DOMAIN disk[g] : disk[g][j].line \in Nat
      BY EntryOnDisk
    <3> QED BY <3>1, <3>2 DEF Range
  <2> HIDE DEF x
  <2>6. ASSUME NEW y \in Rest PROVE y \in {stored[j] : j \in i + 1 .. Len(stored)}
    <3>1. y \in OnDisk
      BY DEF OnDisk
    <3>2. PICK j \in k .. Len(stored) : stored[j] = y
      BY <3>1
    <3>3. j \in DOMAIN stored /\ j \in Int /\ i \in Int /\ k \in Int
      BY <1>2, <2>3, <3>2
    <3>4. y.line > x.line /\ y.line \in Nat
      BY <2>5
    <3>5. j # i
      BY <2>1, <2>2, <3>2, <3>4
    <3>6. ~(j < i)
      <4>1. j < i => stored[j].line < stored[i].line
        BY <2>3, <3>3 DEF StoredInOrder
      <4> QED BY <2>1, <2>2, <3>2, <3>4, <4>1
    <3>7. j \in i + 1 .. Len(stored)
      BY <1>2, <3>2, <3>3, <3>5, <3>6
    <3> QED BY <3>2, <3>7
  <2>7. ASSUME NEW j \in i + 1 .. Len(stored) PROVE stored[j] \in Rest
    <3>1. j \in k .. Len(stored) /\ j \in DOMAIN stored /\ i < j /\ k \in Int
      BY <1>2, <2>2, <2>3
    <3>2. stored[j] \in OnDisk
      BY <3>1
    <3>3. PICK g \in DOMAIN disk : stored[j] \in Range(disk[g])
      BY <3>2 DEF OnDisk
    <3>4. stored[i].line < stored[j].line
      BY <2>3, <3>1 DEF StoredInOrder
    <3>5. g # f
      BY <1>2, <2>1, <2>2, <2>4, <3>1, <3>3, <3>4
    <3> QED BY <3>3, <3>5
  <2>8. Rest = {stored[j] : j \in i + 1 .. Len(stored)}
    BY <2>6, <2>7
  <2> QED BY <2>3, <2>8
<1> QED BY <1>1, <1>3, <1>4

-----------------------------------------------------------------------------
(* The steps that open the live file, or leave all files alone.            *)
LEMMA OpenedKeeps ==
    ASSUME Types, LinesInOrder, StoredInOrder, OldestLostFirst, Opened, UNCHANGED <<stored, stuck, max_files>>
    PROVE  /\ LinesInOrder' /\ StoredInOrder' /\ OldestLostFirst'
           /\ DOMAIN disk' \subseteq 0 .. max_files /\ \A f \in DOMAIN disk' : disk'[f] \in Seq(Entry)
           /\ DOMAIN disk \subseteq DOMAIN disk'
           /\ \A f \in DOMAIN disk' : \A j \in DOMAIN disk'[f] : f \in DOMAIN disk /\ disk'[f] = disk[f]
<1>1. /\ DOMAIN disk' = DOMAIN disk \cup {0} /\ \A f \in DOMAIN disk : disk'[f] = disk[f]
      /\ 0 \notin DOMAIN disk => disk'[0] = <<>>
  BY OpenedDisk
<1>2. DOMAIN disk' \subseteq 0 .. max_files
  BY <1>1 DEF Types
<1>3. <<>> \in Seq(Entry) /\ DOMAIN <<>> = {}
  OBVIOUS
<1>4. \A f \in DOMAIN disk' : disk'[f] \in Seq(Entry)
  BY <1>1, <1>3 DEF Types
<1>5. \A f \in DOMAIN disk' : \A j \in DOMAIN disk'[f] : f \in DOMAIN disk /\ disk'[f] = disk[f]
  BY <1>1, <1>3
<1>6. LinesInOrder' /\ StoredInOrder'
  BY <1>5 DEF LinesInOrder, StoredInOrder
<1>7. OnDisk' = OnDisk
  <2>1. \A f \in DOMAIN disk' : Range(disk'[f]) \subseteq OnDisk
    BY <1>5 DEF OnDisk, Range
  <2>2. \A f \in DOMAIN disk : f \in DOMAIN disk' /\ Range(disk[f]) = Range(disk'[f])
    BY <1>1
  <2> QED BY <2>1, <2>2 DEF OnDisk
<1>8. OldestLostFirst'
  BY <1>7 DEF OldestLostFirst
<1> QED BY <1>1, <1>2, <1>4, <1>5, <1>6, <1>8

\* What is not on disk, when no file goes and no rotation is in between.
LEMMA NoFileGoes ==
    ASSUME Types, Types', FewMissing, pc # "rename", pc' # "rename", DOMAIN disk \subseteq DOMAIN disk',
           UNCHANGED <<max_files, rotations, crashes>>, failures' >= failures
    PROVE  FewMissing'
<1>1. Missing' \subseteq Missing
  BY DEF Missing, Required
<1>2. failures' + crashes' >= failures + crashes
  <2>1. failures \in Nat /\ crashes \in Nat /\ failures' \in Nat /\ crashes' = crashes
    BY DEF Types
  <2> QED BY <2>1, SumsGrow, Zenon
<1> QED BY <1>1, <1>2, OneMoreMissing

LEMMA StaysBefore ==
    ASSUME Types, Before, UNCHANGED <<disk, stored>>, \A x \in Entry : Fresh(x) => Fresh(x)'
    PROVE  Before'
<1>1. ASSUME NEW f \in DOMAIN disk, NEW j \in DOMAIN disk[f] PROVE Fresh(disk[f][j])'
  <2>1. PICK x \in Entry : x = disk[f][j] /\ Fresh(x)
    BY EntryOnDisk DEF Before
  <2>2. Fresh(x)' /\ x = disk'[f][j]
    BY <2>1
  <2> QED BY <2>2 DEF Fresh
<1>2. ASSUME NEW j \in DOMAIN stored PROVE Fresh(stored[j])'
  BY EntryStored DEF Before
<1> QED BY <1>1, <1>2 DEF Before

LEMMA WriteLineStep ==
    ASSUME LInv, NEW m \in Length, WriteLine(m)
    PROVE  LInv'
<1>1. /\ Types /\ LiveFile /\ Before /\ LinesInOrder /\ StoredInOrder
      /\ OverwritesOldest /\ OldestLostFirst /\ FewMissing
  BY DEF LInv
<1>2. /\ pc = "idle" /\ line' = line + 1 /\ len' = m /\ m \in Nat
      /\ UNCHANGED <<disk, size, max_files, n, stored, stuck, rotations, failures, crashes>>
      /\ \/ size > 0 /\ pc' = "rotate" /\ open' = FALSE
         \/ pc' = "open" /\ open' = open
  BY SizeAssumption DEF WriteLine, TooLong, history
<1>3. Types'
  BY <1>1, <1>2 DEF Types
<1>4. LiveFile'
  BY <1>1, <1>2 DEF LiveFile
<1>5. Before'
  <2>1. \A x \in Entry : Fresh(x) => Fresh(x)'
    BY <1>1, <1>2 DEF Types, Fresh, Entry
  <2> QED BY <1>1, <1>2, <2>1, StaysBefore
<1>6. LinesInOrder' /\ StoredInOrder' /\ OldestLostFirst'
  BY <1>1, <1>2, FilesUntouched
<1>7. OverwritesOldest'
  BY <1>2 DEF OverwritesOldest
<1>8. FewMissing'
  <2>1. pc # "rename" /\ pc' # "rename" /\ failures' >= failures
    BY <1>1, <1>2 DEF Types
  <2> QED BY <1>1, <1>2, <1>3, <2>1, NoFileGoes
<1> QED BY <1>3, <1>4, <1>5, <1>6, <1>7, <1>8 DEF LInv

\* Reopen, OpenMissing and Start, whether the call works or fails.
LEMMA OpensStep ==
    ASSUME LInv, Reopen \/ OpenMissing \/ Start
    PROVE  LInv'
<1>1. /\ Types /\ LiveFile /\ Before /\ LinesInOrder /\ StoredInOrder
      /\ OverwritesOldest /\ OldestLostFirst /\ FewMissing
  BY DEF LInv
<1>2. /\ \/ pc = "reopen" /\ pc' = "open"
         \/ pc = "open" /\ pc' = "write"
         \/ pc = "down" /\ pc' = "idle"
      /\ UNCHANGED <<max_files, n, len, line, stored, stuck, rotations, crashes>>
      /\ \/ Opened
         \/ /\ disk' = disk /\ open' = open
            /\ \/ failures' = failures \/ failures' = failures + 1
            /\ size' = 0 \/ (pc = "open" /\ size' = size)
  BY DEF Reopen, OpenMissing, Start, Fails
<1>3. CASE Opened
  <2>1. /\ open' = TRUE /\ 0 \in DOMAIN disk' /\ failures' \in Nat /\ failures' >= failures
    BY <1>1, <1>3, OpenedDisk
  <2>2. /\ LinesInOrder' /\ StoredInOrder' /\ OldestLostFirst'
        /\ DOMAIN disk' \subseteq 0 .. max_files /\ \A f \in DOMAIN disk' : disk'[f] \in Seq(Entry)
        /\ DOMAIN disk \subseteq DOMAIN disk'
        /\ \A f \in DOMAIN disk' : \A j \in DOMAIN disk'[f] : f \in DOMAIN disk /\ disk'[f] = disk[f]
    BY <1>1, <1>2, <1>3, OpenedKeeps
  <2>3. Types'
    BY <1>1, <1>2, <2>1, <2>2 DEF Types
  <2>4. LiveFile'
    <3>1. pc' \in {"idle", "open", "write"}
      BY <1>2
    <3> QED BY <2>1, <3>1 DEF LiveFile
  <2>5. Before'
    <3>1. \A x : Fresh(x)' <=> Fresh(x)
      BY <1>2 DEF Fresh
    <3> QED BY <1>1, <1>2, <2>2, <3>1 DEF Before
  <2>6. OverwritesOldest'
    BY <1>2 DEF OverwritesOldest
  <2>7. FewMissing'
    <3>1. pc # "rename" /\ pc' # "rename"
      BY <1>2
    <3> QED BY <1>1, <1>2, <2>1, <2>2, <2>3, <3>1, NoFileGoes
  <2> QED BY <2>2, <2>3, <2>4, <2>5, <2>6, <2>7 DEF LInv
<1>4. CASE /\ disk' = disk /\ open' = open
           /\ \/ failures' = failures \/ failures' = failures + 1
           /\ size' = 0 \/ (pc = "open" /\ size' = size)
  <2>1. Types'
    BY <1>1, <1>2, <1>4 DEF Types
  <2>2. LiveFile'
    BY <1>1, <1>2, <1>4 DEF LiveFile
  <2>3. Before'
    <3>1. \A x : Fresh(x)' <=> Fresh(x)
      BY <1>2 DEF Fresh
    <3> QED BY <1>1, <1>2, <1>4, <3>1 DEF Before
  <2>4. LinesInOrder' /\ StoredInOrder' /\ OldestLostFirst'
    BY <1>1, <1>2, <1>4, FilesUntouched
  <2>5. OverwritesOldest'
    BY <1>2 DEF OverwritesOldest
  <2>6. FewMissing'
    <3>1. pc # "rename" /\ pc' # "rename" /\ failures' >= failures
      BY <1>1, <1>2, <1>4 DEF Types
    <3> QED BY <1>1, <1>2, <1>4, <2>1, <3>1, NoFileGoes
  <2> QED BY <2>1, <2>2, <2>3, <2>4, <2>5, <2>6 DEF LInv
<1> QED BY <1>2, <1>3, <1>4

LEMMA CrashStep ==
    ASSUME LInv, Crash
    PROVE  LInv'
<1>1. /\ Types /\ LiveFile /\ Before /\ LinesInOrder /\ StoredInOrder
      /\ OverwritesOldest /\ OldestLostFirst /\ FewMissing
  BY DEF LInv
<1>2. /\ pc # "down" /\ pc' = "down" /\ open' = FALSE /\ crashes' = crashes + 1
      /\ UNCHANGED <<disk, max_files, n, len, line, stored, stuck, rotations, failures>>
  BY DEF Crash
<1>3. Types'
  BY <1>1, <1>2 DEF Types
<1>4. LiveFile' /\ OverwritesOldest'
  BY <1>2 DEF LiveFile, OverwritesOldest
<1>5. Before'
  <2>1. \A x \in Entry : Fresh(x) => Fresh(x)'
    BY <1>1, <1>2 DEF Types, Fresh, Entry
  <2> QED BY <1>1, <1>2, <2>1, StaysBefore
<1>6. LinesInOrder' /\ StoredInOrder' /\ OldestLostFirst'
  BY <1>1, <1>2, FilesUntouched
<1>7. FewMissing'
  <2>1. failures' + crashes' >= failures + crashes + 1
    BY <1>1, <1>2 DEF Types
  <2>2. \E p : Missing' \subseteq Missing \cup {p}
    <3>1. CASE pc # "rename"
      BY <1>2, <3>1 DEF Missing, Required
    <3>2. CASE pc = "rename" /\ n + 1 <= rotations
      <4>1. Missing' \subseteq Missing \cup {n + 1}
        BY <1>1, <1>2, <3>2 DEF Missing, Required, Types
      <4> QED BY <4>1
    <3>3. CASE pc = "rename" /\ ~(n + 1 <= rotations)
      <4>1. Missing' \subseteq Missing \cup {rotations}
        BY <1>1, <1>2, <3>3 DEF Missing, Required, Types
      <4> QED BY <4>1
    <3> QED BY <3>1, <3>2, <3>3
  <2> QED BY <1>1, <1>3, <2>1, <2>2, OneMoreMissing
<1> QED BY <1>3, <1>4, <1>5, <1>6, <1>7 DEF LInv

-----------------------------------------------------------------------------
LEMMA WriteStep ==
    ASSUME LInv, Write
    PROVE  LInv'
<1>1. /\ Types /\ LiveFile /\ Before /\ LinesInOrder /\ StoredInOrder
      /\ OverwritesOldest /\ OldestLostFirst /\ FewMissing
  BY DEF LInv
<1>2. /\ pc = "write" /\ pc' = "idle"
      /\ UNCHANGED <<open, max_files, n, len, line, stuck, rotations, crashes>>
      /\ failures' = failures \/ failures' = failures + 1
      /\ \/ open /\ \E bytes \in Nat : Appended(bytes)
         \/ UNCHANGED <<disk, size, stored>>
  BY <1>1 DEF Write, Works, Fails, Types
<1>3. failures' \in Nat /\ failures' >= failures
  BY <1>1, <1>2 DEF Types
<1>4. \A x \in Entry : Fresh(x) => Fresh(x)'
  BY <1>1, <1>2 DEF Types, Fresh, Entry
<1>5. OverwritesOldest'
  BY <1>2 DEF OverwritesOldest
<1>6. CASE UNCHANGED <<disk, size, stored>>
  <2>1. Types'
    BY <1>1, <1>2, <1>3, <1>6 DEF Types
  <2>2. LiveFile'
    BY <1>1, <1>2, <1>6 DEF LiveFile
  <2>3. Before'
    BY <1>1, <1>4, <1>6, StaysBefore
  <2>4. LinesInOrder' /\ StoredInOrder' /\ OldestLostFirst'
    BY <1>1, <1>2, <1>6, FilesUntouched
  <2>5. FewMissing'
    BY <1>1, <1>2, <1>3, <1>6, <2>1, NoFileGoes
  <2> QED BY <1>5, <2>1, <2>2, <2>3, <2>4, <2>5 DEF LInv
<1>7. ASSUME open, NEW bytes \in Nat, Appended(bytes) PROVE LInv'
  <2> DEFINE new == [line |-> line, bytes |-> bytes]
             m == Len(disk[0]) + 1
             l == Len(stored) + 1
  <2>1. 0 \in DOMAIN disk
    BY <1>1, <1>7 DEF LiveFile
  <2>2. /\ new \in Entry /\ DOMAIN disk' = DOMAIN disk
        /\ disk'[0] = Append(disk[0], new) /\ stored' = Append(stored, new)
        /\ \A f \in DOMAIN disk \ {0} : disk'[f] = disk[f]
    BY <1>1, <1>7, <2>1, AppendedDisk
  <2>3. /\ disk'[0] \in Seq(Entry) /\ DOMAIN disk[0] = 1 .. m - 1 /\ m \in Nat
        /\ DOMAIN disk'[0] = DOMAIN disk[0] \cup {m} /\ m \notin DOMAIN disk[0]
        /\ \A j \in DOMAIN disk[0] : disk'[0][j] = disk[0][j] /\ j < m
        /\ disk'[0][m] = new
    <3>1. disk[0] \in Seq(Entry)
      BY <1>1, <2>1 DEF Types
    <3>2. /\ disk'[0] \in Seq(Entry) /\ Len(disk[0]) \in Nat /\ DOMAIN disk[0] = 1 .. Len(disk[0])
          /\ DOMAIN disk'[0] = DOMAIN disk[0] \cup {Len(disk[0]) + 1}
          /\ \A j \in DOMAIN disk[0] : disk'[0][j] = disk[0][j]
          /\ disk'[0][Len(disk[0]) + 1] = new
      BY <2>2, <3>1, GrownSeq
    <3> QED BY <3>2
  <2>4. /\ stored' \in Seq(Entry) /\ DOMAIN stored = 1 .. l - 1 /\ l \in Nat
        /\ Len(stored') = l
        /\ DOMAIN stored' = DOMAIN stored \cup {l} /\ l \notin DOMAIN stored
        /\ \A j \in DOMAIN stored : stored'[j] = stored[j] /\ j < l
        /\ stored'[l] = new
    <3>1. stored \in Seq(Entry)
      BY <1>1 DEF Types
    <3>2. /\ stored' \in Seq(Entry) /\ Len(stored) \in Nat /\ Len(stored') = Len(stored) + 1
          /\ DOMAIN stored = 1 .. Len(stored)
          /\ DOMAIN stored' = DOMAIN stored \cup {Len(stored) + 1}
          /\ \A j \in DOMAIN stored : stored'[j] = stored[j]
          /\ stored'[Len(stored) + 1] = new
      BY <2>2, <3>1, GrownSeq
    <3> QED BY <3>2
  <2>5. new.line = line
    OBVIOUS
  <2> HIDE DEF new, m
  <2>6. \A f \in DOMAIN disk : \A j \in DOMAIN disk[f] :
            disk'[f][j] = disk[f][j] /\ j \in DOMAIN disk'[f] /\ disk[f][j].line < line
    BY <1>1, <1>2, <2>2, <2>3 DEF Before, Fresh
  <2>7. \A f \in DOMAIN disk : \A j \in DOMAIN disk'[f] : j \in DOMAIN disk[f] \/ (f = 0 /\ j = m)
    BY <2>2, <2>3
  <2>8. Types'
    <3>1. \A f \in DOMAIN disk' : disk'[f] \in Seq(Entry)
      BY <1>1, <2>2, <2>3 DEF Types
    <3> QED BY <1>1, <1>2, <1>3, <2>2, <2>4, <3>1 DEF Types
  <2>9. LiveFile'
    BY <1>2, <2>1, <2>2 DEF LiveFile
  <2>10. Before'
    <3>1. line \in Nat
      BY <1>1 DEF Types
    <3>2. ASSUME NEW f \in DOMAIN disk', NEW j \in DOMAIN disk'[f] PROVE disk'[f][j].line <= line
      <4>1. CASE j \in DOMAIN disk[f]
        <5>1. disk[f][j].line \in Nat
          BY <1>1, <2>2, <4>1, EntryOnDisk
        <5> QED BY <2>2, <2>6, <3>1, <4>1, <5>1
      <4>2. CASE f = 0 /\ j = m
        BY <2>3, <2>5, <3>1, <4>2
      <4> QED BY <2>2, <2>7, <4>1, <4>2
    <3>3. ASSUME NEW j \in DOMAIN stored' PROVE stored'[j].line <= line
      <4>1. CASE j \in DOMAIN stored
        <5>1. stored[j].line \in Nat /\ stored[j].line < line
          BY <1>1, <1>2, <4>1, EntryStored DEF Before, Fresh
        <5> QED BY <2>4, <3>1, <4>1, <5>1
      <4>2. CASE j = l
        BY <2>4, <2>5, <3>1, <4>2
      <4> QED BY <2>4, <4>1, <4>2
    <3> QED BY <1>2, <3>2, <3>3 DEF Before, Fresh
  <2>11. LinesInOrder'
    <3> SUFFICES ASSUME NEW f \in DOMAIN disk, NEW g \in DOMAIN disk,
                        NEW j \in DOMAIN disk'[f], NEW k \in DOMAIN disk'[g],
                        f > g \/ (f = g /\ j < k)
                 PROVE  disk'[f][j].line < disk'[g][k].line
      BY <2>2 DEF LinesInOrder
    <3>1. j \in DOMAIN disk[f]
      <4>1. CASE f = 0 /\ j = m
        <5>1. g = 0
          BY <1>1, <4>1 DEF Types
        <5>2. k \in DOMAIN disk[0] \/ k = m
          BY <2>7, <5>1
        <5> QED BY <2>3, <4>1, <5>1, <5>2
      <4> QED BY <2>7, <4>1
    <3>2. CASE k \in DOMAIN disk[g]
      BY <1>1, <2>6, <3>1, <3>2 DEF LinesInOrder
    <3>3. CASE g = 0 /\ k = m
      BY <2>3, <2>5, <2>6, <3>1, <3>3
    <3> QED BY <2>7, <3>2, <3>3
  <2>12. StoredInOrder'
    <3> SUFFICES ASSUME NEW j \in DOMAIN stored', NEW k \in DOMAIN stored', j < k
                 PROVE  stored'[j].line < stored'[k].line
      BY DEF StoredInOrder
    <3>1. j \in DOMAIN stored
      BY <2>4
    <3>2. CASE k \in DOMAIN stored
      BY <1>1, <2>4, <3>1, <3>2 DEF StoredInOrder
    <3>3. CASE k = l
      BY <1>1, <1>2, <2>4, <2>5, <3>1, <3>3 DEF Before, Fresh
    <3> QED BY <2>4, <3>2, <3>3
  <2>13. OldestLostFirst'
    <3> SUFFICES ASSUME ~stuck PROVE OldestLostFirst'
      BY <1>2 DEF OldestLostFirst
    <3>1. PICK k \in 1 .. Len(stored) + 1 : OnDisk = {stored[j] : j \in k .. Len(stored)}
      BY <1>1 DEF OldestLostFirst
    <3>2. OnDisk' = OnDisk \cup {new}
      <4>1. \A f \in DOMAIN disk : Range(disk'[f]) \subseteq OnDisk \cup {new}
        BY <2>3, <2>6, <2>7 DEF OnDisk, Range
      <4>2. \A f \in DOMAIN disk : Range(disk[f]) \subseteq Range(disk'[f])
        BY <2>6 DEF Range
      <4>3. new \in Range(disk'[0])
        BY <2>3 DEF Range
      <4> QED BY <2>1, <2>2, <4>1, <4>2, <4>3 DEF OnDisk
    <3>3. {stored'[j] : j \in k .. l} = {stored[j] : j \in k .. Len(stored)} \cup {new}
      <4>1. k .. l = (k .. Len(stored)) \cup {l} /\ k .. Len(stored) \subseteq DOMAIN stored
        BY <2>4, <3>1
      <4> QED BY <2>4, <4>1
    <3>4. k \in 1 .. Len(stored') + 1
      BY <2>4, <3>1
    <3>5. OnDisk' = {stored'[j] : j \in k .. Len(stored')}
      BY <2>4, <3>1, <3>2, <3>3
    <3> QED BY <3>4, <3>5 DEF OldestLostFirst
  <2>14. FewMissing'
    BY <1>1, <1>2, <1>3, <2>2, <2>8, NoFileGoes
  <2> QED BY <1>5, <2>8, <2>9, <2>10, <2>11, <2>12, <2>13, <2>14 DEF LInv
<1> QED BY <1>2, <1>6, <1>7

-----------------------------------------------------------------------------
LEMMA RemoveOldestStep ==
    ASSUME LInv, RemoveOldest
    PROVE  LInv'
<1>1. /\ Types /\ LiveFile /\ Before /\ LinesInOrder /\ StoredInOrder
      /\ OverwritesOldest /\ OldestLostFirst /\ FewMissing
  BY DEF LInv
<1>2. /\ pc = "rotate" /\ n' = max_files - 1 /\ rotations' = rotations + 1
      /\ \/ max_files = 0 /\ pc' = "reopen"
         \/ max_files # 0 /\ pc' = "rename"
      /\ UNCHANGED <<open, size, max_files, len, line, stored, stuck, crashes>>
      /\ failures' = failures \/ failures' = failures + 1
      /\ disk' = Without(max_files) \/ disk' = disk
  BY DEF RemoveOldest, Works, Fails, Oldest, inner
<1>3. failures' \in Nat /\ failures' >= failures /\ max_files \in Nat
  BY <1>1, <1>2 DEF Types
<1>4. /\ DOMAIN disk' \subseteq DOMAIN disk /\ DOMAIN disk \ {max_files} \subseteq DOMAIN disk'
      /\ \A f \in DOMAIN disk' : disk'[f] = disk[f]
  BY <1>2 DEF Without
<1>5. Types'
  <2>1. pc' = "rename" => n' \in 0 .. max_files - 1
    BY <1>2, <1>3
  <2> QED BY <1>1, <1>2, <1>3, <1>4, <2>1 DEF Types
<1>6. LiveFile'
  BY <1>1, <1>2, <1>4 DEF LiveFile
<1>7. Before' /\ LinesInOrder' /\ StoredInOrder'
  BY <1>1, <1>2, <1>4 DEF Before, Fresh, LinesInOrder, StoredInOrder
<1>8. OverwritesOldest'
  BY <1>2, <1>3 DEF OverwritesOldest
<1>9. OldestLostFirst'
  <2>1. CASE DOMAIN disk' = DOMAIN disk
    <3>1. OnDisk' = OnDisk
      BY <1>4, <2>1 DEF OnDisk
    <3> QED BY <1>1, <1>2, <3>1 DEF OldestLostFirst
  <2>2. CASE DOMAIN disk' # DOMAIN disk
    <3>1. max_files \in DOMAIN disk /\ DOMAIN disk' = DOMAIN disk \ {max_files}
      BY <1>2, <1>4, <2>2 DEF Without
    <3>2. \A g \in DOMAIN disk : g <= max_files
      BY <1>1 DEF Types
    <3>3. OnDisk' = UNION {Range(disk[g]) : g \in DOMAIN disk \ {max_files}}
      BY <1>4, <3>1 DEF OnDisk
    <3>4. SUFFICES ASSUME ~stuck PROVE OldestLostFirst'
      BY <1>2 DEF OldestLostFirst
    <3>5. PICK k \in 1 .. Len(stored) + 1 : OnDisk = {stored[j] : j \in k .. Len(stored)}
      BY <1>1, <3>4 DEF OldestLostFirst
    <3>6. \E i \in 1 .. Len(stored) + 1 :
              UNION {Range(disk[g]) : g \in DOMAIN disk \ {max_files}} = {stored[j] : j \in i .. Len(stored)}
      BY <1>1, <3>1, <3>2, <3>5, OldestGoes
    <3> QED BY <1>2, <3>3, <3>6 DEF OldestLostFirst
  <2> QED BY <2>1, <2>2
<1>10. FewMissing'
  <2>1. Missing' \subseteq Missing
    <3>1. \A p \in 1 .. max_files : p # max_files /\ p \notin DOMAIN disk' => p \notin DOMAIN disk
      BY <1>4
    <3>2. \A p \in Required' : p \in Required /\ p # max_files
      BY <1>1, <1>2, <1>3 DEF Required, Types
    <3>3. Required \subseteq 1 .. max_files
      BY DEF Required
    <3> QED BY <3>1, <3>2, <3>3 DEF Missing
  <2>2. failures' + crashes' >= failures + crashes
    <3>1. failures \in Nat /\ crashes \in Nat /\ crashes' = crashes
      BY <1>1, <1>2 DEF Types
    <3> QED BY <1>3, <3>1, SumsGrow, Zenon
  <2> QED BY <1>1, <1>5, <2>1, <2>2, OneMoreMissing
<1> QED BY <1>5, <1>6, <1>7, <1>8, <1>9, <1>10 DEF LInv

-----------------------------------------------------------------------------
LEMMA RenameStep ==
    ASSUME LInv, Rename
    PROVE  LInv'
<1>1. /\ Types /\ LiveFile /\ Before /\ LinesInOrder /\ StoredInOrder
      /\ OverwritesOldest /\ OldestLostFirst /\ FewMissing
  BY DEF LInv
<1>2. /\ pc = "rename"
      /\ UNCHANGED <<open, size, max_files, len, line, stored, rotations, crashes>>
      /\ \/ n > 0 /\ n' = n - 1 /\ pc' = "rename"
         \/ n = 0 /\ n' = n /\ pc' = "reopen"
      /\ \/ failures' = failures /\ disk' = Renamed(n, n + 1) /\ stuck' = stuck
         \/ failures' = failures + 1 /\ disk' = disk /\ stuck' = (stuck \/ n \in DOMAIN disk)
  BY DEF Rename, Works, Fails, inner
<1>3. n \in 0 .. max_files - 1 /\ max_files \in Nat /\ 0 \in DOMAIN disk /\ DOMAIN disk \subseteq 0 .. max_files
  BY <1>1, <1>2 DEF Types, LiveFile
<1>11. n \in Int /\ n # n + 1
  BY <1>3
<1>12. n \in DOMAIN disk =>
          /\ DOMAIN Renamed(n, n + 1) = (DOMAIN disk \ {n}) \cup {n + 1}
          /\ Renamed(n, n + 1)[n + 1] = disk[n]
          /\ \A h \in DOMAIN disk \ {n, n + 1} : Renamed(n, n + 1)[h] = disk[h]
  BY <1>11 DEF Renamed
<1>4. failures \in Nat /\ failures' \in Nat /\ rotations \in Nat /\ crashes \in Nat /\ crashes' = crashes
  BY <1>1, <1>2 DEF Types
<1>5. \A x : Fresh(x)' <=> Fresh(x)
  BY <1>2 DEF Fresh
<1>6. CASE disk' = disk
  <2>1. Types'
    BY <1>1, <1>2, <1>3, <1>4, <1>6 DEF Types
  <2>2. LiveFile'
    BY <1>1, <1>2, <1>3, <1>6 DEF LiveFile
  <2>3. Before'
    BY <1>1, <1>5, <1>6, <1>2, StaysBefore
  <2>4. LinesInOrder' /\ StoredInOrder' /\ OldestLostFirst'
    <3>1. stuck => stuck'
      BY <1>2
    <3> QED BY <1>1, <1>2, <1>6, <3>1, FilesUntouched
  <2>5. OverwritesOldest'
    <3>1. ~stuck' => n \notin DOMAIN disk
      <4>1. CASE disk' = Renamed(n, n + 1)
        <5>1. n \in DOMAIN disk => n \notin DOMAIN disk'
          BY <1>11, <1>12, <4>1
        <5> QED BY <1>6, <5>1
      <4> QED BY <1>2, <4>1
    <3> QED BY <1>2, <1>3, <1>6, <3>1 DEF OverwritesOldest
  <2>6. FewMissing'
    <3>1. CASE failures' = failures + 1
      <4>1. Missing' \subseteq Missing \cup {n + 1}
        BY <1>2, <1>3, <1>4, <1>6 DEF Missing, Required
      <4>2. failures' + crashes' >= failures + crashes + 1
        BY <1>4, <3>1
      <4> QED BY <1>1, <2>1, <4>1, <4>2, OneMoreMissing
    <3>2. CASE failures' = failures /\ disk' = Renamed(n, n + 1)
      <4>1. n \notin DOMAIN disk
        <5>1. n \in DOMAIN disk => n \notin DOMAIN disk'
          BY <1>11, <1>12, <3>2
        <5> QED BY <1>6, <5>1
      <4>2. n > 0 /\ n \in 1 .. max_files /\ pc' = "rename" /\ n' = n - 1
        BY <1>2, <1>3, <4>1
      <4>3. failures' + crashes' >= failures + crashes
        BY <1>4, <3>2
      <4>4. CASE n < rotations
        <5>1. n \in Missing
          BY <1>2, <4>1, <4>2, <4>4 DEF Missing, Required
        <5>2. Missing' \subseteq (Missing \ {n}) \cup {n + 1}
          BY <1>2, <1>3, <1>4, <1>6, <4>2 DEF Missing, Required
        <5> QED BY <1>1, <2>1, <4>3, <5>1, <5>2, OneMoreMissing
      <4>5. CASE ~(n < rotations)
        <5>1. Missing' \subseteq Missing
          BY <1>2, <1>3, <1>4, <1>6, <4>2, <4>5 DEF Missing, Required
        <5> QED BY <1>1, <2>1, <4>3, <5>1, OneMoreMissing
      <4> QED BY <4>4, <4>5
    <3> QED BY <1>2, <3>1, <3>2
  <2> QED BY <2>1, <2>2, <2>3, <2>4, <2>5, <2>6 DEF LInv
<1>7. CASE disk' # disk
  <2> DEFINE src(f) == IF f = n + 1 THEN n ELSE f
  <2>1. failures' = failures /\ stuck' = stuck /\ disk' = Renamed(n, n + 1) /\ n \in DOMAIN disk
    BY <1>2, <1>7 DEF Renamed
  <2>2. /\ DOMAIN disk' = (DOMAIN disk \ {n}) \cup {n + 1}
        /\ disk'[n + 1] = disk[n]
        /\ \A h \in DOMAIN disk \ {n, n + 1} : disk'[h] = disk[h]
    BY <1>12, <2>1
  <2>3. \A f \in DOMAIN disk' : src(f) \in DOMAIN disk /\ disk'[f] = disk[src(f)]
    BY <1>3, <2>1, <2>2
  <2>4. \A f, g \in DOMAIN disk' : (f > g => src(f) > src(g)) /\ (f = g => src(f) = src(g))
    <3> SUFFICES ASSUME NEW f \in DOMAIN disk', NEW g \in DOMAIN disk'
                 PROVE  (f > g => src(f) > src(g)) /\ (f = g => src(f) = src(g))
      OBVIOUS
    <3>1. f \in Int /\ g \in Int /\ n \in Int
      BY <1>3, <2>2
    <3>2. f # n /\ g # n
      BY <1>11, <2>2
    <3>3. CASE f = n + 1
      BY <3>1, <3>2, <3>3
    <3>4. CASE f # n + 1
      BY <3>1, <3>2, <3>4
    <3> QED BY <3>3, <3>4
  <2> HIDE DEF src
  <2>5. Types'
    <3>1. DOMAIN disk' \subseteq 0 .. max_files
      BY <1>3, <2>2
    <3>2. \A f \in DOMAIN disk' : disk'[f] \in Seq(Entry)
      BY <1>1, <2>3 DEF Types
    <3> QED BY <1>1, <1>2, <1>3, <1>4, <3>1, <3>2 DEF Types
  <2>6. LiveFile'
    BY <1>1, <1>2, <1>3, <2>2 DEF LiveFile
  <2>7. Before'
    BY <1>1, <1>2, <1>5, <2>3 DEF Before
  <2>8. LinesInOrder'
    <3> SUFFICES ASSUME NEW f \in DOMAIN disk', NEW g \in DOMAIN disk',
                        NEW j \in DOMAIN disk'[f], NEW k \in DOMAIN disk'[g],
                        f > g \/ (f = g /\ j < k)
                 PROVE  disk'[f][j].line < disk'[g][k].line
      BY DEF LinesInOrder
    <3>1. src(f) > src(g) \/ (src(f) = src(g) /\ j < k)
      BY <2>4
    <3>2. j \in DOMAIN disk[src(f)] /\ k \in DOMAIN disk[src(g)]
      BY <2>3
    <3>3. disk[src(f)][j].line < disk[src(g)][k].line
      BY <1>1, <2>3, <3>1, <3>2 DEF LinesInOrder
    <3> QED BY <2>3, <3>3
  <2>9. StoredInOrder'
    BY <1>1, <1>2 DEF StoredInOrder
  <2>10. OverwritesOldest'
    BY <1>2, <1>3, <2>2 DEF OverwritesOldest
  <2>11. OldestLostFirst'
    <3>1. OnDisk' = UNION {Range(disk[g]) : g \in DOMAIN disk \ {n + 1}}
      <4>1. \A f \in DOMAIN disk' : src(f) \in DOMAIN disk \ {n + 1}
        BY <1>3, <2>3 DEF src
      <4>2. \A g \in DOMAIN disk \ {n + 1} : \E f \in DOMAIN disk' : src(f) = g
        <5>1. \A g \in DOMAIN disk \ {n, n + 1} : g \in DOMAIN disk' /\ src(g) = g
          BY <2>2 DEF src
        <5>2. n + 1 \in DOMAIN disk' /\ src(n + 1) = n
          BY <2>2 DEF src
        <5> QED BY <5>1, <5>2
      <4> QED BY <2>3, <4>1, <4>2 DEF OnDisk
    <3>2. SUFFICES ASSUME ~stuck PROVE OldestLostFirst'
      BY <2>1 DEF OldestLostFirst
    <3>3. PICK k \in 1 .. Len(stored) + 1 : OnDisk = {stored[j] : j \in k .. Len(stored)}
      BY <1>1, <3>2 DEF OldestLostFirst
    <3>4. CASE n + 1 \notin DOMAIN disk
      <4>1. OnDisk' = OnDisk
        BY <3>1, <3>4 DEF OnDisk
      <4> QED BY <1>1, <1>2, <2>1, <4>1 DEF OldestLostFirst
    <3>5. CASE n + 1 \in DOMAIN disk
      <4>1. n + 1 = max_files
        BY <1>1, <1>2, <3>2, <3>5 DEF OverwritesOldest
      <4>2. \A g \in DOMAIN disk : g <= n + 1
        BY <1>3, <4>1
      <4>3. \E i \in 1 .. Len(stored) + 1 :
                UNION {Range(disk[g]) : g \in DOMAIN disk \ {n + 1}} = {stored[j] : j \in i .. Len(stored)}
        BY <1>1, <3>3, <3>5, <4>2, OldestGoes
      <4> QED BY <1>2, <3>1, <4>3 DEF OldestLostFirst
    <3> QED BY <3>4, <3>5
  <2>12. FewMissing'
    <3>1. Missing' \subseteq Missing
      BY <1>2, <1>3, <1>4, <2>2 DEF Missing, Required
    <3>2. failures' + crashes' >= failures + crashes
      BY <1>4, <2>1
    <3> QED BY <1>1, <2>5, <3>1, <3>2, OneMoreMissing
  <2> QED BY <2>5, <2>6, <2>7, <2>8, <2>9, <2>10, <2>11, <2>12 DEF LInv
<1> QED BY <1>6, <1>7

-----------------------------------------------------------------------------
LEMMA LogStep == LInv /\ [Next]_vars => LInv'
<1> SUFFICES ASSUME LInv, [Next]_vars PROVE LInv'
  OBVIOUS
<1>1. CASE UNCHANGED vars
  <2>1. /\ UNCHANGED <<disk, open, size, max_files, pc, n, len, line>>
        /\ UNCHANGED <<stored, stuck, rotations, failures, crashes>>
    BY <1>1 DEF vars, inner, work, history
  <2>2. Types' /\ LiveFile' /\ OverwritesOldest'
    BY <2>1 DEF LInv, Types, LiveFile, OverwritesOldest
  <2>3. Before'
    BY <2>1 DEF LInv, Before, Fresh
  <2>4. LinesInOrder' /\ StoredInOrder' /\ OldestLostFirst'
    BY <2>1, FilesUntouched DEF LInv
  <2>5. FewMissing'
    BY <2>1 DEF LInv, FewMissing, Missing, Required
  <2> QED BY <2>2, <2>3, <2>4, <2>5 DEF LInv
<1>2. CASE \E m \in Length : WriteLine(m)
  BY <1>2, WriteLineStep
<1>3. CASE RemoveOldest
  BY <1>3, RemoveOldestStep
<1>4. CASE Rename
  BY <1>4, RenameStep
<1>5. CASE Reopen \/ OpenMissing \/ Start
  BY <1>5, OpensStep
<1>6. CASE Write
  BY <1>6, WriteStep
<1>7. CASE Crash
  BY <1>7, CrashStep
<1> QED BY <1>1, <1>2, <1>3, <1>4, <1>5, <1>6, <1>7 DEF Next, Flush

(* The files and what is known of them stay consistent, whichever calls of *)
(* the file system fail and wherever the process ends (logfile.rs).        *)
THEOREM LogInvariance == Spec => []LInv
BY LogInit, LogStep, PTL DEF Spec

(* No file ever holds a line that is older than one in a higher-numbered   *)
(* file, or a line twice: the renames go from the oldest backup to the     *)
(* live file, and one that fails leaves both files as they are (rotate).   *)
THEOREM LinesStayOrdered == Spec => []LinesInOrder
<1>1. LInv => LinesInOrder
  BY DEF LInv
<1> QED BY <1>1, LogInvariance, PTL

(* Unless a rename has failed, what the files hold is the end of what was  *)
(* ever written: a rotation that stops half way, or a file that cannot be  *)
(* opened, loses nothing but the oldest backup (rotate, Inner::open).      *)
THEOREM OnlyOldestLost == Spec => []OldestLostFirst
<1>1. LInv => OldestLostFirst
  BY DEF LInv
<1> QED BY <1>1, LogInvariance, PTL

LEMMA MinOfTwo ==
    ASSUME NEW a \in Int, NEW b \in Int
    PROVE  Min({a, b}) = IF a <= b THEN a ELSE b
<1> DEFINE P(x) == x \in {a, b} /\ \A y \in {a, b} : x <= y
           m == IF a <= b THEN a ELSE b
<1>1. P(m) /\ \A x : P(x) => x = m
  OBVIOUS
<1>2. Min({a, b}) = CHOOSE x : P(x)
  BY Zenon DEF Min
<1> HIDE DEF P, m
<1>3. P(CHOOSE x : P(x))
  BY <1>1, Zenon
<1>4. Min({a, b}) = m
  BY <1>1, <1>2, <1>3
<1> QED BY <1>4 DEF m

(* Between two lines no backup is missing, of those that there should be   *)
(* after so many rotations, but one for each call that failed and each end *)
(* of the process (rotate).                                                *)
THEOREM BackupsStay == Spec => []BackupsKept
<1>1. ASSUME LInv PROVE BackupsKept
  <2> SUFFICES ASSUME pc = "idle"
               PROVE  Cardinality(DOMAIN disk \ {0}) >= Min({rotations, max_files}) - failures - crashes
    BY DEF BackupsKept
  <2> DEFINE t == Min({rotations, max_files})
             D == DOMAIN disk \ {0}
  <2>1. /\ Types /\ FewMissing
        /\ rotations \in Nat /\ max_files \in Nat /\ failures \in Nat /\ crashes \in Nat
    BY <1>1 DEF LInv, Types
  <2>2. t = IF rotations <= max_files THEN rotations ELSE max_files
    BY <2>1, MinOfTwo
  <2>3. t \in Nat /\ Required = 1 .. t
    BY <2>1, <2>2 DEF Required
  <2>4. IsFiniteSet(Required) /\ Cardinality(Required) = t
    <3>1. IsFiniteSet(1 .. t) /\ Cardinality(1 .. t) = IF 1 > t THEN 0 ELSE t - 1 + 1
      BY <2>3, FS_Interval
    <3> QED BY <2>3, <3>1
  <2>5. IsFiniteSet(D) /\ Cardinality(D) \in Nat
    <3>1. IsFiniteSet(0 .. max_files) /\ D \subseteq 0 .. max_files
      BY <2>1, FS_Interval DEF Types
    <3> QED BY <3>1, FS_Subset, FS_CardinalityType
  <2>6. Cardinality(Required \cap D) \in Nat /\ Cardinality(Required \cap D) <= Cardinality(D)
    <3>1. Required \cap D \subseteq D
      OBVIOUS
    <3> QED BY <2>5, <3>1, FS_Subset, FS_CardinalityType
  <2>7. Missing = Required \ D
    BY DEF Missing, Required
  <2>8. Cardinality(Required \ D) = t - Cardinality(Required \cap D)
    BY <2>4, <2>5, FS_Difference
  <2>9. t - Cardinality(Required \cap D) <= failures + crashes
    BY <2>1, <2>7, <2>8 DEF FewMissing
  <2> HIDE DEF t, D
  <2>10. Cardinality(D) >= t - failures - crashes
    BY <2>1, <2>3, <2>5, <2>6, <2>9
  <2> QED BY <2>10 DEF t, D
<1> QED BY <1>1, LogInvariance, PTL

-----------------------------------------------------------------------------
(* How large the files get.  The most that a file may hold is counted in   *)
(* lines of the greatest length, or in full files if that is more.         *)
Most == Max(Length \cup {MaxSize})
Allowed(k) == k * Most

LEMMA SomeLeast ==
    ASSUME NEW S, S \subseteq Nat, S # {}
    PROVE  \E k \in S : \A j \in S : k <= j
<1> DEFINE R == OpToRel(<, Nat)
<1>1. IsWellFoundedOn(R, Nat)
  BY NatLessThanWellFounded
<1>2. \A j, k \in Nat : j < k => <<j, k>> \in R
  BY DEF OpToRel
<1> HIDE DEF R
<1>3. PICK k \in S : \A j \in S : ~(<<j, k>> \in R)
  BY <1>1, WFMin
<1>4. \A j \in S : j \in Nat /\ k \in Nat /\ ~(j < k)
  BY <1>2, <1>3
<1> QED BY <1>4

\* A finite set of numbers has a greatest one.
LEMMA SomeGreatest ==
    ASSUME NEW S, IsFiniteSet(S), S \subseteq Nat, S # {}
    PROVE  \E x \in S : \A y \in S : x >= y
<1> DEFINE d == Cardinality(S)
<1>1. d \in Nat /\ ExistsBijection(1 .. d, S)
  BY FS_CardinalityType
<1>2. PICK f \in [1 .. d -> S] : \A y \in S : \E i \in 1 .. d : f[i] = y
  BY <1>1 DEF ExistsBijection, Bijection, Surjection
<1> HIDE DEF d
<1>3. \A i \in 1 .. d : f[i] \in Nat
  BY <1>2
<1> DEFINE Bad == {k \in 1 .. d : \A j \in 1 .. k : \E i \in 1 .. k : f[i] > f[j]}
<1>4. Bad = {}
  <2> SUFFICES ASSUME Bad # {} PROVE FALSE
    OBVIOUS
  <2>1. Bad \subseteq Nat
    BY <1>1
  <2>2. PICK k \in Bad : \A j \in Bad : k <= j
    <3> HIDE DEF Bad
    <3> QED BY <2>1, SomeLeast
  <2>3. k \in 1 .. d /\ k \in Nat /\ k \in 1 .. k /\ \A j \in 1 .. k : \E i \in 1 .. k : f[i] > f[j]
    BY <1>1, <2>2
  <2>4. CASE k = 1
    BY <1>3, <2>3, <2>4
  <2>5. CASE k > 1
    <3>1. k - 1 \in 1 .. d /\ ~(k <= k - 1)
      BY <1>1, <2>3, <2>5
    <3>2. k - 1 \notin Bad
      <4> HIDE DEF Bad
      <4> QED BY <2>2, <3>1
    <3>3. PICK j \in 1 .. k - 1 : \A i \in 1 .. k - 1 : ~(f[i] > f[j])
      BY <3>1, <3>2
    <3>4. j \in 1 .. k /\ j \in 1 .. d /\ \A i \in 1 .. k : i \in 1 .. d /\ (i = k \/ i \in 1 .. k - 1)
      BY <1>1, <2>3, <2>5
    <3>5. PICK i \in 1 .. k : f[i] > f[j]
      BY <2>3, <3>4
    <3>6. f[k] > f[j]
      BY <3>3, <3>4, <3>5
    <3>7. PICK h \in 1 .. k : f[h] > f[k]
      BY <2>3
    <3>8. f[h] \in Nat /\ f[k] \in Nat /\ f[j] \in Nat
      BY <1>3, <2>3, <3>4
    <3>9. h \in 1 .. k - 1
      BY <3>4, <3>7, <3>8
    <3> QED BY <3>3, <3>6, <3>7, <3>8, <3>9
  <2> QED BY <1>1, <2>3, <2>4, <2>5
<1> HIDE DEF Bad
<1>5. d \in 1 .. d
  <2>1. PICK y \in S : TRUE
    OBVIOUS
  <2>2. PICK i \in 1 .. d : f[i] = y
    BY <1>2
  <2> QED BY <1>1, <2>2
<1>6. PICK j \in 1 .. d : \A i \in 1 .. d : ~(f[i] > f[j])
  <2>1. d \notin Bad
    BY <1>4
  <2> QED BY <1>5, <2>1 DEF Bad
<1>7. \A y \in S : f[j] >= y
  BY <1>2, <1>3, <1>6
<1> QED BY <1>2, <1>7

LEMMA MostIs ==
    /\ Most \in Nat /\ MaxSize \in Nat /\ MaxSize <= Most
    /\ \A m \in Length : m \in Nat /\ m > 0 /\ m <= Most
<1> DEFINE S == Length \cup {MaxSize}
           P(x) == x \in S /\ \A y \in S : x >= y
<1>1. IsFiniteSet(S) /\ S \subseteq Nat /\ MaxSize \in S
  BY SizeAssumption, FS_AddElement
<1>2. \A m \in Length : m \in S /\ m > 0
  BY SizeAssumption
<1>3. Most = CHOOSE x : P(x)
  BY Zenon DEF Most, Max
<1> HIDE DEF S
<1>4. \E x : P(x)
  BY <1>1, SomeGreatest
<1> HIDE DEF P
<1>5. P(Most)
  BY <1>3, <1>4, Zenon
<1>6. Most \in S /\ \A y \in S : Most >= y
  BY <1>5 DEF P
<1> QED BY <1>1, <1>2, <1>6

LEMMA AllowedIs ==
    /\ Allowed(0) = 0
    /\ \A k \in Nat : Allowed(k) \in Nat /\ Allowed(k + 1) = Allowed(k) + Most
BY MostIs DEF Allowed

\* An entry adds its bytes.
Span(s, j) == {j} \X (1 .. s[j].bytes)
Spans(s) == {Span(s, j) : j \in DOMAIN s}

LEMMA SpanIs ==
    ASSUME NEW s \in Seq(Entry), NEW j \in DOMAIN s
    PROVE  IsFiniteSet(Span(s, j)) /\ Cardinality(Span(s, j)) = s[j].bytes
<1> DEFINE m == s[j].bytes
<1>1. m \in Nat
  <2>1. j \in 1 .. Len(s)
    BY LenProperties
  <2>2. s[j] \in Entry
    BY <2>1, ElementOfSeq
  <2> QED BY <2>2 DEF Entry
<1> HIDE DEF m
<1>2. IsFiniteSet({j}) /\ Cardinality({j}) = 1
  BY FS_Singleton
<1>3. IsFiniteSet(1 .. m) /\ Cardinality(1 .. m) = m
  <2>1. IsFiniteSet(1 .. m) /\ Cardinality(1 .. m) = IF 1 > m THEN 0 ELSE m - 1 + 1
    BY <1>1, FS_Interval
  <2> QED BY <1>1, <2>1
<1>4. IsFiniteSet({j} \X (1 .. m)) /\ Cardinality({j} \X (1 .. m)) = 1 * m
  BY <1>2, <1>3, FS_Product
<1> QED BY <1>1, <1>4 DEF Span, m

LEMMA SpansFinite ==
    ASSUME NEW s \in Seq(Entry)
    PROVE  IsFiniteSet(UNION Spans(s)) /\ Bytes(s) = Cardinality(UNION Spans(s)) /\ Bytes(s) \in Nat
<1> DEFINE f == [j \in DOMAIN s |-> Span(s, j)]
<1>1. IsFiniteSet(DOMAIN s)
  <2>1. DOMAIN s = 1 .. Len(s) /\ Len(s) \in Nat
    BY LenProperties
  <2> QED BY <2>1, FS_Interval
<1>2. f \in Surjection(DOMAIN s, Spans(s))
  BY DEF Surjection, Spans
<1>3. IsFiniteSet(Spans(s))
  BY <1>1, <1>2, FS_Surjection
<1>4. \A T \in Spans(s) : IsFiniteSet(T)
  BY SpanIs DEF Spans
<1>5. IsFiniteSet(UNION Spans(s))
  BY <1>3, <1>4, FS_UNION
<1>6. Bytes(s) = Cardinality(UNION Spans(s))
  BY DEF Bytes, Spans, Span
<1> QED BY <1>5, <1>6, FS_CardinalityType

LEMMA BytesOf ==
    /\ Bytes(<<>>) = 0
    /\ \A s \in Seq(Entry) : \A x \in Entry : Bytes(s) \in Nat /\ Bytes(Append(s, x)) = Bytes(s) + x.bytes
<1>1. Bytes(<<>>) = 0
  <2>1. UNION {{j} \X (1 .. <<>>[j].bytes) : j \in DOMAIN <<>>} = {}
    OBVIOUS
  <2> QED BY <2>1, FS_EmptySet DEF Bytes
<1>2. ASSUME NEW s \in Seq(Entry), NEW x \in Entry PROVE Bytes(Append(s, x)) = Bytes(s) + x.bytes
  <2> DEFINE t == Append(s, x)
             k == Len(s) + 1
             A == UNION Spans(s)
             B == Span(t, k)
  <2>1. /\ t \in Seq(Entry) /\ k \in DOMAIN t /\ t[k] = x
        /\ DOMAIN t = DOMAIN s \cup {k} /\ k \notin DOMAIN s
        /\ \A j \in DOMAIN s : t[j] = s[j]
    <3>1. Len(s) \in Nat /\ DOMAIN s = 1 .. Len(s)
      BY <1>2, LenProperties
    <3>2. Len(s) + 1 \notin DOMAIN s
      BY <3>1
    <3> QED BY <1>2, <3>2, GrownSeq
  <2> HIDE DEF t, k
  <2>2. UNION Spans(t) = A \cup B
    <3>1. \A j \in DOMAIN s : Span(t, j) = Span(s, j)
      BY <2>1 DEF Span
    <3> QED BY <2>1, <3>1 DEF Spans
  <2>3. A \cap B = {}
    <3>1. \A z \in B : z[1] = k
      BY DEF Span
    <3>2. \A z \in A : z[1] \in DOMAIN s
      BY DEF Spans, Span
    <3> QED BY <2>1, <3>1, <3>2
  <2>4. IsFiniteSet(B) /\ Cardinality(B) = x.bytes
    BY <2>1, SpanIs
  <2>5. IsFiniteSet(A) /\ Bytes(s) = Cardinality(A) /\ Bytes(s) \in Nat
    BY <1>2, SpansFinite
  <2>6. Bytes(t) = Cardinality(UNION Spans(t))
    BY <2>1, SpansFinite
  <2>7. x.bytes \in Nat
    BY <1>2 DEF Entry
  <2> HIDE DEF A, B
  <2>8. Cardinality(A \cup B) = Cardinality(A) + Cardinality(B) - Cardinality(A \cap B)
    BY <2>4, <2>5, FS_Union
  <2>9. Cardinality(A \cap B) = 0
    BY <2>3, FS_EmptySet
  <2>10. Bytes(t) = Cardinality(A) + Cardinality(B) - Cardinality(A \cap B)
    BY <2>2, <2>6, <2>8
  <2>11. Bytes(t) = Bytes(s) + x.bytes
    BY <2>4, <2>5, <2>7, <2>9, <2>10
  <2> QED BY <2>11 DEF t
<1> QED BY <1>1, <1>2, SpansFinite

-----------------------------------------------------------------------------
(* The bytes of the live file are those that `size` tells, but for the     *)
(* failures.  A file that `open` says is not there, or that a rotation     *)
(* could not move, is as large as the failures allow; what is about to be  *)
(* appended still fits.                                                    *)
SizeKnown == open => Bytes(Live) <= size + Allowed(failures)
Rotated == pc = "reopen" \/ (pc \in {"idle", "write"} /\ ~open) => Bytes(Live) <= Allowed(failures)
HasSpace == pc = "open" \/ (pc = "write" /\ open) => Bytes(Live) + len <= Allowed(failures + 1)

SizeInv ==
    /\ size \in Nat /\ (pc \notin {"idle", "down"} => len \in Length)
    /\ Bounded /\ SizeKnown /\ Rotated /\ HasSpace

LEMMA SizesAreNats ==
    ASSUME Types, Types'
    PROVE  /\ failures \in Nat /\ failures' \in Nat /\ Bytes(Live) \in Nat /\ Bytes(Live') \in Nat
           /\ \A f \in DOMAIN disk : Bytes(disk[f]) \in Nat
           /\ 0 \in DOMAIN disk => Live = disk[0]
           /\ 0 \in DOMAIN disk' => Live' = disk'[0]
           /\ 0 \notin DOMAIN disk => Live = <<>> /\ Bytes(Live) = 0
           /\ 0 \notin DOMAIN disk' => Live' = <<>> /\ Bytes(Live') = 0
<1>1. \A s \in Seq(Entry) : Bytes(s) \in Nat
  BY SpansFinite
<1>2. <<>> \in Seq(Entry) /\ Bytes(<<>>) = 0
  BY BytesOf
<1>3. /\ \A f \in DOMAIN disk : disk[f] \in Seq(Entry)
      /\ \A f \in DOMAIN disk' : disk'[f] \in Seq(Entry)
      /\ failures \in Nat /\ failures' \in Nat
  BY DEF Types
<1>4. /\ 0 \in DOMAIN disk => Live = disk[0]
      /\ 0 \notin DOMAIN disk => Live = <<>>
      /\ 0 \in DOMAIN disk' => Live' = disk'[0]
      /\ 0 \notin DOMAIN disk' => Live' = <<>>
  BY DEF Live
<1> QED BY <1>1, <1>2, <1>3, <1>4

LEMMA LiveBounded ==
    ASSUME Types, Bounded
    PROVE  Bytes(Live) \in Nat /\ Bytes(Live) <= Allowed(failures + 1)
<1>1. failures \in Nat /\ \A f \in DOMAIN disk : disk[f] \in Seq(Entry)
  BY DEF Types
<1>2. Allowed(failures + 1) \in Nat /\ Allowed(failures + 1) = (1 + failures) * Most
  <2>1. failures + 1 \in Nat /\ failures + 1 = 1 + failures
    BY <1>1
  <2> QED BY <2>1, AllowedIs DEF Allowed
<1>3. CASE 0 \in DOMAIN disk
  <2>1. Live = disk[0] /\ Bytes(Live) <= (1 + failures) * Most
    BY <1>3 DEF Live, Bounded, Most
  <2>2. Bytes(Live) \in Nat
    BY <1>1, <1>3, <2>1, SpansFinite
  <2> QED BY <1>2, <2>1, <2>2
<1>4. CASE 0 \notin DOMAIN disk
  <2>1. Live = <<>>
    BY <1>4 DEF Live
  <2> QED BY <1>2, <2>1, BytesOf
<1> QED BY <1>3, <1>4

\* A failure raises what is allowed.
LEMMA FailuresAllow ==
    ASSUME NEW k \in Nat, NEW l \in {k, k + 1}
    PROVE  /\ Allowed(k) \in Nat /\ Allowed(l) \in Nat /\ Allowed(l + 1) \in Nat
           /\ Allowed(k) <= Allowed(l) /\ Allowed(k + 1) <= Allowed(l + 1)
           /\ Allowed(k + 1) = Allowed(k) + Most /\ Allowed(l + 1) = Allowed(l) + Most
           /\ Most \in Nat
<1>1. k + 1 \in Nat /\ l \in Nat /\ Most \in Nat
  BY MostIs
<1>2. /\ Allowed(k) \in Nat /\ Allowed(k + 1) = Allowed(k) + Most
      /\ Allowed(l) \in Nat /\ Allowed(l + 1) = Allowed(l) + Most
      /\ Allowed(k + 1) \in Nat /\ Allowed(k + 1 + 1) = Allowed(k + 1) + Most
  BY <1>1, AllowedIs
<1> QED BY <1>1, <1>2

\* Files that are moved, emptied or gone stay bounded.
LEMMA Carried ==
    ASSUME Types, Bounded, failures' \in {failures, failures + 1},
           \A f \in DOMAIN disk' : disk'[f] = <<>> \/ \E g \in DOMAIN disk : disk'[f] = disk[g]
    PROVE  Bounded'
<1>1. failures \in Nat /\ \A g \in DOMAIN disk : disk[g] \in Seq(Entry)
  BY DEF Types
<1>2. /\ Allowed(failures + 1) \in Nat /\ Allowed(failures' + 1) \in Nat
      /\ Allowed(failures + 1) <= Allowed(failures' + 1)
      /\ Allowed(failures + 1) = (1 + failures) * Most
      /\ Allowed(failures' + 1) = (1 + failures') * Most
  <2>1. failures + 1 = 1 + failures /\ failures' + 1 = 1 + failures' /\ failures + 1 \in Nat
    BY <1>1
  <2>2. Allowed(failures + 1) \in Nat
    BY <2>1, AllowedIs
  <2> QED BY <1>1, <2>1, <2>2, FailuresAllow DEF Allowed
<1> SUFFICES ASSUME NEW f \in DOMAIN disk' PROVE Bytes(disk'[f]) <= (1 + failures') * Most
  BY DEF Bounded, Most
<1>3. CASE disk'[f] = <<>>
  BY <1>2, <1>3, BytesOf
<1>4. ASSUME NEW g \in DOMAIN disk, disk'[f] = disk[g] PROVE Bytes(disk'[f]) <= (1 + failures') * Most
  <2>1. Bytes(disk[g]) <= (1 + failures) * Most /\ Bytes(disk[g]) \in Nat
    BY <1>1, SpansFinite DEF Bounded, Most
  <2> QED BY <1>2, <1>4, <2>1
<1> QED BY <1>3, <1>4

LEMMA SizeStep ==
    ASSUME LInv, LInv', SizeInv, [Next]_vars
    PROVE  SizeInv'
<1> DEFINE F == failures
           B == Bytes(Live)
           C == Bytes(Live')
<1>1. Types /\ Types' /\ LiveFile /\ LiveFile'
  BY DEF LInv
<1>2. /\ size \in Nat /\ (pc \notin {"idle", "down"} => len \in Length)
      /\ Bounded /\ SizeKnown /\ Rotated /\ HasSpace
  BY DEF SizeInv
<1>3. F \in Nat /\ F' \in Nat /\ B \in Nat /\ C \in Nat
  BY <1>1, SizesAreNats
<1>4. /\ Most \in Nat /\ Allowed(F) \in Nat /\ Allowed(F + 1) = Allowed(F) + Most
      /\ B <= Allowed(F + 1)
  BY <1>1, <1>2, <1>3, FailuresAllow, LiveBounded
<1>5. F' \in {F, F + 1} => /\ Allowed(F') \in Nat /\ Allowed(F' + 1) = Allowed(F') + Most
                           /\ Allowed(F) <= Allowed(F') /\ Allowed(F + 1) <= Allowed(F' + 1)
  BY <1>3, FailuresAllow
<1>6. disk' = disk => C = B
  BY DEF Live
<1>7. disk' = disk /\ F' \in {F, F + 1} => Bounded'
  BY <1>1, <1>2, Carried
<1>8. ASSUME NEW m \in Length, WriteLine(m) PROVE SizeInv'
  <2>1. /\ pc = "idle" /\ len' = m /\ UNCHANGED <<disk, size, failures>>
        /\ \/ pc' = "rotate" /\ open' = FALSE
           \/ pc' = "open" /\ open' = open /\ ~TooLong(m)
    BY <1>8 DEF WriteLine, history
  <2>2. C = B /\ Bounded'
    BY <1>6, <1>7, <2>1
  <2>3. m \in Nat /\ m <= Most /\ MaxSize \in Nat /\ MaxSize <= Most
    BY MostIs
  <2>4. open => B <= size + Allowed(F)
    BY <1>2 DEF SizeKnown
  <2>5. ~open => B <= Allowed(F)
    BY <1>2, <2>1 DEF Rotated
  <2>6. pc' = "open" => B + m <= Allowed(F) + Most
    <3>1. CASE open /\ pc' = "open"
      <4>1. size = 0 \/ size + m <= MaxSize
        BY <1>2, <2>1, <2>3, <3>1 DEF TooLong
      <4> QED BY <1>2, <1>3, <1>4, <2>3, <2>4, <3>1, <4>1
    <3>2. CASE ~open
      BY <1>3, <1>4, <2>3, <2>5, <3>2
    <3> QED BY <3>1, <3>2
  <2>7. SizeKnown' /\ Rotated' /\ HasSpace'
    BY <1>4, <2>1, <2>2, <2>4, <2>6 DEF SizeKnown, Rotated, HasSpace
  <2> QED BY <1>2, <2>1, <2>2, <2>7 DEF SizeInv
<1>9. CASE RemoveOldest
  <2>1. /\ pc = "rotate" /\ ~open /\ UNCHANGED <<open, size, max_files, len>>
        /\ pc' = IF max_files = 0 THEN "reopen" ELSE "rename"
        /\ \/ F' = F /\ disk' = Without(max_files)
           \/ F' = F + 1 /\ disk' = disk
    BY <1>1, <1>9 DEF RemoveOldest, LiveFile, inner, Works, Fails, Oldest
  <2>2. Bounded'
    BY <1>1, <1>2, <2>1, Carried DEF Without
  <2>3. pc' = "reopen" => C <= Allowed(F')
    <3>1. CASE F' = F /\ disk' = Without(max_files) /\ max_files = 0
      <4>1. 0 \notin DOMAIN disk'
        BY <3>1 DEF Without
      <4> QED BY <1>1, <1>4, <3>1, <4>1, SizesAreNats
    <3>2. CASE F' = F + 1 /\ disk' = disk
      BY <1>4, <1>6, <3>2
    <3> QED BY <2>1, <3>1, <3>2
  <2>4. SizeKnown' /\ Rotated' /\ HasSpace'
    BY <2>1, <2>3 DEF SizeKnown, Rotated, HasSpace
  <2> QED BY <1>2, <2>1, <2>2, <2>4 DEF SizeInv
<1>10. CASE Rename
  <2>1. /\ pc = "rename" /\ ~open /\ UNCHANGED <<open, size, len>>
        /\ pc' = "rename" \/ (pc' = "reopen" /\ n = 0)
        /\ \/ F' = F /\ disk' = Renamed(n, n + 1)
           \/ F' = F + 1 /\ disk' = disk
    BY <1>1, <1>10 DEF Rename, LiveFile, inner, Works, Fails
  <2>2. Bounded'
    BY <1>1, <1>2, <2>1, Carried DEF Renamed
  <2>3. pc' = "reopen" => C <= Allowed(F')
    <3>1. CASE F' = F /\ disk' = Renamed(0, 1)
      <4>1. 0 \notin DOMAIN disk'
        BY <3>1 DEF Renamed
      <4> QED BY <1>1, <1>4, <3>1, <4>1, SizesAreNats
    <3>2. CASE F' = F + 1 /\ disk' = disk
      BY <1>4, <1>6, <3>2
    <3> QED BY <2>1, <3>1, <3>2
  <2>4. SizeKnown' /\ Rotated' /\ HasSpace'
    BY <2>1, <2>3 DEF SizeKnown, Rotated, HasSpace
  <2> QED BY <1>2, <2>1, <2>2, <2>4 DEF SizeInv
\* What is opened is as large as before, and its length known or a call failed.
<1>11. ASSUME Opened
       PROVE  /\ open' /\ C = B /\ Bounded' /\ size' \in Nat /\ SizeKnown' /\ F' \in {F, F + 1}
              /\ Rotated' \/ pc' = "reopen"
  <2>1. /\ disk' = With(0, Live) /\ open'
        /\ \/ F' = F /\ size' = B
           \/ F' = F + 1 /\ size' = 0
    BY <1>11 DEF Opened, Works, Fails
  <2>2. 0 \in DOMAIN disk' /\ disk'[0] = Live
    BY <2>1 DEF With
  <2>3. C = B
    BY <1>1, <2>2, SizesAreNats
  <2>4. Bounded'
    <3>1. \A f \in DOMAIN disk' : disk'[f] = <<>> \/ \E g \in DOMAIN disk : disk'[f] = disk[g]
      BY <2>1 DEF With, Live
    <3> QED BY <1>1, <1>2, <2>1, <3>1, Carried
  <2>5. C <= size' + Allowed(F')
    BY <1>3, <1>4, <1>5, <2>1, <2>3
  <2> QED BY <1>3, <2>1, <2>3, <2>4, <2>5 DEF SizeKnown, Rotated
<1>12. CASE Reopen
  <2>1. /\ pc = "reopen" /\ pc' = "open" /\ len' = len /\ ~open
        /\ \/ Opened
           \/ F' = F + 1 /\ size' = 0 /\ disk' = disk /\ open' = open
    BY <1>1, <1>12 DEF Reopen, LiveFile, Fails
  <2>2. len \in Nat /\ len <= Most /\ B <= Allowed(F)
    BY <1>2, <2>1, MostIs DEF Rotated
  <2>3. /\ C = B /\ Bounded' /\ size' \in Nat /\ SizeKnown' /\ F' \in {F, F + 1}
    BY <1>6, <1>7, <1>11, <2>1 DEF SizeKnown
  <2>4. C + len <= Allowed(F' + 1)
    BY <1>3, <1>4, <1>5, <2>2, <2>3
  <2>5. Rotated' /\ HasSpace'
    BY <2>1, <2>4 DEF Rotated, HasSpace
  <2> QED BY <1>2, <2>1, <2>3, <2>5 DEF SizeInv
<1>13. CASE OpenMissing
  <2>1. /\ pc = "open" /\ pc' = "write" /\ len' = len
        /\ \/ open /\ UNCHANGED <<disk, size, open, failures>>
           \/ Opened
           \/ ~open /\ F' = F + 1 /\ UNCHANGED <<disk, size, open>>
    BY <1>13 DEF OpenMissing, Fails
  <2>2. len \in Nat /\ B + len <= Allowed(F + 1)
    BY <1>2, <2>1, MostIs DEF HasSpace
  <2>3. C = B /\ Bounded' /\ size' \in Nat /\ F' \in {F, F + 1}
    BY <1>2, <1>6, <1>7, <1>11, <2>1
  <2>4. C + len <= Allowed(F' + 1)
    BY <1>3, <1>4, <1>5, <2>2, <2>3
  <2>5. SizeKnown'
    <3>1. open => B <= size + Allowed(F)
      BY <1>2 DEF SizeKnown
    <3>2. CASE open /\ UNCHANGED <<disk, size, open, failures>>
      BY <1>6, <3>1, <3>2 DEF SizeKnown
    <3>3. CASE ~open'
      BY <3>3 DEF SizeKnown
    <3> QED BY <1>11, <2>1, <3>2, <3>3
  <2>6. Rotated'
    <3>1. CASE ~open'
      <4>1. F' = F + 1 /\ disk' = disk
        BY <1>11, <2>1, <3>1
      <4> QED BY <1>4, <1>6, <4>1 DEF Rotated
    <3> QED BY <2>1, <3>1 DEF Rotated
  <2>7. HasSpace'
    BY <2>1, <2>4 DEF HasSpace
  <2> QED BY <1>2, <2>1, <2>3, <2>5, <2>6, <2>7 DEF SizeInv
<1>14. CASE Write
  <2>1. /\ pc = "write" /\ pc' = "idle" /\ open' = open
        /\ \/ open /\ F' = F /\ Appended(len) /\ size' = size + len
           \/ open /\ F' = F + 1 /\ (\E k \in 1 .. len - 1 : Appended(k)) /\ size' = size
           \/ F' \in {F, F + 1} /\ disk' = disk /\ size' = size
    BY <1>14 DEF Write, Works, Fails
  <2>2. len \in Nat /\ len <= Most
    BY <1>2, <2>1, MostIs
  <2>3. /\ open => B <= size + Allowed(F) /\ B + len <= Allowed(F + 1)
        /\ ~open => B <= Allowed(F)
    BY <1>2, <2>1 DEF SizeKnown, HasSpace, Rotated
  <2>4. ASSUME NEW k \in Nat, k <= len, Appended(k), open, F' \in {F, F + 1}
        PROVE  C = B + k /\ Bounded'
    <3> DEFINE x == [line |-> line, bytes |-> k]
    <3>1. 0 \in DOMAIN disk
      BY <1>1, <2>4 DEF LiveFile
    <3>2. /\ x \in Entry /\ DOMAIN disk' = DOMAIN disk /\ disk'[0] = Append(disk[0], x)
          /\ \A f \in DOMAIN disk \ {0} : disk'[f] = disk[f]
      BY <1>1, <2>4, <3>1, AppendedDisk
    <3>3. x.bytes = k /\ disk[0] \in Seq(Entry) /\ Live = disk[0] /\ Live' = disk'[0]
      BY <1>1, <3>1, <3>2, SizesAreNats DEF Types
    <3> HIDE DEF x
    <3>4. C = B + k
      BY <3>2, <3>3, BytesOf
    <3>5. C <= Allowed(F' + 1)
      BY <1>3, <1>4, <1>5, <2>2, <2>3, <2>4, <3>4
    <3>6. Allowed(F + 1) <= Allowed(F' + 1) /\ Allowed(F + 1) \in Nat /\ Allowed(F' + 1) \in Nat
      BY <1>4, <1>5, <2>4
    <3>7. Allowed(F + 1) = (1 + failures) * Most /\ Allowed(F' + 1) = (1 + failures') * Most
      <4>1. F + 1 = 1 + failures /\ F' + 1 = 1 + failures'
        BY <1>3
      <4> QED BY <4>1 DEF Allowed
    <3>8. ASSUME NEW f \in DOMAIN disk' PROVE Bytes(disk'[f]) <= (1 + failures') * Most
      <4>1. CASE f = 0
        BY <3>3, <3>5, <3>7, <4>1
      <4>2. CASE f # 0
        <5>1. f \in DOMAIN disk /\ disk'[f] = disk[f]
          BY <3>2, <4>2
        <5>2. Bytes(disk[f]) <= (1 + failures) * Most /\ Bytes(disk[f]) \in Nat
          BY <1>1, <1>2, <5>1, SizesAreNats DEF Bounded, Most
        <5> QED BY <3>6, <3>7, <5>1, <5>2
      <4> QED BY <4>1, <4>2
    <3>9. Bounded'
      BY <3>8 DEF Bounded, Most
    <3> QED BY <3>4, <3>9
  <2>5. CASE open /\ F' = F /\ Appended(len) /\ size' = size + len
    <3>1. C = B + len /\ Bounded'
      BY <2>2, <2>4, <2>5
    <3>2. C <= size' + Allowed(F')
      BY <1>2, <1>3, <1>4, <2>2, <2>3, <2>5, <3>1
    <3> QED BY <1>2, <2>1, <2>2, <2>5, <3>1, <3>2 DEF SizeInv, SizeKnown, Rotated, HasSpace
  <2>6. ASSUME open, F' = F + 1, NEW k \in 1 .. len - 1, Appended(k), size' = size
        PROVE  SizeInv'
    <3>1. k \in Nat /\ k <= len /\ k <= Most
      BY <1>4, <2>2, <2>6
    <3>2. C = B + k /\ Bounded'
      BY <2>4, <2>6, <3>1
    <3>3. C <= size' + Allowed(F')
      BY <1>2, <1>3, <1>4, <2>3, <2>6, <3>1, <3>2
    <3> QED BY <1>2, <2>1, <2>6, <3>2, <3>3 DEF SizeInv, SizeKnown, Rotated, HasSpace
  <2>7. CASE F' \in {F, F + 1} /\ disk' = disk /\ size' = size
    <3>1. C = B /\ Bounded'
      BY <1>6, <1>7, <2>7
    <3>2. /\ open => C <= size' + Allowed(F')
          /\ ~open => C <= Allowed(F')
      BY <1>2, <1>3, <1>4, <1>5, <2>3, <2>7, <3>1
    <3> QED BY <1>2, <2>1, <2>7, <3>1, <3>2 DEF SizeInv, SizeKnown, Rotated, HasSpace
  <2> QED BY <2>1, <2>5, <2>6, <2>7
<1>15. CASE Crash
  <2>1. pc' = "down" /\ open' = FALSE /\ UNCHANGED <<disk, size, failures>>
    BY <1>15 DEF Crash
  <2>2. Bounded'
    BY <1>7, <2>1
  <2> QED BY <1>2, <2>1, <2>2 DEF SizeInv, SizeKnown, Rotated, HasSpace
<1>16. CASE Start
  <2>1. pc' = "idle" /\ Opened
    BY <1>16 DEF Start
  <2>2. open' /\ Bounded' /\ size' \in Nat /\ SizeKnown' /\ Rotated'
    BY <1>11, <2>1
  <2> QED BY <2>1, <2>2 DEF SizeInv, HasSpace
<1>17. CASE UNCHANGED vars
  <2>1. UNCHANGED <<disk, open, size, pc, len, failures>>
    BY <1>17 DEF vars, inner, work, history
  <2>2. C = B /\ Bounded'
    BY <1>6, <1>7, <2>1
  <2> QED BY <1>2, <2>1, <2>2 DEF SizeInv, SizeKnown, Rotated, HasSpace
<1> QED BY <1>8, <1>9, <1>10, <1>12, <1>13, <1>14, <1>15, <1>16, <1>17 DEF Next, Flush

(* A file outgrows its limit, or its only line, by no more than that for   *)
(* each call that failed, however the failures, rotations and crashes come *)
(* together: where `size` is wrong, the file is small or a call failed     *)
(* (write_line, Inner::open).                                              *)
THEOREM SizesBounded == Spec => []Bounded
<1>1. Init => SizeInv
  BY DEF Init, SizeInv, Bounded, SizeKnown, Rotated, HasSpace
<1>2. LInv /\ LInv' /\ SizeInv /\ [Next]_vars => SizeInv'
  BY SizeStep
<1>3. SizeInv => Bounded
  BY DEF SizeInv
<1> QED BY <1>1, <1>2, <1>3, LogInvariance, PTL DEF Spec
=============================================================================
