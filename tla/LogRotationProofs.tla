-------------------------- MODULE LogRotationProofs --------------------------
(***************************************************************************)
(* Whatever fails in a rotation, and wherever it is cut short, the backups *)
(* and the log hold the last lines written, in order and without a gap,    *)
(* for every number of backups and every size of the log.                  *)
(*                                                                         *)
(* KeptInOrder is inductive with TypeOK.  A rename moves the lines of a    *)
(* file to the next number, where no file is, so no line passes another;   *)
(* the only removal is that of the highest number, which holds nothing     *)
(* newer than any line in another file; a write adds the newest line.      *)
(*                                                                         *)
(* While nothing interferes, the files are laid out in slots of full logs, *)
(* so as many lines are kept as the backups have room for, and no more.    *)
(***************************************************************************)
EXTENDS LogRotation, FiniteSetTheorems, TLAPS

LEMMA InitType == Init => TypeOK
  <1> SUFFICES ASSUME Init PROVE TypeOK
    OBVIOUS
  <1>1. 0 \in File /\ 0 \in 0..(maxBackupCount - 1)
    BY RotationAssumption DEF File
  <1>2. disturbed \in BOOLEAN /\ isOpen \in BOOLEAN /\ alive \in BOOLEAN
    BY DEF Init
  <1> QED
    BY <1>1, <1>2 DEF Init, TypeOK

-----------------------------------------------------------------------------
(***************************************************************************)
(* The two calls of the C library that change files.                       *)
(***************************************************************************)

\* A removal leaves a well-typed file system without new files.
LEMMA RemoveType ==
    ASSUME TypeOK, NEW i \in File, RemoveFile(i)
    PROVE  /\ present' \subseteq present
           /\ present \cap held \subseteq present'
           /\ lines' \in [File -> SUBSET (1..written)]
           /\ \A j \in File \ present' : lines'[j] = {}
           /\ \A j \in File : j # i => j \in present' <=> j \in present
  BY DEF RemoveFile, TypeOK

\* So does a rename, which moves no file that is held.
LEMMA RenameType ==
    ASSUME TypeOK, NEW i \in File, NEW j \in File, i # j, RenameFile(i, j)
    PROVE  /\ present' \subseteq File
           /\ held \subseteq present'
           /\ lines' \in [File -> SUBSET (1..written)]
           /\ \A k \in File \ present' : lines'[k] = {}
           /\ \A k \in File : k # i /\ k # j => k \in present' <=> k \in present
  BY DEF RenameFile, TypeOK

\* Removing the file of the highest number drops the oldest lines at most.
LEMMA RemoveKeeps ==
    ASSUME TypeOK, KeptInOrder, RemoveFile(maxBackupCount), written' = written
    PROVE  KeptInOrder'
  <1> USE RotationAssumption
  <1>1. CASE maxBackupCount \in present \ held
    <2>1. \A i \in File : lines'[i] = IF i = maxBackupCount THEN {} ELSE lines[i]
      BY <1>1 DEF RemoveFile, TypeOK
    <2>2. BackupsOrdered'
      BY <2>1 DEF KeptInOrder, BackupsOrdered
    <2>3. ASSUME NEW m \in Kept', NEW n \in m..written PROVE n \in Kept'
      <3>1. PICK i \in File : i # maxBackupCount /\ m \in lines[i]
        BY <2>1 DEF Kept
      <3>2. m \in 1..written /\ n \in 1..written
        BY <3>1 DEF TypeOK
      <3>3. PICK j \in File : n \in lines[j]
        BY <3>1, <2>3 DEF Kept, KeptInOrder, NoGap
      <3>4. CASE j = maxBackupCount
        <4>1. i < j
          BY <3>1, <3>4 DEF File
        <4>2. n < m
          BY <4>1, <3>1, <3>3 DEF KeptInOrder, BackupsOrdered
        <4> QED
          BY <4>2, <3>2, <2>3
      <3>5. CASE j # maxBackupCount
        BY <3>5, <3>3, <2>1 DEF Kept
      <3> QED
        BY <3>4, <3>5
    <2> QED
      BY <2>2, <2>3 DEF KeptInOrder, NoGap
  <1>2. CASE maxBackupCount \notin present \ held
    BY <1>2 DEF RemoveFile, KeptInOrder, BackupsOrdered, NoGap, Kept
  <1> QED
    BY <1>1, <1>2

\* Renaming a file to the next number keeps every line, in order.
LEMMA RenameKeeps ==
    ASSUME TypeOK, KeptInOrder, written' = written,
           NEW i \in File, i + 1 \in File, RenameFile(i, i + 1)
    PROVE  KeptInOrder'
  <1> USE RotationAssumption
  <1>1. CASE i \in present \ held /\ i + 1 \notin present
    <2>0. i # i + 1
      BY DEF File
    <2>1. \A k \in File :
            lines'[k] = IF k = i THEN {} ELSE IF k = i + 1 THEN lines[i] ELSE lines[k]
      BY <1>1, <2>0 DEF RenameFile, TypeOK
    <2>2. lines[i + 1] = {}
      BY <1>1 DEF TypeOK
    <2>3. Kept' = Kept
      <3>1. ASSUME NEW n \in Kept PROVE n \in Kept'
        <4>1. PICK k \in File : n \in lines[k]
          BY <3>1 DEF Kept
        <4>2. k # i + 1
          BY <4>1, <2>2
        <4>3. n \in lines'[IF k = i THEN i + 1 ELSE k]
          BY <4>1, <4>2, <2>1, <2>0
        <4> QED
          BY <4>3 DEF Kept
      <3>2. ASSUME NEW n \in Kept' PROVE n \in Kept
        <4>1. PICK k \in File : n \in lines'[k]
          BY <3>2 DEF Kept
        <4>2. n \in lines[IF k = i + 1 THEN i ELSE k]
          BY <4>1, <2>1
        <4> QED
          BY <4>2 DEF Kept
      <3> QED
        BY <3>1, <3>2
    <2>4. ASSUME NEW j \in File, NEW k \in File, j < k, NEW m \in lines'[j], NEW n \in lines'[k]
          PROVE  n < m
      <3>1. j # i /\ k # i
        BY <2>1, <2>4
      <3> DEFINE J == IF j = i + 1 THEN i ELSE j
                 K == IF k = i + 1 THEN i ELSE k
      <3>2. J \in File /\ K \in File /\ m \in lines[J] /\ n \in lines[K]
        BY <2>1, <2>4, <3>1
      <3>3. J < K
        BY <3>1, <2>4 DEF File
      <3> QED
        BY <3>2, <3>3 DEF KeptInOrder, BackupsOrdered
    <2> QED
      BY <2>3, <2>4 DEF KeptInOrder, BackupsOrdered, NoGap
  <1>2. CASE ~(i \in present \ held /\ i + 1 \notin present)
    BY <1>2 DEF RenameFile, KeptInOrder, BackupsOrdered, NoGap, Kept
  <1> QED
    BY <1>1, <1>2

\* Appending the next line to the log keeps it the newest.
LEMMA WriteKeeps == ASSUME TypeOK, KeptInOrder, WriteToFile PROVE KeptInOrder'
  <1> USE RotationAssumption
  <1>1. \A i \in File : lines'[i] = IF i = 0 THEN lines[0] \cup {written + 1} ELSE lines[i]
    BY DEF WriteToFile, TypeOK, File
  <1>2. written' = written + 1 /\ written \in Nat /\ 0 \in File
    BY DEF WriteToFile, TypeOK, File
  <1>3. \A i \in File : lines[i] \subseteq 1..written
    BY DEF TypeOK
  <1>4. ASSUME NEW i \in File, NEW j \in File, i < j, NEW m \in lines'[i], NEW n \in lines'[j]
        PROVE  n < m
    <2>1. j # 0
      BY <1>4 DEF File
    <2>2. n \in lines[j] /\ n \in 1..written
      BY <1>1, <1>3, <1>4, <2>1
    <2>3. CASE m \in lines[i]
      BY <1>4, <2>2, <2>3 DEF KeptInOrder, BackupsOrdered
    <2>4. CASE m = written + 1
      BY <1>2, <2>2, <2>4
    <2> QED
      BY <1>1, <1>4, <2>3, <2>4
  <1>5. ASSUME NEW m \in Kept', NEW n \in m..written' PROVE n \in Kept'
    <2>1. written + 1 \in Kept'
      BY <1>1, <1>2 DEF Kept
    <2>2. CASE m \in Kept
      <3>1. m \in 1..written
        BY <2>2, <1>3 DEF Kept
      <3>2. n = written + 1 \/ n \in m..written
        BY <1>2, <1>5, <3>1
      <3>3. n \in m..written => n \in Kept
        BY <2>2 DEF KeptInOrder, NoGap
      <3>4. n \in Kept => n \in Kept'
        BY <1>1 DEF Kept
      <3> QED
        BY <2>1, <3>2, <3>3, <3>4
    <2>3. CASE m = written + 1
      BY <1>2, <1>5, <2>1, <2>3
    <2>4. m \in Kept \/ m = written + 1
      BY <1>1, <1>5 DEF Kept
    <2> QED
      BY <2>2, <2>3, <2>4
  <1> QED
    BY <1>4, <1>5 DEF KeptInOrder, BackupsOrdered, NoGap

-----------------------------------------------------------------------------
\* Opening the log leaves the lines of every file alone.
LEMMA OpenType ==
    ASSUME TypeOK, OpenLog, UNCHANGED <<lines, held, written, index, disturbed>>,
           alive' \in BOOLEAN, rotation' = "idle"
    PROVE  TypeOK'
  <1>1. isOpen' \in BOOLEAN
    <2>1. CASE 0 \in held
      BY <2>1 DEF OpenLog
    <2>2. CASE 0 \notin held
      BY <2>2 DEF OpenLog
    <2> QED
      BY <2>1, <2>2
  <1>2. present' = present \cup {0} /\ 0 \in File
    BY RotationAssumption DEF OpenLog, File
  <1> QED
    BY <1>1, <1>2 DEF TypeOK

LEMMA NextType == TypeOK /\ [Next]_vars => TypeOK'
  <1> SUFFICES ASSUME TypeOK, [Next]_vars PROVE TypeOK'
    OBVIOUS
  <1> USE RotationAssumption
  <1>1. CASE WriteToFile
    <2>1. lines' \in [File -> SUBSET (1..written')]
      BY <1>1 DEF WriteToFile, TypeOK, File
    <2>2. \A i \in File \ present' : lines'[i] = {}
      BY <1>1 DEF WriteToFile, TypeOK, File
    <2> QED
      BY <1>1, <2>1, <2>2 DEF WriteToFile, TypeOK
  <1>2. CASE RemoveOldest
    <2>1. maxBackupCount \in File /\ 0 \in File /\ maxBackupCount - 1 \in 0..(maxBackupCount - 1)
      BY DEF File
    <2>2. held' \subseteq present'
      BY <1>2, <2>1 DEF RemoveOldest, RemoveFile, TypeOK
    <2> QED
      BY <1>2, <2>1, <2>2, RemoveType DEF RemoveOldest, TypeOK
  <1>3. CASE ShiftBackup
    <2>1. index \in File /\ index + 1 \in File /\ index # index + 1 /\ 0 \in File
          /\ index # 0 /\ index + 1 # 0 /\ index - 1 \in 0..(maxBackupCount - 1)
      BY <1>3 DEF ShiftBackup, TypeOK, File
    <2> QED
      BY <1>3, <2>1, RenameType DEF ShiftBackup, TypeOK
  <1>4. CASE RenameLog
    <2>1. 0 \in File /\ 1 \in File
      BY DEF File
    <2> QED
      BY <1>4, <2>1, RenameType DEF RenameLog, TypeOK
  <1>5. CASE ReopenLog
    <2>1. /\ OpenLog /\ UNCHANGED <<lines, held, written, index, disturbed>>
          /\ alive' \in BOOLEAN /\ rotation' = "idle"
      BY <1>5 DEF ReopenLog, TypeOK
    <2> QED
      BY <2>1, OpenType
  <1>6. CASE Kill
    BY <1>6 DEF Kill, TypeOK
  <1>7. CASE Initialize
    <2>1. /\ OpenLog /\ UNCHANGED <<lines, held, written, index, disturbed>>
          /\ alive' \in BOOLEAN /\ rotation' = "idle"
      BY <1>7 DEF Initialize, TypeOK
    <2> QED
      BY <2>1, OpenType
  <1>8. ASSUME NEW i \in File, Hold(i) \/ Release(i) PROVE TypeOK'
    <2>1. CASE Hold(i)
      <3>1. held' \subseteq present'
        BY <2>1 DEF Hold, TypeOK
      <3> QED
        BY <2>1, <3>1 DEF Hold, TypeOK
    <2>2. CASE Release(i)
      BY <2>2 DEF Release, TypeOK
    <2> QED
      BY <1>8, <2>1, <2>2
  <1>9. CASE UNCHANGED vars
    BY <1>9 DEF vars, TypeOK
  <1> QED
    BY <1>1, <1>2, <1>3, <1>4, <1>5, <1>6, <1>7, <1>8, <1>9 DEF Next, RotateLogFile

LEMMA NextKeeps == TypeOK /\ KeptInOrder /\ [Next]_vars => KeptInOrder'
  <1> SUFFICES ASSUME TypeOK, KeptInOrder, [Next]_vars PROVE KeptInOrder'
    OBVIOUS
  <1>1. CASE WriteToFile
    BY <1>1, WriteKeeps
  <1>2. CASE RemoveOldest
    BY <1>2, RemoveKeeps DEF RemoveOldest
  <1>3. CASE ShiftBackup
    <2>1. index \in File /\ index + 1 \in File
      BY <1>3, RotationAssumption DEF ShiftBackup, TypeOK, File
    <2> QED
      BY <1>3, <2>1, RenameKeeps DEF ShiftBackup
  <1>4. CASE RenameLog
    <2>1. 0 \in File /\ 0 + 1 \in File /\ 0 + 1 = 1
      BY RotationAssumption DEF File
    <2> QED
      BY <1>4, <2>1, RenameKeeps DEF RenameLog
  <1>5. ASSUME UNCHANGED <<lines, written>> PROVE KeptInOrder'
    BY <1>5 DEF KeptInOrder, BackupsOrdered, NoGap, Kept
  <1>6. ASSUME ~(WriteToFile \/ RemoveOldest \/ ShiftBackup \/ RenameLog)
        PROVE  UNCHANGED <<lines, written>>
    BY <1>6 DEF Next, RotateLogFile, ReopenLog, Kill, Initialize, Hold, Release, vars
  <1> QED
    BY <1>1, <1>2, <1>3, <1>4, <1>5, <1>6

-----------------------------------------------------------------------------
\* Every reachable state is well typed: the stream is open only while the log
\* exists and no rotation is in progress (logger.cpp:128-161).
THEOREM TypeCorrect == Spec => []TypeOK
  BY InitType, NextType, PTL DEF Spec

(***************************************************************************)
(* The files hold the last lines written, in order and without a gap       *)
(* (logger.cpp:144-161), for every number of backups, every size of the    *)
(* log, every failure of remove and rename, and a crash between any two    *)
(* calls.                                                                  *)
(***************************************************************************)
THEOREM KeepsOrder == Spec => []KeptInOrder
  <1>1. Init => KeptInOrder
    BY DEF Init, KeptInOrder, BackupsOrdered, NoGap, Kept
  <1> QED
    BY <1>1, NextKeeps, TypeCorrect, PTL DEF Spec

-----------------------------------------------------------------------------
(***************************************************************************)
(* While nothing interferes, the files are laid out like this: b lines     *)
(* have left the log, and backup i holds those of them that are more than  *)
(* i - 1 and at most i full logs back.  In the midst of a rotation backup  *)
(* index + 1 is free, and what lies above it has moved up already.         *)
(***************************************************************************)

\* The lines of i full logs.
Full(i) == i * (maxFileSize + 1)

Slot(b, i) == {n \in 1..written : b < n + Full(i) /\ n + Full(i - 1) <= b}

Backup == 1..maxBackupCount

Layout(b) ==
    /\ held = {} /\ alive
    /\ b \in 0..written
    /\ lines[0] = {n \in 1..written : b < n}
    /\ rotation = "idle" => written <= b + maxFileSize
    /\ rotation \in {"remove", "shift"} => written = b + Full(1)
    /\ rotation = "reopen" => written = b
    /\ rotation # "shift" => \A i \in Backup : lines[i] = Slot(b, i)
    /\ rotation = "shift" =>
        /\ index + 1 \notin present
        /\ \A i \in Backup : i <= index => lines[i] = Slot(b, i)
        /\ \A i \in Backup : i > index + 1 => lines[i] = Slot(b, i - 1)

Undisturbed == ~disturbed => \E b \in Nat : Layout(b)

LEMMA FullStep ==
    /\ Full(0) = 0 /\ Full(1) = maxFileSize + 1
    /\ \A i \in Nat : Full(i) \in Nat /\ Full(i + 1) = Full(i) + Full(1)
  BY RotationAssumption DEF Full

\* Any distance of less than m full logs lies in one of m slots.
LEMMA FullWithin ==
    ASSUME NEW m \in Nat, NEW d \in Nat, d < Full(m)
    PROVE  \E i \in 1..m : Full(i - 1) <= d /\ d < Full(i)
  <1> DEFINE F == maxFileSize + 1
             q == d \div F
  <1>1. F \in Nat /\ F > 0
    BY RotationAssumption
  <1>2. q \in Nat /\ q * F <= d /\ d < (q + 1) * F
    BY <1>1
  <1>3. q < m
    <2> SUFFICES ASSUME q >= m PROVE FALSE
      BY <1>2
    <2>1. q * F >= m * F
      BY <1>1, <1>2
    <2> QED
      BY <1>1, <1>2, <2>1 DEF Full
  <1>4. q + 1 \in 1..m /\ (q + 1) - 1 = q
    BY <1>2, <1>3
  <1>5. Full(q + 1) = (q + 1) * F /\ Full(q) = q * F
    BY DEF Full
  <1> HIDE DEF q
  <1> QED
    BY <1>2, <1>4, <1>5

LEMMA LogSize ==
    ASSUME NEW w \in Nat, NEW b \in 0..w
    PROVE  IsFiniteSet({n \in 1..w : b < n}) /\ Cardinality({n \in 1..w : b < n}) = w - b
  <1>1. {n \in 1..w : b < n} = (b + 1)..w
    OBVIOUS
  <1>2. Cardinality((b + 1)..w) = w - b /\ IsFiniteSet((b + 1)..w)
    <2>1. b + 1 \in Int /\ w \in Int
      OBVIOUS
    <2>2. /\ IsFiniteSet((b + 1)..w)
          /\ Cardinality((b + 1)..w) = IF b + 1 > w THEN 0 ELSE w - (b + 1) + 1
      BY <2>1, FS_Interval
    <2>3. (IF b + 1 > w THEN 0 ELSE w - (b + 1) + 1) = w - b
      OBVIOUS
    <2> QED
      BY <2>2, <2>3
  <1> QED
    BY <1>1, <1>2

LEMMA SlotSize ==
    ASSUME TypeOK, NEW b \in Nat, NEW i \in Nat \ {0}
    PROVE  Cardinality(Slot(b, i)) <= maxFileSize + 1
  <1>1. /\ Full(i - 1) \in Nat /\ Full(i) = Full(i - 1) + (maxFileSize + 1)
        /\ maxFileSize \in Nat /\ written \in Nat
    <2>1. i - 1 \in Nat /\ (i - 1) + 1 = i
      OBVIOUS
    <2> QED
      BY <2>1, FullStep, RotationAssumption DEF TypeOK
  <1> DEFINE lo == b - Full(i) + 1
             hi == b - Full(i - 1)
  <1>2. lo \in Int /\ hi \in Int /\ hi - lo + 1 = maxFileSize + 1
    BY <1>1
  <1>3. Slot(b, i) \subseteq lo..hi
    BY <1>1 DEF Slot
  <1> HIDE DEF lo, hi
  <1>4. IsFiniteSet(lo..hi) /\ Cardinality(lo..hi) = maxFileSize + 1
    <2>1. /\ IsFiniteSet(lo..hi)
          /\ Cardinality(lo..hi) = IF lo > hi THEN 0 ELSE hi - lo + 1
      BY <1>2, FS_Interval
    <2>2. ~(lo > hi)
      BY <1>1, <1>2
    <2> QED
      BY <1>2, <2>1, <2>2
  <1> QED
    BY <1>3, <1>4, FS_Subset

\* With room above and no file held, a rename moves.
LEMMA RenameMoves ==
    ASSUME TypeOK, held = {}, NEW i \in File, i + 1 \in File, i + 1 \notin present,
           RenameFile(i, i + 1)
    PROVE  /\ i \notin present'
           /\ \A k \in File :
                lines'[k] = IF k = i THEN {} ELSE IF k = i + 1 THEN lines[i] ELSE lines[k]
  <1>0. i # i + 1
    BY DEF File
  <1>1. CASE i \in present
    BY <1>0, <1>1 DEF RenameFile, TypeOK
  <1>2. CASE i \notin present
    BY <1>0, <1>2 DEF RenameFile, TypeOK
  <1> QED
    BY <1>1, <1>2

LEMMA WriteLayout ==
    ASSUME TypeOK, TypeOK', NEW b \in Nat, Layout(b), WriteToFile
    PROVE  Layout(b)'
  <1>1. /\ written \in Nat /\ written' = written + 1 /\ 0 \in File
        /\ rotation = "idle" /\ maxFileSize \in Nat /\ Full(1) = maxFileSize + 1
        /\ b \in 0..written /\ written <= b + maxFileSize
    BY FullStep, RotationAssumption DEF WriteToFile, TypeOK, File, Layout
  <1>2. lines'[0] = {n \in 1..written' : b < n}
    <2>1. lines'[0] = lines[0] \cup {written + 1}
      BY <1>1 DEF WriteToFile, TypeOK
    <2> QED
      BY <1>1, <2>1 DEF Layout
  <1>3. Cardinality(lines'[0]) = written + 1 - b
    <2>1. written' \in Nat /\ b \in 0..written'
      BY <1>1
    <2>2. Cardinality({n \in 1..written' : b < n}) = written' - b
      BY <2>1, LogSize
    <2> QED
      BY <1>1, <1>2, <2>2
  <1>4. /\ rotation' \in {"idle", "remove"}
        /\ rotation' = "idle" => written' <= b + maxFileSize
        /\ rotation' = "remove" => written' = b + Full(1)
    BY <1>1, <1>3 DEF WriteToFile, TooLarge
  <1>5. ASSUME NEW i \in Backup PROVE lines'[i] = Slot(b, i)'
    <2>1. i \in File /\ i # 0 /\ i - 1 \in Nat /\ i \in Nat
      BY <1>5, RotationAssumption DEF Backup, File
    <2>2. lines'[i] = lines[i] /\ lines[i] = Slot(b, i)
      BY <1>1, <2>1 DEF WriteToFile, TypeOK, Layout
    <2>3. Full(i) \in Nat /\ Full(i - 1) \in Nat /\ Full(i)' = Full(i) /\ Full(i - 1)' = Full(i - 1)
      BY <2>1, FullStep DEF Full
    <2>4. Slot(b, i)' = Slot(b, i)
      BY <1>1, <2>3 DEF Slot
    <2> QED
      BY <2>2, <2>4
  <1>6. Full(1)' = Full(1)
    BY DEF Full
  <1> QED
    BY <1>1, <1>2, <1>4, <1>5, <1>6 DEF Layout, WriteToFile

LEMMA RotateLayout ==
    ASSUME TypeOK, TypeOK', NEW b \in Nat, Layout(b), RotateLogFile
    PROVE  Layout(b)' \/ Layout(written)'
  <1>1. /\ written \in Nat /\ b \in 0..written /\ held = {} /\ held' = {} /\ alive' /\ written' = written
        /\ lines[0] = {n \in 1..written : b < n} /\ 0 \in File /\ Backup \subseteq File
        /\ \A k \in Backup : k \in Nat /\ k # 0 /\ k - 1 \in Nat
        /\ maxBackupCount \in Backup /\ maxFileSize \in Nat
    <2>1. /\ 0 \in File /\ Backup \subseteq File /\ maxBackupCount \in Backup /\ maxFileSize \in Nat
          /\ \A k \in Backup : k \in Nat /\ k # 0 /\ k - 1 \in Nat
      BY RotationAssumption DEF File, Backup
    <2>2. /\ written \in Nat /\ b \in 0..written /\ held = {} /\ alive
          /\ lines[0] = {n \in 1..written : b < n}
      BY DEF Layout, TypeOK
    <2>3. held' = held /\ alive' = alive /\ written' = written
      BY DEF RotateLogFile, RemoveOldest, ShiftBackup, RenameLog, ReopenLog
    <2> QED
      BY <2>1, <2>2, <2>3
  <1>2. \A c, k : Slot(c, k)' = Slot(c, k) /\ Full(k)' = Full(k)
    BY <1>1 DEF Slot, Full
  <1>3. CASE RemoveOldest
    <2>1. /\ maxBackupCount \notin present' /\ written = b + Full(1)
          /\ \A i \in File : i # maxBackupCount => lines'[i] = lines[i]
      BY <1>1, <1>3 DEF RemoveOldest, RemoveFile, TypeOK, Layout
    <2>2. rotation' = "shift" /\ rotation = "remove" /\ index' = maxBackupCount - 1
      BY <1>3 DEF RemoveOldest
    <2>3. index' + 1 = maxBackupCount /\ \A i \in Backup : ~(i > index' + 1)
      BY <1>1, <2>2 DEF Backup
    <2>4. \A i \in Backup : i <= index' => lines'[i] = Slot(b, i)
      BY <1>1, <2>1, <2>2, <2>3 DEF Layout
    <2>5. lines'[0] = lines[0]
      BY <1>1, <2>1
    <2> QED
      BY <1>1, <1>2, <2>1, <2>2, <2>3, <2>4, <2>5 DEF Layout
  <1>4. CASE ShiftBackup
    <2>1. /\ rotation = "shift" /\ rotation' = "shift" /\ index' = index - 1 /\ index \in Backup
          /\ index + 1 \in Backup /\ index + 1 \notin present /\ written = b + Full(1)
      BY <1>1, <1>4, RotationAssumption DEF ShiftBackup, TypeOK, Layout, Backup
    <2>2. /\ index \notin present'
          /\ \A k \in File : lines'[k] = IF k = index THEN {}
                                         ELSE IF k = index + 1 THEN lines[index] ELSE lines[k]
      BY <1>1, <1>4, <2>1, RenameMoves DEF ShiftBackup
    <2>3. lines'[0] = lines[0]
      BY <1>1, <2>1, <2>2
    <2>4. ASSUME NEW i \in Backup, i <= index' PROVE lines'[i] = Slot(b, i)
      BY <1>1, <2>1, <2>2, <2>4 DEF Layout
    <2>5. ASSUME NEW i \in Backup, i > index' + 1 PROVE lines'[i] = Slot(b, i - 1)
      <3>1. CASE i = index + 1
        <4>1. lines'[i] = lines[index] /\ i - 1 = index
          BY <1>1, <2>1, <2>2, <3>1
        <4> QED
          BY <1>1, <2>1, <4>1 DEF Layout
      <3>2. CASE i # index + 1
        <4>1. i > index + 1 /\ lines'[i] = lines[i]
          BY <1>1, <2>1, <2>2, <2>5, <3>2
        <4> QED
          BY <2>1, <4>1 DEF Layout
      <3> QED
        BY <3>1, <3>2
    <2>6. index' + 1 = index
      BY <1>1, <2>1
    <2> QED
      BY <1>1, <1>2, <2>1, <2>2, <2>3, <2>4, <2>5, <2>6 DEF Layout
  <1>5. CASE RenameLog
    <2>1. /\ rotation = "shift" /\ rotation' = "reopen" /\ index = 0 /\ 1 \in Backup
          /\ 1 \notin present /\ written = b + Full(1)
      BY <1>1, <1>5, RotationAssumption DEF RenameLog, TypeOK, Layout, Backup
    <2>2. \A k \in File : lines'[k] = IF k = 0 THEN {} ELSE IF k = 1 THEN lines[0] ELSE lines[k]
      <3>1. 0 + 1 = 1
        OBVIOUS
      <3> QED
        BY <1>1, <1>5, <2>1, <3>1, RenameMoves DEF RenameLog
    <2>3. lines'[0] = {n \in 1..written : written < n}
      BY <1>1, <2>2
    <2>4. ASSUME NEW i \in Backup PROVE lines'[i] = Slot(written, i)
      <3>1. CASE i = 1
        <4>1. lines'[i] = {n \in 1..written : b < n}
          BY <1>1, <2>1, <2>2, <3>1
        <4>2. Full(i) = Full(1) /\ Full(i - 1) = 0 /\ Full(1) \in Nat
          BY <3>1, FullStep, RotationAssumption
        <4> QED
          BY <1>1, <2>1, <4>1, <4>2 DEF Slot
      <3>2. CASE i # 1
        <4>1. i - 1 \in Nat /\ i - 2 \in Nat /\ (i - 2) + 1 = i - 1 /\ (i - 1) + 1 = i /\ i > 0 + 1
              /\ (i - 1) - 1 = i - 2
          BY <1>1, <3>2
        <4>2. lines'[i] = Slot(b, i - 1)
          <5>1. i > index + 1 => lines[i] = Slot(b, i - 1)
            BY <2>1 DEF Layout
          <5>2. i > index + 1 /\ i \in File /\ i # 0
            BY <1>1, <2>1, <4>1
          <5> QED
            BY <2>2, <3>2, <5>1, <5>2
        <4>3. /\ Full(i) = Full(i - 1) + Full(1) /\ Full(i - 1) = Full(i - 2) + Full(1)
              /\ Full(i - 2) \in Nat /\ Full(1) \in Nat /\ Full(i - 1) \in Nat
          BY <4>1, FullStep
        <4>4. Slot(b, i - 1) = Slot(written, i)
          BY <1>1, <2>1, <4>1, <4>3 DEF Slot
        <4> QED
          BY <4>2, <4>4
      <3> QED
        BY <3>1, <3>2
    <2> QED
      BY <1>1, <1>2, <2>1, <2>3, <2>4 DEF Layout
  <1>6. CASE ReopenLog
    BY <1>1, <1>2, <1>6 DEF ReopenLog, Layout
  <1> QED
    BY <1>3, <1>4, <1>5, <1>6 DEF RotateLogFile

LEMMA NextUndisturbed == TypeOK /\ Undisturbed /\ [Next]_vars => Undisturbed'
  <1> SUFFICES ASSUME TypeOK, Undisturbed, [Next]_vars, ~disturbed'
               PROVE  \E b \in Nat : Layout(b)'
    BY DEF Undisturbed
  <1>1. TypeOK'
    BY NextType
  <1>2. ~disturbed
    BY DEF Next, RotateLogFile, WriteToFile, RemoveOldest, ShiftBackup, RenameLog, ReopenLog, Kill,
         Initialize, Hold, Release, vars
  <1>3. PICK b \in Nat : Layout(b)
    BY <1>2 DEF Undisturbed
  <1>4. CASE WriteToFile
    BY <1>1, <1>3, <1>4, WriteLayout
  <1>5. CASE RotateLogFile
    BY <1>1, <1>3, <1>5, RotateLayout DEF TypeOK
  <1>6. CASE UNCHANGED vars
    BY <1>3, <1>6 DEF vars, Layout, Slot, Full
  <1>7. ~Kill /\ ~Initialize /\ \A i \in File : ~Hold(i) /\ ~Release(i)
    BY <1>3 DEF Kill, Initialize, Hold, Release, Layout, TypeOK
  <1> QED
    BY <1>4, <1>5, <1>6, <1>7 DEF Next

LEMMA AlwaysUndisturbed == Spec => []Undisturbed
  <1>1. Init => Undisturbed
    <2> SUFFICES ASSUME Init PROVE Layout(0)
      BY DEF Undisturbed
    <2>1. \A i \in File : lines[i] = {}
      BY DEF Init
    <2>2. 0 \in File /\ Backup \subseteq File /\ maxFileSize \in Nat
      BY RotationAssumption DEF File, Backup
    <2>3. \A i \in Backup : Slot(0, i) = {}
      BY DEF Init, Slot
    <2> QED
      BY <2>1, <2>2, <2>3 DEF Init, Layout
  <1> QED
    BY <1>1, NextUndisturbed, TypeCorrect, PTL DEF Spec

(***************************************************************************)
(* A line is kept until as many full logs as there are backups have been   *)
(* written after it (logger.cpp:144-161), for every number of backups and  *)
(* every size of the log, if the files were not held by others and the     *)
(* process was not killed.                                                 *)
(***************************************************************************)
THEOREM Retains == Spec => []Retained
  <1>1. TypeOK /\ Undisturbed => Retained
    <2> SUFFICES ASSUME TypeOK, Undisturbed, ~disturbed, NEW n \in 1..written,
                        written - n < maxBackupCount * (maxFileSize + 1)
                 PROVE  n \in Kept
      BY DEF Retained
    <2>1. PICK b \in Nat : Layout(b)
      BY DEF Undisturbed
    <2>2. /\ written \in Nat /\ n \in Nat /\ b <= written /\ maxBackupCount \in Nat \ {0}
          /\ 0 \in File /\ Backup \subseteq File /\ \A k \in Backup : k \in Nat \ {0}
      BY <2>1, RotationAssumption DEF Layout, TypeOK, File, Backup
    <2>3. CASE b < n
      BY <2>1, <2>2, <2>3 DEF Layout, Kept
    <2>4. CASE ~(b < n)
      <3>1. b - n \in Nat /\ b - n < Full(maxBackupCount)
        <4>1. Full(maxBackupCount) \in Nat
          BY <2>2, FullStep
        <4>2. written - n < Full(maxBackupCount)
          BY DEF Full
        <4> QED
          BY <2>2, <2>4, <4>1, <4>2
      <3>2. PICK i \in Backup : Full(i - 1) <= b - n /\ b - n < Full(i)
        BY <2>2, <3>1, FullWithin DEF Backup
      <3>3. i \in Nat \ {0} /\ Full(i - 1) \in Nat /\ Full(i) \in Nat /\ Full(i) = Full(i - 1) + Full(1)
        <4>1. i \in Nat /\ i - 1 \in Nat /\ (i - 1) + 1 = i
          BY <2>2
        <4> QED
          BY <2>2, <4>1, FullStep
      <3>4. n \in Slot(b, i)
        BY <2>2, <3>2, <3>3 DEF Slot
      <3>5. CASE rotation # "shift"
        BY <2>1, <2>2, <3>4, <3>5 DEF Layout, Kept
      <3>6. CASE rotation = "shift"
        <4>1. CASE i <= index
          BY <2>1, <2>2, <3>4, <3>6, <4>1 DEF Layout, Kept
        <4>2. CASE ~(i <= index) /\ i # maxBackupCount
          <5>1. i + 1 \in Backup /\ i + 1 > index + 1 /\ (i + 1) - 1 = i
            BY <2>2, <3>3, <4>2 DEF Backup, TypeOK
          <5>2. lines[i + 1] = Slot(b, i)
            BY <2>1, <3>6, <5>1 DEF Layout
          <5> QED
            BY <2>2, <3>4, <5>1, <5>2 DEF Kept
        <4>3. CASE i = maxBackupCount
          <5>1. written = b + Full(1) /\ written - n < Full(i) /\ Full(1) \in Nat
            BY <2>1, <3>6, <4>3, FullStep DEF Layout, Full
          <5> QED
            BY <2>2, <3>2, <3>3, <5>1
        <4> QED
          BY <4>1, <4>2, <4>3
      <3> QED
        BY <3>5, <3>6
    <2> QED
      BY <2>3, <2>4
  <1> QED
    BY <1>1, AlwaysUndisturbed, TypeCorrect, PTL

(***************************************************************************)
(* No file has more than one line above the limit (logger.cpp:134-161),    *)
(* under the same condition.                                               *)
(***************************************************************************)
THEOREM BoundsSize == Spec => []SizeBounded
  <1>1. TypeOK /\ Undisturbed => SizeBounded
    <2> SUFFICES ASSUME TypeOK, Undisturbed, ~disturbed, NEW i \in File
                 PROVE  Cardinality(lines[i]) <= maxFileSize + 1
      BY DEF SizeBounded
    <2>1. PICK b \in Nat : Layout(b)
      BY DEF Undisturbed
    <2>2. /\ written \in Nat /\ b \in 0..written /\ maxFileSize \in Nat /\ Full(1) = maxFileSize + 1
          /\ rotation \in {"idle", "remove", "shift", "reopen"} /\ index \in Nat
          /\ i = 0 \/ (i \in Backup /\ i \in Nat \ {0})
      BY <2>1, FullStep, RotationAssumption DEF Layout, TypeOK, File, Backup
    <2>3. CASE i = 0
      <3>1. written - b <= maxFileSize + 1
        BY <2>1, <2>2 DEF Layout
      <3>2. Cardinality(lines[0]) = written - b
        BY <2>1, <2>2, LogSize DEF Layout
      <3> QED
        BY <2>3, <3>1, <3>2
    <2>4. CASE i \in Backup /\ i \in Nat \ {0}
      <3>1. CASE lines[i] = Slot(b, i)
        BY <2>4, <3>1, SlotSize
      <3>2. CASE rotation = "shift" /\ i > index + 1
        <4>1. i - 1 \in Nat \ {0}
          BY <2>2, <2>4, <3>2
        <4>2. lines[i] = Slot(b, i - 1)
          BY <2>1, <2>4, <3>2 DEF Layout
        <4> QED
          BY <4>1, <4>2, SlotSize
      <3>3. CASE rotation = "shift" /\ i = index + 1
        <4>1. lines[i] = {}
          BY <2>1, <3>3 DEF Layout, TypeOK
        <4> QED
          BY <2>2, <4>1, FS_EmptySet
      <3>4. rotation = "shift" => i <= index \/ i = index + 1 \/ i > index + 1
        BY <2>2, <2>4
      <3> QED
        BY <2>1, <2>4, <3>1, <3>2, <3>3, <3>4 DEF Layout
    <2> QED
      BY <2>2, <2>3, <2>4
  <1> QED
    BY <1>1, AlwaysUndisturbed, TypeCorrect, PTL
=============================================================================
