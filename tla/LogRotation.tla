----------------------------- MODULE LogRotation -----------------------------
(***************************************************************************)
(* The log file of logger.cpp and its backups.  WriteToFile appends a line *)
(* and, when the file has grown too large, rotates: the oldest backup is   *)
(* removed, every other one is renamed to the next number, the log becomes *)
(* backup 1 and a new log is opened.  The whole of it runs under mutex_,   *)
(* so threads do not interleave in it, but the file system is shared with  *)
(* other programs and the process may be killed between two calls.  What   *)
(* remove, rename and open return is not looked at.                        *)
(*                                                                         *)
(* File 0 is filePath_ and file i is filePath_.i; a file is the set of the *)
(* lines in it, and lines are numbered in the order they were written.     *)
(***************************************************************************)
EXTENDS Integers, FiniteSets

CONSTANTS
    maxBackupCount,  \* 5
    maxFileSize,     \* in lines of equal length; 10 MB
    MaxLine          \* bound on the lines written

ASSUME RotationAssumption ==
    /\ maxBackupCount \in Nat \ {0}
    /\ maxFileSize \in Nat
    /\ MaxLine \in Nat

File == 0..maxBackupCount

VARIABLES
    present,   \* the files that exist
    lines,     \* what is in each
    held,      \* the files another program has open, which cannot be renamed
    written,   \* lines written so far
    isOpen,    \* fileStream_.is_open()
    alive,     \* is the process running?
    rotation,  \* progress of RotateLogFile
    index,     \* its loop variable
    disturbed  \* has another program held a file, or the process been killed?

vars == <<present, lines, held, written, isOpen, alive, rotation, index,
          disturbed>>

Init ==
    /\ present = {0}
    /\ lines = [i \in File |-> {}]
    /\ held = {}
    /\ written = 0
    /\ isOpen = TRUE
    /\ alive = TRUE
    /\ rotation = "idle"
    /\ index = 0
    /\ disturbed = FALSE

(***************************************************************************)
(* The C library on Windows: remove and rename fail on a file another      *)
(* program has open, and rename does not replace an existing file.         *)
(***************************************************************************)
RemoveFile(i) ==
    IF i \in present \ held
    THEN /\ present' = present \ {i}
         /\ lines' = [lines EXCEPT ![i] = {}]
    ELSE UNCHANGED <<present, lines>>

RenameFile(i, j) ==
    IF i \in present \ held /\ j \notin present
    THEN /\ present' = (present \ {i}) \cup {j}
         /\ lines' = [lines EXCEPT ![j] = lines[i], ![i] = {}]
    ELSE UNCHANGED <<present, lines>>

\* Opening the log to append creates it if it does not exist, and may fail if
\* another program has it open.
OpenLog ==
    /\ present' = present \cup {0}
    /\ isOpen' \in IF 0 \in held THEN BOOLEAN ELSE {TRUE}

-----------------------------------------------------------------------------
\* Mutant: the file is rotated before it has grown too large.
TooLargeEarly(n) == n >= maxFileSize

\* Mutant: it is rotated a line too late.
TooLargeLate(n) == n > maxFileSize + 1

TooLarge(n) == n > maxFileSize

\* WriteToFile appends and flushes a line, then tests the position.
WriteToFile ==
    /\ alive /\ isOpen
    /\ rotation = "idle"
    /\ written < MaxLine
    /\ written' = written + 1
    /\ lines' = [lines EXCEPT ![0] = @ \cup {written + 1}]
    /\ rotation' = IF TooLarge(Cardinality(lines'[0])) THEN "remove" ELSE "idle"
    /\ UNCHANGED <<present, held, isOpen, alive, index, disturbed>>

\* Mutant: the loop starts at maxBackupCount_.
RemoveOldestOffByOne ==
    /\ alive
    /\ rotation = "remove"
    /\ isOpen' = FALSE
    /\ RemoveFile(maxBackupCount)
    /\ rotation' = "shift"
    /\ index' = maxBackupCount
    /\ UNCHANGED <<held, written, alive, disturbed>>

\* Mutant: the newest backup is removed, to make room for the log.
RemoveNewest ==
    /\ alive
    /\ rotation = "remove"
    /\ isOpen' = FALSE
    /\ RemoveFile(1)
    /\ rotation' = "shift"
    /\ index' = maxBackupCount - 1
    /\ UNCHANGED <<held, written, alive, disturbed>>

\* RotateLogFile closes the log and removes the oldest backup.
RemoveOldest ==
    /\ alive
    /\ rotation = "remove"
    /\ isOpen' = FALSE
    /\ RemoveFile(maxBackupCount)
    /\ rotation' = "shift"
    /\ index' = maxBackupCount - 1
    /\ UNCHANGED <<held, written, alive, disturbed>>

\* One iteration of its loop: backup index becomes backup index + 1.
ShiftBackup ==
    /\ alive
    /\ rotation = "shift"
    /\ index >= 1
    /\ RenameFile(index, index + 1)
    /\ index' = index - 1
    /\ UNCHANGED <<held, written, isOpen, alive, rotation, disturbed>>

\* After the loop, the log becomes backup 1.
RenameLog ==
    /\ alive
    /\ rotation = "shift"
    /\ index < 1
    /\ RenameFile(0, 1)
    /\ rotation' = "reopen"
    /\ UNCHANGED <<held, written, isOpen, alive, index, disturbed>>

ReopenLog ==
    /\ alive
    /\ rotation = "reopen"
    /\ OpenLog
    /\ rotation' = "idle"
    /\ UNCHANGED <<lines, held, written, alive, index, disturbed>>

RotateLogFile == RemoveOldest \/ ShiftBackup \/ RenameLog \/ ReopenLog

-----------------------------------------------------------------------------
\* The process is killed; what was flushed stays in the files.
Kill ==
    /\ alive
    /\ alive' = FALSE
    /\ disturbed' = TRUE
    /\ isOpen' = FALSE
    /\ rotation' = "idle"
    /\ UNCHANGED <<present, lines, held, written, index>>

\* It is started again: Initialize opens the log.
Initialize ==
    /\ ~alive
    /\ alive' = TRUE
    /\ OpenLog
    /\ UNCHANGED <<lines, held, written, rotation, index, disturbed>>

\* Another program opens file i, or closes it.
Hold(i) ==
    /\ i \in present \ held
    /\ held' = held \cup {i}
    /\ disturbed' = TRUE
    /\ UNCHANGED <<present, lines, written, isOpen, alive, rotation, index>>

Release(i) ==
    /\ i \in held
    /\ held' = held \ {i}
    /\ UNCHANGED <<present, lines, written, isOpen, alive, rotation, index, disturbed>>

Next ==
    \/ WriteToFile \/ RotateLogFile
    \/ Kill \/ Initialize
    \/ \E i \in File : Hold(i) \/ Release(i)

Spec == Init /\ [][Next]_vars

-----------------------------------------------------------------------------
(***************************************************************************)
(* Properties.                                                             *)
(***************************************************************************)

\* Type invariant; an absent file has no lines.
TypeOK ==
    /\ present \subseteq File
    /\ lines \in [File -> SUBSET (1..written)]
    /\ \A i \in File \ present : lines[i] = {}
    /\ held \subseteq present
    /\ written \in Nat
    /\ isOpen \in BOOLEAN
    /\ alive \in BOOLEAN
    /\ rotation \in {"idle", "remove", "shift", "reopen"}
    /\ index \in 0..(maxBackupCount - 1)
    /\ disturbed \in BOOLEAN
    /\ alive \/ rotation = "idle"
    /\ isOpen => 0 \in present /\ rotation \in {"idle", "remove"}

Kept == UNION {lines[i] : i \in File}

\* A file with a higher number holds older lines.
BackupsOrdered ==
    \A i, j \in File : i < j => \A m \in lines[i], n \in lines[j] : n < m

\* Of two lines the older one is not kept without the newer one.
NoGap == \A m \in Kept : \A n \in m..written : n \in Kept

(***************************************************************************)
(* Read from the highest number down to the log, the files hold the last   *)
(* lines written, in order and with none missing, at every moment: while   *)
(* a rotation runs, after a crash in its midst, and when a remove or a     *)
(* rename failed.  The results that logger.cpp:149-158 ignores cannot do   *)
(* worse than lose the oldest lines.                                       *)
(***************************************************************************)
KeptInOrder == BackupsOrdered /\ NoGap

(***************************************************************************)
(* "Backup count: 5 files" (README.md:241): the log is rotated when it has *)
(* more than maxFileSize lines, so a line is kept until that many times    *)
(* the number of backups have been written after it, unless the files were *)
(* held by others or the process was killed.  That condition is needed: if *)
(* another program holds backup 1, each line written starts a rotation     *)
(* that removes the oldest backup and makes no room (logger.cpp:149-158).  *)
(***************************************************************************)
Retained ==
    ~disturbed => \A n \in 1..written :
        written - n < maxBackupCount * (maxFileSize + 1) => n \in Kept

\* "Maximum file size: 10MB" (README.md:240), give or take the line that makes
\* the log too large, under the same condition.
SizeBounded ==
    ~disturbed => \A i \in File : Cardinality(lines[i]) <= maxFileSize + 1
=============================================================================
