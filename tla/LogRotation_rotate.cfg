\* The process may be killed at any moment and other programs hold files open.
CONSTANTS
    maxBackupCount = 3
    maxFileSize = 1
    MaxLine = 10
SPECIFICATION Spec
INVARIANTS TypeOK KeptInOrder Retained SizeBounded
CHECK_DEADLOCK FALSE
