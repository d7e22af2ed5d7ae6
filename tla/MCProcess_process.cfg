\* Every order of a listener's fields, two listeners, and Ctrl+C at any moment.
CONSTANTS
    Quoted <- MCQuoted
    Address = {"0.0.0.0:80", "10.0.0.1:80", "b:1"}
    Numeral = {"4"}
    Http = {"http", "HTTP"}
    Socks5 = {"socks5", "SOCKS5"}
    Documents <- MCDocuments
    Edits <- MCEdits
    Missing <- MCMissing
    Sample <- MCSample
SPECIFICATION FairSpec
INVARIANTS TypeOK TakenDown CrashOnlyStopped SampleOnlyIfUnread
PROPERTIES RulesAsAsked Ends
CHECK_DEADLOCK FALSE
