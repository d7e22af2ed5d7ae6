------------------------------- MODULE Process -------------------------------
(***************************************************************************)
(* main.cpp: how the process starts, runs and stops.  The main thread      *)
(* loads config.json two times, starts the IOCP manager, makes a proxy for *)
(* each rule, waits for SIGINT and takes everything down.  Beside it run   *)
(* the statistics thread and one detached accept thread for each listening *)
(* socket: that of a TCP rule is a member function of the manager, that of *)
(* an HTTP or SOCKS5 rule one of the proxy object.                         *)
(*                                                                         *)
(* What the threads do with a client is in IOCPManager, TargetSelection    *)
(* and ProxyAccept; that Shutdown, which joins the workers, returns is     *)
(* checked there.  The IOContext pool is filled at start and stays so.     *)
(***************************************************************************)
EXTENDS Configuration

CONSTANTS
    Documents,  \* contents config.json may have
    Edits,      \* contents it may be given while the program starts
    Missing,    \* there is no config.json
    Sample      \* what main writes as a sample

\* What is found in each content of config.json.
Content ==
    [d \in Documents \cup Edits |-> IF d = Missing THEN Missing ELSE Scanned(Text(d))]

ASSUME DocumentsAssumption ==
    /\ (Documents \cup Edits) \ {Missing} \subseteq Document
    /\ Sample \in Documents

VARIABLES
    pc,        \* the main thread
    next,      \* its loop variable: the rule in hand
    config,    \* config: what it has read
    file,      \* the configuration file: config.json, or the one named with -c
    edited,    \* has it been edited since the program was started?
    barred,    \* could it not be opened although it was there?
    sample,    \* the file main has written the sample to: "none", "read" (the
               \* one it had to read) or "other" (config.json beside that one)
    running,   \* g_running
    handler,   \* what SIGINT does: "default" or "ours"
    winsock,   \* is Winsock initialised?
    manager,   \* *g_iocpManager
    proxy,     \* the proxy object of each rule
    open,      \* the rules whose listening socket is open
    thread,    \* the accept thread of each rule
    stats,     \* the statistics thread
    exit       \* how the process ended

vars == <<pc, next, config, file, edited, barred, sample, running, handler, winsock,
          manager, proxy, open, thread, stats, exit>>

startVars == <<config, file, edited, barred, sample>>
signalVars == <<running, handler>>
threadVars == <<thread, stats>>

Rule == DOMAIN config.rules

Init ==
    /\ pc = "load1"
    /\ next = 1
    /\ config = NoConfig
    /\ file \in Documents
    /\ edited = FALSE
    /\ barred = FALSE
    /\ sample = "none"
    /\ running = TRUE
    /\ handler = "default"
    /\ winsock = FALSE
    /\ manager = "none"
    /\ proxy = <<>>
    /\ open = {}
    /\ thread = <<>>
    /\ stats = "none"
    /\ exit = "none"

At(label) == exit = "none" /\ pc = label

-----------------------------------------------------------------------------
(***************************************************************************)
(* The main thread: start.                                                 *)
(***************************************************************************)

\* LoadFromFile fails on a file that has no complete rule or cannot be opened:
\* it is not there, or another program holds it.  main goes on at one of two
\* labels, or never.
Load(success, failure) ==
    /\ \/ /\ pc' = failure
          /\ barred' = (barred \/ file # Missing)
          /\ UNCHANGED config
       \/ /\ file # Missing
          /\ config' = LoadFromJson(config, Content[file])
          /\ pc' = CASE ~Content[file].ends                            -> "hung"
                     [] Content[file].ends /\ config'.rules = <<>>     -> failure
                     [] OTHER                                          -> success
          /\ UNCHANGED barred
    /\ proxy' = [r \in DOMAIN config'.rules |-> "none"]
    /\ thread' = [r \in DOMAIN config'.rules |-> "none"]

\* Mutant: the program goes on when the first one has failed.
LoadFirstGoesOn ==
    /\ At("load1")
    /\ Load("signals", "signals")
    /\ UNCHANGED <<next, file, edited, sample, signalVars, winsock, manager, open, stats, exit>>

LoadFirst ==
    /\ At("load1")
    /\ Load("signals", "fail")
    /\ UNCHANGED <<next, file, edited, sample, signalVars, winsock, manager, open, stats, exit>>

InstallHandler ==
    /\ At("signals")
    /\ handler' = "ours"
    /\ pc' = "winsock"
    /\ UNCHANGED <<next, startVars, running, winsock, manager, proxy, open, threadVars, exit>>

InitWinsock ==
    /\ At("winsock")
    /\ \/ winsock' = TRUE /\ pc' = "load2"
       \/ winsock' = FALSE /\ pc' = "fail"
    /\ UNCHANGED <<next, startVars, signalVars, manager, proxy, open, threadVars, exit>>

LoadSecond ==
    /\ At("load2")
    /\ Load("manager", "sample")
    /\ UNCHANGED <<next, file, edited, sample, signalVars, winsock, manager, open, stats, exit>>

\* The sample is written to config.json, if that can be opened, whether or not
\* another file was named with -c.
WriteSample ==
    /\ At("sample")
    /\ sample' \in {"none", "read", "other"}
    /\ file' = IF sample' = "read" THEN Sample ELSE file
    /\ pc' = "cleanupFail"
    /\ UNCHANGED <<next, config, edited, barred, signalVars, winsock, manager, proxy, open,
                   threadVars, exit>>

StartManager ==
    /\ At("manager")
    /\ \/ manager' = "up" /\ pc' = "create"
       \/ manager' = "none" /\ pc' = "cleanupFail"
    /\ UNCHANGED <<next, startVars, signalVars, winsock, proxy, open, threadVars, exit>>

\* A proxy is initialised: its accept thread runs, and it enters g_proxies.
Ready(r) ==
    /\ proxy' = [proxy EXCEPT ![r] = "ready"]
    /\ thread' = [thread EXCEPT ![r] = "check"]
    /\ next' = r + 1
    /\ pc' = "create"

\* It is not, and is destroyed.
Failed(r) ==
    /\ proxy' = [proxy EXCEPT ![r] = "destroyed"]
    /\ next' = r + 1
    /\ pc' = "create"
    /\ UNCHANGED thread

\* CreateListener; what it has opened when a later call fails it closes.
CreateListener ==
    /\ At("create")
    /\ next \in Rule
    /\ \/ Failed(next) /\ UNCHANGED open
       \/ /\ open' = open \cup {next}
          /\ IF config.rules[next].type = "TCP"
             THEN pc' = "register" /\ UNCHANGED <<next, proxy, thread>>
             ELSE Ready(next)
    /\ UNCHANGED <<startVars, signalVars, winsock, manager, stats, exit>>

\* Mutant: listenSocket_ is forgotten, not closed, when RegisterListener fails.
RegisterListenerLeaking ==
    /\ At("register")
    /\ \/ Ready(next) /\ UNCHANGED open
       \/ Failed(next) /\ UNCHANGED open
    /\ UNCHANGED <<startVars, signalVars, winsock, manager, stats, exit>>

\* Mutant: the failure does not end Initialize.
RegisterListenerGoesOn ==
    /\ At("register")
    /\ \/ Ready(next) /\ UNCHANGED open
       \/ /\ next' = next + 1
          /\ open' = open \ {next}
          /\ UNCHANGED <<pc, proxy, thread>>
    /\ UNCHANGED <<startVars, signalVars, winsock, manager, stats, exit>>

\* TcpForwarder::Initialize calls RegisterListener.
RegisterListener ==
    /\ At("register")
    /\ \/ Ready(next) /\ UNCHANGED open
       \/ Failed(next) /\ open' = open \ {next}
    /\ UNCHANGED <<startVars, signalVars, winsock, manager, stats, exit>>

AllCreated ==
    /\ At("create")
    /\ next \notin Rule
    /\ next' = 1
    /\ IF \E r \in Rule : proxy[r] = "ready"
       THEN stats' = "check" /\ pc' = "run" /\ UNCHANGED manager
       ELSE manager' = "shut" /\ pc' = "cleanupFail" /\ UNCHANGED stats
    /\ UNCHANGED <<startVars, signalVars, winsock, proxy, open, thread, exit>>

-----------------------------------------------------------------------------
(***************************************************************************)
(* The main thread: stop.                                                  *)
(***************************************************************************)

LeaveLoop ==
    /\ At("run")
    /\ ~running
    /\ pc' = "join"
    /\ UNCHANGED <<next, startVars, signalVars, winsock, manager, proxy, open, threadVars, exit>>

JoinStats ==
    /\ At("join")
    /\ stats = "done"
    /\ pc' = "stop"
    /\ UNCHANGED <<next, startVars, signalVars, winsock, manager, proxy, open, threadVars, exit>>

\* proxy->Stop() for each proxy.
StopProxy ==
    /\ At("stop")
    /\ next \in Rule
    /\ proxy' = [proxy EXCEPT ![next] = IF @ = "ready" THEN "stopped" ELSE @]
    /\ open' = open \ {next}
    /\ next' = next + 1
    /\ UNCHANGED <<pc, startVars, signalVars, winsock, manager, threadVars, exit>>

\* Mutant: the proxies are destroyed, and the manager, before they are stopped.
AllStoppedFirst ==
    /\ At("stop")
    /\ next = 1
    /\ pc' = "clear"
    /\ manager' = "destroyed"
    /\ UNCHANGED <<next, startVars, signalVars, winsock, proxy, open, threadVars, exit>>

AllStopped ==
    /\ At("stop")
    /\ next \notin Rule
    /\ next' = 1
    /\ pc' = "clear"
    /\ UNCHANGED <<startVars, signalVars, winsock, manager, proxy, open, threadVars, exit>>

\* g_proxies.clear(): a destructor calls Stop and the object is gone.
ClearProxy ==
    /\ At("clear")
    /\ next \in Rule
    /\ proxy' = [proxy EXCEPT ![next] = "destroyed"]
    /\ open' = open \ {next}
    /\ next' = next + 1
    /\ UNCHANGED <<pc, startVars, signalVars, winsock, manager, threadVars, exit>>

AllCleared ==
    /\ At("clear")
    /\ next \notin Rule
    /\ manager' = "shut"
    /\ pc' = "reset"
    /\ UNCHANGED <<next, startVars, signalVars, winsock, proxy, open, threadVars, exit>>

ResetManager ==
    /\ At("reset")
    /\ manager' = "destroyed"
    /\ pc' = "cleanup"
    /\ UNCHANGED <<next, startVars, signalVars, winsock, proxy, open, threadVars, exit>>

CleanupWinsock ==
    /\ exit = "none"
    /\ pc \in {"cleanup", "cleanupFail"}
    /\ winsock' = FALSE
    /\ pc' = IF pc = "cleanup" THEN "return" ELSE "fail"
    /\ UNCHANGED <<next, startVars, signalVars, manager, proxy, open, threadVars, exit>>

\* main returns; the threads that are left end with the process.
Return ==
    /\ exit = "none"
    /\ pc \in {"return", "fail"}
    /\ exit' = IF pc = "return" THEN "0" ELSE "1"
    /\ UNCHANGED <<pc, next, startVars, signalVars, winsock, manager, proxy, open, threadVars>>

Main ==
    \/ LoadFirst \/ InstallHandler \/ InitWinsock \/ LoadSecond \/ WriteSample
    \/ StartManager \/ CreateListener \/ RegisterListener \/ AllCreated
    \/ LeaveLoop \/ JoinStats \/ StopProxy \/ AllStopped \/ ClearProxy \/ AllCleared
    \/ ResetManager \/ CleanupWinsock \/ Return

-----------------------------------------------------------------------------
(***************************************************************************)
(* The other threads.                                                      *)
(***************************************************************************)

\* Mutant: it ends only if it sees the signal when it wakes up.
StatsLoopOnce ==
    /\ exit = "none"
    /\ \/ stats = "check" /\ stats' = "sleep"
       \/ stats = "sleep" /\ stats' = IF running THEN "check" ELSE "sleep"
    /\ UNCHANGED <<pc, next, startVars, signalVars, winsock, manager, proxy, open, thread, exit>>

\* StatsThread sleeps between its tests of g_running.
StatsLoop ==
    /\ exit = "none"
    /\ \/ stats = "check" /\ stats' = IF running THEN "sleep" ELSE "done"
       \/ stats = "sleep" /\ stats' = "check"
    /\ UNCHANGED <<pc, next, startVars, signalVars, winsock, manager, proxy, open, thread, exit>>

\* The object whose members the accept thread of r uses, and its running_.
OwnerDestroyed(r) ==
    IF config.rules[r].type = "TCP" THEN manager = "destroyed" ELSE proxy[r] = "destroyed"
OwnerRunning(r) ==
    IF config.rules[r].type = "TCP" THEN manager = "up" ELSE proxy[r] = "ready"

\* It tests running_; serves a client it has accepted; or is in accept, which
\* returns with a client or because the socket was closed.
AcceptLoop(r) ==
    /\ exit = "none"
    /\ \/ /\ thread[r] = "check" /\ ~OwnerDestroyed(r)
          /\ thread' = [thread EXCEPT ![r] = IF OwnerRunning(r) THEN "accept" ELSE "done"]
       \/ /\ thread[r] = "accept"
          /\ thread' = [thread EXCEPT ![r] = IF r \in open THEN "serve" ELSE "check"]
       \/ /\ thread[r] = "serve" /\ ~OwnerDestroyed(r)
          /\ thread' = [thread EXCEPT ![r] = "check"]
    /\ UNCHANGED <<pc, next, startVars, signalVars, winsock, manager, proxy, open, stats, exit>>

\* It uses members of an object that was destroyed: it may end, go on, or
\* bring the process down.
UseDestroyed(r) ==
    /\ exit = "none"
    /\ thread[r] \in {"check", "serve"} /\ OwnerDestroyed(r)
    /\ \/ /\ \E s \in {"check", "accept", "done"} : thread' = [thread EXCEPT ![r] = s]
          /\ UNCHANGED exit
       \/ exit' = "crashed" /\ UNCHANGED thread
    /\ UNCHANGED <<pc, next, startVars, signalVars, winsock, manager, proxy, open, stats>>

-----------------------------------------------------------------------------
(***************************************************************************)
(* The user.                                                               *)
(***************************************************************************)

\* SignalHandler; the C library restores the default before it calls it.
Interrupt ==
    /\ exit = "none"
    /\ IF handler = "ours"
       THEN running' = FALSE /\ handler' = "default" /\ UNCHANGED exit
       ELSE exit' = "killed" /\ UNCHANGED signalVars
    /\ UNCHANGED <<pc, next, startVars, winsock, manager, proxy, open, threadVars>>

\* config.json is edited, once; after the second load nobody reads it.
Edit ==
    /\ exit = "none"
    /\ pc \in {"load1", "signals", "winsock", "load2"}
    /\ ~edited
    /\ edited' = TRUE
    /\ file' \in Edits
    /\ UNCHANGED <<pc, next, config, barred, sample, signalVars, winsock, manager, proxy, open,
                   threadVars, exit>>

Next ==
    \/ Main \/ StatsLoop
    \/ \E r \in Rule : AcceptLoop(r) \/ UseDestroyed(r)
    \/ Interrupt \/ Edit

Spec == Init /\ [][Next]_vars

\* The main thread and the statistics thread are scheduled, and wake up.
FairSpec == Spec /\ WF_vars(Main) /\ WF_vars(StatsLoop)

-----------------------------------------------------------------------------
(***************************************************************************)
(* Properties.                                                             *)
(***************************************************************************)

\* Type invariant.
TypeOK ==
    /\ pc \in {"load1", "hung", "signals", "winsock", "load2", "sample", "manager", "create",
               "register", "run", "join", "stop", "clear", "reset", "cleanup", "cleanupFail",
               "return", "fail"}
    /\ next \in Nat \ {0}
    /\ pc = "register" => next \in Rule
    /\ edited \in BOOLEAN /\ barred \in BOOLEAN /\ sample \in {"none", "read", "other"}
    /\ running \in BOOLEAN /\ handler \in {"default", "ours"}
    /\ winsock \in BOOLEAN
    /\ manager \in {"none", "up", "shut", "destroyed"}
    /\ proxy \in [Rule -> {"none", "ready", "stopped", "destroyed"}]
    /\ open \subseteq Rule
    /\ thread \in [Rule -> {"none", "check", "accept", "serve", "done"}]
    /\ stats \in {"none", "check", "sleep", "done"}
    /\ exit \in {"none", "0", "1", "killed", "crashed"}

(***************************************************************************)
(* Whatever fails at start and whenever SIGINT comes: a listening socket   *)
(* that is open belongs to a proxy that main knows of and has not stopped, *)
(* or to the one it is making; and when main returns, all that it had      *)
(* opened and started was taken down.                                      *)
(***************************************************************************)
TakenDown ==
    /\ \A r \in open : proxy[r] = "ready" \/ (pc = "register" /\ r = next)
    /\ exit \in {"0", "1"} =>
        open = {} /\ ~winsock /\ manager # "up" /\ stats \in {"none", "done"}

(***************************************************************************)
(* The detached accept threads can bring the process down when they use an *)
(* object main has destroyed (main.cpp:270-274), but by then every proxy   *)
(* was stopped, no socket listens and nobody waits for the statistics.     *)
(***************************************************************************)
CrashOnlyStopped ==
    exit = "crashed" => open = {} /\ stats = "done" /\ \A r \in Rule : proxy[r] # "ready"

(***************************************************************************)
(* config.json is overwritten with the sample (main.cpp:155-188) only if   *)
(* the configuration file was edited between the two loads, or could not   *)
(* be opened a second time (config.cpp:134): on a file that was bad from   *)
(* the start the program ends at main.cpp:128.  The file that is lost need *)
(* not be that one: main.cpp:161 writes config.json even if -c named       *)
(* another file, and then what was never read is lost.                     *)
(***************************************************************************)
SampleOnlyIfUnread == sample # "none" => edited \/ barred

(***************************************************************************)
(* What the scan of the text finds is what the document says, and it comes *)
(* to an end, if no string of a listener is a key and arrays hold strings  *)
(* only: in whichever order the fields are, and although config is used    *)
(* for two texts (main.cpp:128 and 156).  The rules are those of the       *)
(* listeners that README.md:114-125 asks for, but for the HTTP and SOCKS5  *)
(* ones without targets, which config.cpp:202 drops: the proxies of        *)
(* README.md:101-110 and of main.cpp:174-183 are never made.  And of the   *)
(* number of workers only one in quotes is heard: README.md:91 and         *)
(* main.cpp:164 write it without.                                          *)
(***************************************************************************)
RulesAsAsked ==
    [][pc' # pc /\ pc \in {"load1", "load2"} /\ file # Missing /\ ~barred' /\ Plain(file) =>
        /\ pc' # "hung"
        /\ config'.rules = Listeners(file, Asked(file) \ Unserved(file))
        /\ config'.workers = AskedWorkers(file, config.workers)]_vars

(***************************************************************************)
(* Once SIGINT was handled, at any moment of the start or the run, the     *)
(* process comes to its end: main.cpp:236-241.  While it waits, up to 30   *)
(* seconds, for the statistics thread, a second SIGINT kills it.  A config *)
(* that cannot be scanned (config.cpp:56) hangs it for ever.               *)
(***************************************************************************)
Ends == ~running ~> (exit # "none" \/ pc = "hung")
=============================================================================
