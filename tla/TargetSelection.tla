--------------------------- MODULE TargetSelection ---------------------------
(***************************************************************************)
(* How the IOCP manager chooses a backend for an accepted client: the main *)
(* thread enters the rule of each TCP listener in listenerRules_ and       *)
(* starts its accept thread (RegisterListener); an accept thread looks its *)
(* rule up, takes the next target of the rule's name (GetNextTarget) and   *)
(* connects to it.                                                         *)
(*                                                                         *)
(* listenerRules_ has no lock.  While the main thread enters a rule, the   *)
(* accept threads of the listeners that came before search the same        *)
(* unordered_map: a data race, in which a search that overlaps with the    *)
(* rehashing of the buckets may miss an entry that is there, never return, *)
(* or follow a pointer that was freed and bring the process down.          *)
(*                                                                         *)
(* A backend is a rule and a position in rule.targets, from 0 as in the    *)
(* code.  rule.balance is parsed by config.cpp and read by nobody.         *)
(***************************************************************************)
EXTENDS Integers

CONSTANTS
    Listener,   \* TCP listeners, each with its rule
    NameOf,     \* the name of each listener's rule
    Size,       \* the number of targets of each listener's rule
    None,       \* no listener, no backend
    MaxPick     \* bound on the targets taken for each name

Name == {NameOf[l] : l \in Listener}
Target(l) == 0..(Size[l] - 1)
Backend == UNION {{l} \X Target(l) : l \in Listener}

\* config.cpp drops a rule without targets.
ASSUME RulesAssumption ==
    /\ Size \in [Listener -> Nat \ {0}]
    /\ None \notin Listener \cup Backend
    /\ MaxPick \in Nat

\* "Unique name for the listener", which config.cpp does not check.
UniqueNames == \A l, m \in Listener : NameOf[l] = NameOf[m] => l = m

VARIABLES
    listenerRules,    \* the listeners whose rule has been entered
    inserting,        \* the listener whose rule the main thread is entering
    roundRobinIndex,  \* by name
    pc, target,       \* of the accept threads
    picks,            \* how often each backend was chosen
    active,           \* connections open to each backend
    refused,          \* listeners that closed a client for lack of a target
    crashed           \* has the race brought the process down?

vars == <<listenerRules, inserting, roundRobinIndex, pc, target, picks, active, refused, crashed>>

Init ==
    /\ listenerRules = {}
    /\ inserting = None
    /\ roundRobinIndex = [n \in Name |-> 0]
    /\ pc = [l \in Listener |-> "idle"]
    /\ target = [l \in Listener |-> None]
    /\ picks = [b \in Backend |-> 0]
    /\ active = [b \in Backend |-> 0]
    /\ refused = {}
    /\ crashed = FALSE

\* Mutant: the accept thread is started before the rule is entered.
BeginRegisterStarted(l) ==
    /\ inserting = None
    /\ l \notin listenerRules
    /\ inserting' = l
    /\ pc' = [pc EXCEPT ![l] = "accept"]
    /\ UNCHANGED <<listenerRules, roundRobinIndex, target, picks, active, refused>>

\* RegisterListener starts to enter the rule of l ...
BeginRegister(l) ==
    /\ inserting = None
    /\ l \notin listenerRules
    /\ inserting' = l
    /\ UNCHANGED <<listenerRules, roundRobinIndex, pc, target, picks, active, refused>>

\* ... has entered it, and starts the accept thread.
EndRegister(l) ==
    /\ inserting = l
    /\ inserting' = None
    /\ listenerRules' = listenerRules \cup {l}
    /\ pc' = [pc EXCEPT ![l] = "accept"]
    /\ UNCHANGED <<roundRobinIndex, target, picks, active, refused>>

\* accept returns a client's socket.
Accept(l) ==
    /\ pc[l] = "accept"
    /\ roundRobinIndex[NameOf[l]] < MaxPick
    /\ pc' = [pc EXCEPT ![l] = "find"]
    /\ UNCHANGED <<listenerRules, inserting, roundRobinIndex, target, picks, active, refused>>

\* A search of listenerRules_ races with the insertion: it misses what is there ...
Missed == inserting # None

\* ... or crashes.  (One that never returns is a thread that takes no more steps.)
Crash(l) ==
    /\ pc[l] \in {"find", "pick"}
    /\ Missed
    /\ crashed' = TRUE
    /\ UNCHANGED <<listenerRules, inserting, roundRobinIndex, pc, target, picks, active, refused>>

\* The client's socket is closed.
Refuse(l) ==
    /\ pc' = [pc EXCEPT ![l] = "accept"]
    /\ refused' = refused \cup {l}
    /\ UNCHANGED <<roundRobinIndex, target, picks>>

\* HandleAccept: listenerRules_.find(listenSocket).
FindRule(l) ==
    /\ pc[l] = "find"
    /\ \/ /\ l \in listenerRules
          /\ pc' = [pc EXCEPT ![l] = "pick"]
          /\ UNCHANGED <<roundRobinIndex, target, picks, refused>>
       \/ Missed /\ Refuse(l)
    /\ UNCHANGED <<listenerRules, inserting, active>>

\* Mutant: the rotation leaves out the last target.
PositionShort(r) ==
    roundRobinIndex[NameOf[r]] % (IF Size[r] = 1 THEN 1 ELSE Size[r] - 1)

Position(r) == roundRobinIndex[NameOf[r]] % Size[r]

\* Mutant: the search does not compare names.
NamedAny(l) == listenerRules

\* The rules GetNextTarget may find: the first of that name, in no set order.
Named(l) == {r \in listenerRules : NameOf[r] = NameOf[l]}

\* GetNextTarget, under balanceMutex_.
GetNextTarget(l) ==
    /\ pc[l] = "pick"
    /\ \/ \E r \in Named(l) :
            /\ target' = [target EXCEPT ![l] = <<r, Position(r)>>]
            /\ picks' = [picks EXCEPT ![<<r, Position(r)>>] = @ + 1]
            /\ roundRobinIndex' = [roundRobinIndex EXCEPT ![NameOf[l]] = @ + 1]
            /\ pc' = [pc EXCEPT ![l] = "connect"]
            /\ UNCHANGED refused
       \/ Missed /\ Refuse(l)
    /\ UNCHANGED <<listenerRules, inserting, active>>

\* ConnectToTarget fails: no other target is tried.
ConnectFailed(l) ==
    /\ pc[l] = "connect"
    /\ pc' = [pc EXCEPT ![l] = "accept"]
    /\ target' = [target EXCEPT ![l] = None]
    /\ UNCHANGED <<listenerRules, inserting, roundRobinIndex, picks, active, refused>>

Connected(l) ==
    /\ pc[l] = "connect"
    /\ active' = [active EXCEPT ![target[l]] = @ + 1]
    /\ pc' = [pc EXCEPT ![l] = "accept"]
    /\ target' = [target EXCEPT ![l] = None]
    /\ UNCHANGED <<listenerRules, inserting, roundRobinIndex, picks, refused>>

\* A connection to backend b is closed; the selection is not told.
Disconnect(b) ==
    /\ active[b] > 0
    /\ active' = [active EXCEPT ![b] = @ - 1]
    /\ UNCHANGED <<listenerRules, inserting, roundRobinIndex, pc, target, picks, refused>>

Run ==
    \/ \E l \in Listener :
        \/ BeginRegister(l) \/ EndRegister(l)
        \/ Accept(l) \/ FindRule(l) \/ GetNextTarget(l)
        \/ ConnectFailed(l) \/ Connected(l)
    \/ \E b \in Backend : Disconnect(b)

Next ==
    /\ ~crashed
    /\ \/ Run /\ UNCHANGED crashed
       \/ \E l \in Listener : Crash(l)

Spec == Init /\ [][Next]_vars

-----------------------------------------------------------------------------
(***************************************************************************)
(* Properties.                                                             *)
(***************************************************************************)

\* Type invariant; the threads that run are those of the rules entered, and a
\* thread that connects has a target.
TypeOK ==
    /\ listenerRules \subseteq Listener
    /\ inserting \in (Listener \ listenerRules) \cup {None}
    /\ roundRobinIndex \in [Name -> Nat]
    /\ pc \in [Listener -> {"idle", "accept", "find", "pick", "connect"}]
    /\ \A l \in Listener : pc[l] = "idle" <=> l \notin listenerRules
    /\ target \in [Listener -> Backend \cup {None}]
    /\ \A l \in Listener : target[l] # None <=> pc[l] = "connect"
    /\ picks \in [Backend -> Nat]
    /\ active \in [Backend -> Nat]
    /\ refused \subseteq Listener
    /\ crashed \in BOOLEAN

(***************************************************************************)
(* The rotation at any moment: the targets before the current position     *)
(* have been chosen once more than the rest, the last one among them.      *)
(***************************************************************************)
Rotation ==
    \A l \in Listener : \A i \in Target(l) :
        picks[<<l, i>>] = picks[<<l, Size[l] - 1>>] + IF i < Position(l) THEN 1 ELSE 0

(***************************************************************************)
(* "Distribute connections evenly across backends" (README.md:136): no     *)
(* target of a rule is ever chosen two times more than another one, if     *)
(* names are unique, whatever the accept threads of other listeners do.    *)
(***************************************************************************)
EvenlyDistributed ==
    UniqueNames =>
        \A l \in Listener : \A i, j \in Target(l) : picks[<<l, i>>] <= picks[<<l, j>>] + 1

\* A client is connected to a target of the listener it came to, if names are
\* unique: what is found by name at iocp.cpp:215 is the rule found by socket.
OwnTarget ==
    UniqueNames => \A l \in Listener : target[l] # None => target[l][1] = l

(***************************************************************************)
(* A listener turns a client away for lack of a target only if the rule of *)
(* another listener was entered or is being entered: its own rule was      *)
(* there before its thread was started (iocp.cpp:85-88), and all that a    *)
(* search can race with is the insertion of another one.                   *)
(***************************************************************************)
RefusedForAnother ==
    \A l \in refused : \E m \in Listener \ {l} : m \in listenerRules \/ m = inserting

-----------------------------------------------------------------------------
(***************************************************************************)
(* A statement of the repository that the code does not live up to.        *)
(***************************************************************************)

\* "least_connections - Route to server with fewest active connections"
\* (README.md:138), for a rule that asks for it.
LeastLoaded ==
    [][\A l \in Listener : pc[l] = "pick" /\ pc'[l] = "connect" =>
        \A i \in Target(l) : active[target'[l]] <= active[<<l, i>>]]_vars
=============================================================================
