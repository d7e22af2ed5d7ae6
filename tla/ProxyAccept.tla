----------------------------- MODULE ProxyAccept -----------------------------
(***************************************************************************)
(* The accept loop of an HTTP or SOCKS5 proxy, run by a detached thread,   *)
(* against the main thread, which stops the proxy and destroys it.  The    *)
(* two classes have the same AcceptLoop, Stop, CloseConnection and         *)
(* destructor; the lines quoted are those of http_proxy.cpp.               *)
(*                                                                         *)
(* AcceptLoop posts a WSARecv for each client, on a socket that no call    *)
(* associates with the completion port and with no event: its outcome is   *)
(* written in the OVERLAPPED and no thread is told.                        *)
(*                                                                         *)
(* connectionCount_ is read by nobody and is left out.                     *)
(***************************************************************************)
CONSTANTS
    Client,      \* clients that may connect: a bound on how many are accepted
    None,        \* INVALID_SOCKET
    Interrupts   \* may SIGINT arrive?

ASSUME ClientsAssumption ==
    /\ None \notin Client
    /\ Interrupts \in BOOLEAN

VARIABLES
    running,      \* running_
    listening,    \* is listenSocket_ open?
    connections,  \* connections_: clients entered
    pc, cur,      \* the accept thread, and its clientSocket
    mainPc,       \* the main thread
    accepted,     \* clients accepted so far
    open,         \* clients whose socket is open
    io            \* the outcome of each client's WSARecv

vars == <<running, listening, connections, pc, cur, mainPc, accepted, open, io>>

Init ==
    /\ running = TRUE
    /\ listening = TRUE
    /\ connections = {}
    /\ pc = "loop"
    /\ cur = None
    /\ mainPc = "run"
    /\ accepted = {}
    /\ open = {}
    /\ io = [c \in Client |-> "none"]

\* Once the proxy is destroyed, what its accept thread does is undefined: the
\* thread's steps end there.
Alive == mainPc # "destroyed"

-----------------------------------------------------------------------------
(***************************************************************************)
(* The accept thread.                                                      *)
(***************************************************************************)

Loop ==
    /\ Alive
    /\ pc = "loop"
    /\ pc' = IF running THEN "accept" ELSE "exit"
    /\ UNCHANGED <<running, listening, connections, cur, mainPc, accepted, open, io>>

\* accept returns a client's socket ...
Accept ==
    /\ Alive
    /\ pc = "accept"
    /\ listening
    /\ \E c \in Client \ accepted :
        /\ accepted' = accepted \cup {c}
        /\ open' = open \cup {c}
        /\ cur' = c
    /\ pc' = "insert"
    /\ UNCHANGED <<running, listening, connections, mainPc, io>>

\* Mutant: the loop goes on with INVALID_SOCKET.
AcceptFailedUnchecked ==
    /\ Alive
    /\ pc = "accept"
    /\ ~listening
    /\ pc' = "insert"
    /\ UNCHANGED <<running, listening, connections, cur, mainPc, accepted, open, io>>

\* ... or fails: the listening socket was closed.
AcceptFailed ==
    /\ Alive
    /\ pc = "accept"
    /\ ~listening
    /\ pc' = "loop"
    /\ UNCHANGED <<running, listening, connections, cur, mainPc, accepted, open, io>>

\* connections_[clientSocket] = ctx, under connectionsMutex_.
Insert ==
    /\ Alive
    /\ pc = "insert"
    /\ connections' = connections \cup {cur}
    /\ pc' = "recv"
    /\ UNCHANGED <<running, listening, cur, mainPc, accepted, open, io>>

\* WSARecv is accepted ...
Recv ==
    /\ Alive
    /\ pc = "recv"
    /\ cur \in open
    /\ io' = [io EXCEPT ![cur] = "pending"]
    /\ cur' = None
    /\ pc' = "loop"
    /\ UNCHANGED <<running, listening, connections, mainPc, accepted, open>>

\* ... or refused: Stop has closed the socket, or the client has reset it.
RecvRefused ==
    /\ Alive
    /\ pc = "recv"
    /\ pc' = "lookup"
    /\ UNCHANGED <<running, listening, connections, cur, mainPc, accepted, open, io>>

\* Mutant: the entry that was found is not erased.
LookupKeeping ==
    /\ Alive
    /\ pc = "lookup"
    /\ IF cur \in connections THEN pc' = "close" /\ UNCHANGED cur
                              ELSE pc' = "loop" /\ cur' = None
    /\ UNCHANGED <<running, listening, connections, mainPc, accepted, open, io>>

\* CloseConnection: find and erase the entry under connectionsMutex_.
Lookup ==
    /\ Alive
    /\ pc = "lookup"
    /\ IF cur \in connections THEN pc' = "close" /\ UNCHANGED cur
                              ELSE pc' = "loop" /\ cur' = None
    /\ connections' = connections \ {cur}
    /\ UNCHANGED <<running, listening, mainPc, accepted, open, io>>

CloseSocket ==
    /\ Alive
    /\ pc = "close"
    /\ open' = open \ {cur}
    /\ cur' = None
    /\ pc' = "loop"
    /\ UNCHANGED <<running, listening, connections, mainPc, accepted, io>>

AcceptLoop ==
    \/ Loop \/ Accept \/ AcceptFailed \/ Insert
    \/ Recv \/ RecvRefused \/ Lookup \/ CloseSocket

-----------------------------------------------------------------------------
(***************************************************************************)
(* The main thread calls Stop and then destroys the proxy, whose           *)
(* destructor calls Stop again.                                            *)
(***************************************************************************)
Interrupt ==
    /\ Interrupts
    /\ mainPc = "run"
    /\ mainPc' = "stop"
    /\ UNCHANGED <<running, listening, connections, pc, cur, accepted, open, io>>

StopRunning ==
    /\ mainPc = "stop"
    /\ running' = FALSE
    /\ mainPc' = "stopListening"
    /\ UNCHANGED <<listening, connections, pc, cur, accepted, open, io>>

StopListening ==
    /\ mainPc = "stopListening"
    /\ listening' = FALSE
    /\ mainPc' = "closeAll"
    /\ UNCHANGED <<running, connections, pc, cur, accepted, open, io>>

\* Mutant: the sockets are closed and the map is not cleared.
CloseAllKeeping ==
    /\ mainPc \in {"closeAll", "destructor"}
    /\ open' = open \ connections
    /\ io' = [c \in Client |->
                IF c \in connections /\ io[c] = "pending" THEN "aborted" ELSE io[c]]
    /\ mainPc' = IF mainPc = "closeAll" THEN "destructor" ELSE "destroy"
    /\ UNCHANGED <<running, listening, connections, pc, cur, accepted>>

\* Under connectionsMutex_; the destructor's Stop has nothing else left to do.
CloseAll ==
    /\ mainPc \in {"closeAll", "destructor"}
    /\ open' = open \ connections
    /\ io' = [c \in Client |->
                IF c \in connections /\ io[c] = "pending" THEN "aborted" ELSE io[c]]
    /\ connections' = {}
    /\ mainPc' = IF mainPc = "closeAll" THEN "destructor" ELSE "destroy"
    /\ UNCHANGED <<running, listening, pc, cur, accepted>>

Destroy ==
    /\ mainPc = "destroy"
    /\ mainPc' = "destroyed"
    /\ UNCHANGED <<running, listening, connections, pc, cur, accepted, open, io>>

Stop == StopRunning \/ StopListening \/ CloseAll

-----------------------------------------------------------------------------
\* The client's request arrives and completes the WSARecv.
Arrive(c) ==
    /\ io[c] = "pending"
    /\ io' = [io EXCEPT ![c] = "received"]
    /\ UNCHANGED <<running, listening, connections, pc, cur, mainPc, accepted, open>>

Next ==
    \/ AcceptLoop
    \/ Interrupt \/ Stop \/ Destroy
    \/ \E c \in Client : Arrive(c)

Spec == Init /\ [][Next]_vars

\* Both threads are scheduled; nothing makes a client connect or send.
FairSpec ==
    /\ Spec
    /\ WF_vars(Loop \/ AcceptFailed \/ Insert \/ Recv \/ RecvRefused \/ Lookup \/ CloseSocket)
    /\ WF_vars(Stop \/ Destroy)

-----------------------------------------------------------------------------
(***************************************************************************)
(* Properties.                                                             *)
(***************************************************************************)

\* Type invariant.
TypeOK ==
    /\ running \in BOOLEAN
    /\ listening \in BOOLEAN
    /\ connections \subseteq accepted
    /\ pc \in {"loop", "accept", "insert", "recv", "lookup", "close", "exit"}
    /\ pc \in {"insert", "recv", "lookup", "close"} <=> cur # None
    /\ cur \in accepted \cup {None}
    /\ mainPc \in {"run", "stop", "stopListening", "closeAll", "destructor", "destroy",
                   "destroyed"}
    /\ accepted \subseteq Client
    /\ open \subseteq accepted
    /\ io \in [Client -> {"none", "pending", "received", "aborted"}]

(***************************************************************************)
(* connections_ holds the clients whose socket is open, except the one the *)
(* accept thread has in hand: so Stop finds every socket it has to close,  *)
(* and a client it finds has a socket to close, whenever the accept thread *)
(* comes in between.                                                       *)
(***************************************************************************)
EntriesAreOpen ==
    /\ connections \subseteq open
    /\ open \ connections \subseteq IF pc \in {"insert", "close"} THEN {cur} ELSE {}

\* Stop and CloseConnection never close one socket both: the thread about to
\* close a socket is the one that took it out of connections_ while it was open.
ClosedOnce == pc = "close" => cur \in open \ connections

-----------------------------------------------------------------------------
(***************************************************************************)
(* A statement of the repository that the code does not live up to.        *)
(***************************************************************************)

\* "HTTP proxy server (supports CONNECT for HTTPS)" (README.md:131), and the
\* same of SOCKS5: what a client has sent is taken notice of, or the client's
\* socket is closed.
Heard == \A c \in Client : io[c] = "received" ~> (io[c] # "received" \/ c \notin open)
=============================================================================
