----------------------------- MODULE IOCPManager -----------------------------
(***************************************************************************)
(* The IOCP manager of tmuwp/iocp.cpp: the accept threads of HandleAccept, *)
(* which register a pair of sockets for each forwarded connection, the     *)
(* worker threads, which pump data between the two sockets of a pair with  *)
(* overlapped I/O, CloseConnection, which any of them may call, and        *)
(* Shutdown, run by the main thread.                                       *)
(*                                                                         *)
(* A connection has two endpoints, <<c, "client">> and <<c, "server">>.    *)
(* Its IOContext clientToServer, which reads from the client and writes to *)
(* the server, is named by the endpoint it reads from, <<c, "client">>;    *)
(* serverToClient is <<c, "server">>.  What a socket carries is a sequence *)
(* of chunks, a chunk being what one WSARecv returns.                      *)
(*                                                                         *)
(* callback_ is null in every execution (nothing calls SetCallback, and    *)
(* RegisterConnection ignores its callback argument), so the callbacks of  *)
(* HandleIOCompletion are no part of its steps.  IOContext::inUse is       *)
(* written and never read, and is left out.                                *)
(***************************************************************************)
EXTENDS Naturals, Sequences

CONSTANTS
    Conn,        \* connections: a bound on how many are accepted
    Handle,      \* SOCKET values the system hands out
    Worker,      \* threads running WorkerThread
    Acceptor,    \* listeners, each with the thread HandleAccept starts
    None,        \* INVALID_SOCKET, a null pointer, an absent map entry
    MaxChunk,    \* bound on the chunks each remote peer sends
    Recycle,     \* may values of closed sockets and freed blocks be reissued?
    Interrupts   \* may SIGINT arrive?

Side == {"client", "server"}
Endpoint == Conn \X Side
Thread == Worker \cup Acceptor
Chunk == Endpoint \X (1..MaxChunk)

Peer(e) == <<e[1], IF e[2] = "client" THEN "server" ELSE "client">>

(***************************************************************************)
(* An overlapped operation in progress on an endpoint, and the completion  *)
(* packet that reports its outcome: bytes transferred, zero bytes (the     *)
(* peer closed its side), or failure.                                      *)
(***************************************************************************)
Overlapped == [io : Endpoint, kind : {"READ", "WRITE"}, ep : Endpoint]
Packet == [io : Endpoint, status : {"data", "eof", "failed"}]

ASSUME ConstantsAssumption ==
    /\ Worker \cap Acceptor = {}
    /\ None \notin Conn \cup Handle \cup Endpoint \cup Packet
    /\ MaxChunk \in Nat
    /\ Recycle \in BOOLEAN
    /\ Interrupts \in BOOLEAN

WorkerLabel == {"wait", "handle", "close", "closeClient", "closeServer", "exit"}
AcceptorLabel == {"accept", "connect", "associate", "insert", "recvClient",
                  "recvServer", "close", "closeClient", "closeServer",
                  "cleanClient", "cleanServer", "exit"}
MainLabel == {"run", "stopping", "locking", "closing", "closePort", "join", "done"}

VARIABLES
    \* IOCPManager
    connections,   \* connections_: SOCKET -> ConnectionContext
    \* ConnectionContext
    clientSock, serverSock, closing,
    \* IOContext
    ioSock, ioRemote, operation, buffer,
    \* threads: program counter, argument and local ctx of CloseConnection,
    \* the packet a worker handles, the locals of an accept thread
    pc, key, ref, task, accConn, accClient, accServer,
    \* main thread: progress of Shutdown, sockets its loop has yet to close
    mainPc, todo,
    \* Winsock: the socket table, values already used, operations in progress,
    \* the completion port's queue
    owner, spent, pending, port,
    \* the remote peers: connections accepted, chunks received from and
    \* delivered to each, sides that were closed, connections that failed
    accepted, received, delivered, fin, fault

ctxVars == <<clientSock, serverSock, closing>>
ioVars == <<ioSock, ioRemote, operation, buffer>>
heap == <<ctxVars, ioVars>>
accVars == <<accConn, accClient, accServer>>
locals == <<key, ref, task, accVars>>
mainVars == <<mainPc, todo>>
sockVars == <<owner, spent>>
winsock == <<owner, spent, pending, port>>
traffic == <<accepted, received, delivered, fin>>
remote == <<traffic, fault>>
vars == <<connections, heap, pc, locals, mainVars, winsock, remote>>

running == mainPc \in {"run", "stopping"}
portOpen == mainPc \notin {"join", "done"}

\* Mutant: CloseConnection and RegisterConnection forget their lock_guard.
NeverLocked == TRUE

\* Only Shutdown holds connectionsMutex_ for more than one step.
mutexFree == mainPc # "closing"

-----------------------------------------------------------------------------
(***************************************************************************)
(* Winsock.                                                                *)
(***************************************************************************)

IsOpen(h) == h # None /\ owner[h] # None

\* A value the system may give a new socket.
Allocatable(h) == owner[h] = None /\ (Recycle \/ h \notin spent)

(***************************************************************************)
(* closesocket on each value in S.  A value that names no open socket is   *)
(* refused (WSAENOTSOCK).  Operations in progress on the socket complete   *)
(* with WSA_OPERATION_ABORTED.                                             *)
(***************************************************************************)
CloseSockets(S) ==
    LET aborted == {p \in pending : \E h \in S : h # None /\ owner[h] = p.ep} IN
    /\ owner' = [h \in Handle |-> IF h \in S THEN None ELSE owner[h]]
    /\ spent' = spent \cup {h \in Handle : h \in S /\ owner[h] # None}
    /\ pending' = pending \ aborted
    /\ port' = port \cup {[io |-> p.io, status |-> "failed"] : p \in aborted}

(***************************************************************************)
(* WSARecv or WSASend accepted (WSA_IO_PENDING, or done at once: either    *)
(* way a packet follows), or refused: always on a value that names no open *)
(* socket, and on an open one whose connection was reset.                  *)
(***************************************************************************)
Submit(i, kind, h) ==
    /\ IsOpen(h)
    /\ pending' = pending \cup {[io |-> i, kind |-> kind, ep |-> owner[h]]}
    /\ UNCHANGED fault

Refuse(h) ==
    /\ fault' = IF IsOpen(h) THEN fault \cup {owner[h][1]} ELSE fault
    /\ UNCHANGED pending

Complete(p, status) ==
    /\ pending' = pending \ {p}
    /\ port' = port \cup {[io |-> p.io, status |-> status]}
    /\ UNCHANGED <<connections, ctxVars, ioSock, ioRemote, operation, pc, locals, mainVars,
                   sockVars, accepted>>

\* The remote peer of p.ep sends a chunk, which lands in the IOContext's buffer.
RecvData(p) ==
    /\ p.kind = "READ"
    /\ received[p.ep] < MaxChunk
    /\ received' = [received EXCEPT ![p.ep] = @ + 1]
    /\ buffer' = [buffer EXCEPT ![p.io] = <<p.ep, received[p.ep] + 1>>]
    /\ Complete(p, "data")
    /\ UNCHANGED <<delivered, fin, fault>>

\* The remote peer of p.ep closes its sending side.
RecvEof(p) ==
    /\ p.kind = "READ"
    /\ fin' = fin \cup {p.ep}
    /\ Complete(p, "eof")
    /\ UNCHANGED <<buffer, received, delivered, fault>>

\* The remote peer of p.ep takes the chunk that was sent to it.
SendDone(p) ==
    /\ p.kind = "WRITE"
    /\ delivered' = [delivered EXCEPT ![p.ep] = Append(@, buffer[p.io])]
    /\ Complete(p, "data")
    /\ UNCHANGED <<buffer, received, fin, fault>>

\* The connection to the remote peer of p.ep is reset.
IoFailed(p) ==
    /\ fault' = fault \cup {p.ep[1]}
    /\ Complete(p, "failed")
    /\ UNCHANGED <<buffer, received, delivered, fin>>

Network == \E p \in pending : RecvData(p) \/ RecvEof(p) \/ SendDone(p) \/ IoFailed(p)

-----------------------------------------------------------------------------
(***************************************************************************)
(* Lifetime of a ConnectionContext.  Its shared_ptr is held by the map, by *)
(* the ctx of a running CloseConnection and by the ctx of a running        *)
(* RegisterConnection; it is destroyed, with both its IOContexts, when     *)
(* none is left.                                                           *)
(***************************************************************************)
Registering(a) ==
    pc[a] \in {"recvClient", "recvServer", "close", "closeClient", "closeServer"}

Live(c) ==
    \/ \E h \in Handle : connections[h] = c
    \/ \E t \in Thread : ref[t] = c
    \/ \E a \in Acceptor : accConn[a] = c /\ Registering(a)

(***************************************************************************)
(* The IOContext found at the address of i: i itself or, once the block    *)
(* was freed, whatever was put there since, if blocks are reissued.        *)
(***************************************************************************)
AtAddress(i) == IF Recycle /\ ~Live(i[1]) THEN Endpoint ELSE {i}

-----------------------------------------------------------------------------
(***************************************************************************)
(* CloseConnection(socket), called by a worker or by RegisterConnection.   *)
(***************************************************************************)

\* The caller's next statement: the worker's loop test, or the clean-up of
\* HandleAccept after RegisterConnection has returned false.
AfterClose(t) == IF t \in Acceptor THEN "cleanClient"
                 ELSE IF running THEN "wait" ELSE "exit"

Find(h) == IF h = None THEN None ELSE connections[h]

\* Mutant: only the entry that was found is erased.
ErasedOne(h) == {h}

\* The entries erased when h is found: h and its context's other socket.
Erased(h) ==
    LET c == Find(h)
    IN {h, IF clientSock[c] # h THEN clientSock[c] ELSE serverSock[c]}

\* Under connectionsMutex_: find the context and erase both its entries.
CloseLookup(t) ==
    /\ pc[t] = "close"
    /\ mutexFree
    /\ \/ /\ Find(key[t]) = None
          /\ pc' = [pc EXCEPT ![t] = AfterClose(t)]
          /\ UNCHANGED <<connections, ref>>
       \/ /\ Find(key[t]) # None
          /\ connections' = [h \in Handle |->
                IF h \in Erased(key[t]) THEN None ELSE connections[h]]
          /\ ref' = [ref EXCEPT ![t] = Find(key[t])]
          /\ pc' = [pc EXCEPT ![t] = "closeClient"]
    /\ key' = [key EXCEPT ![t] = None]
    /\ UNCHANGED <<heap, task, accVars, mainVars, winsock, remote>>

\* Return if closing is set; otherwise set it and close clientSock.
CloseClient(t) ==
    /\ pc[t] = "closeClient"
    /\ \/ /\ closing[ref[t]]
          /\ pc' = [pc EXCEPT ![t] = AfterClose(t)]
          /\ ref' = [ref EXCEPT ![t] = None]
          /\ UNCHANGED <<closing, clientSock, winsock>>
       \/ /\ ~closing[ref[t]]
          /\ closing' = [closing EXCEPT ![ref[t]] = TRUE]
          /\ CloseSockets({clientSock[ref[t]]})
          /\ clientSock' = [clientSock EXCEPT ![ref[t]] = None]
          /\ pc' = [pc EXCEPT ![t] = "closeServer"]
          /\ UNCHANGED ref
    /\ UNCHANGED <<connections, serverSock, ioVars, key, task, accVars, mainVars, remote>>

\* Mutant: serverSock is not closed.
CloseServerSkipped(t) ==
    /\ pc[t] = "closeServer"
    /\ ref' = [ref EXCEPT ![t] = None]
    /\ pc' = [pc EXCEPT ![t] = AfterClose(t)]
    /\ UNCHANGED <<connections, heap, key, task, accVars, mainVars, winsock, remote>>

\* Close serverSock and return, which drops the local ctx.
CloseServer(t) ==
    /\ pc[t] = "closeServer"
    /\ CloseSockets({serverSock[ref[t]]})
    /\ serverSock' = [serverSock EXCEPT ![ref[t]] = None]
    /\ ref' = [ref EXCEPT ![t] = None]
    /\ pc' = [pc EXCEPT ![t] = AfterClose(t)]
    /\ UNCHANGED <<connections, clientSock, closing, ioVars, key, task, accVars, mainVars, remote>>

CloseConnection(t) == CloseLookup(t) \/ CloseClient(t) \/ CloseServer(t)

-----------------------------------------------------------------------------
(***************************************************************************)
(* The accept thread: HandleAccept, ConnectToTarget, RegisterConnection.   *)
(***************************************************************************)

\* The locals of one iteration of the accept loop go out of scope.
EndIteration(a) ==
    /\ accConn' = [accConn EXCEPT ![a] = None]
    /\ accClient' = [accClient EXCEPT ![a] = None]
    /\ accServer' = [accServer EXCEPT ![a] = None]

\* accept returns a socket.  The listening socket is open until the main
\* thread has come to it among the proxies it stops, one after the other; how
\* far it has come while it stops them is left open.
Accept(a) ==
    /\ pc[a] = "accept"
    /\ mainPc \in {"run", "stopping"}
    /\ \E c \in Conn \ accepted, h \in Handle :
        /\ Allocatable(h)
        /\ owner' = [owner EXCEPT ![h] = <<c, "client">>]
        /\ accepted' = accepted \cup {c}
        /\ accConn' = [accConn EXCEPT ![a] = c]
        /\ accClient' = [accClient EXCEPT ![a] = h]
    /\ pc' = [pc EXCEPT ![a] = "connect"]
    /\ UNCHANGED <<connections, heap, key, ref, task, accServer, mainVars, spent, pending, port,
                   received, delivered, fin, fault>>

Connected(a) ==
    /\ pc[a] = "connect"
    /\ \E h \in Handle :
        /\ Allocatable(h)
        /\ owner' = [owner EXCEPT ![h] = <<accConn[a], "server">>]
        /\ accServer' = [accServer EXCEPT ![a] = h]
    /\ pc' = [pc EXCEPT ![a] = "associate"]
    /\ UNCHANGED <<connections, heap, key, ref, task, accConn, accClient, mainVars,
                   spent, pending, port, remote>>

\* Mutant: HandleAccept goes on when ConnectToTarget returns INVALID_SOCKET.
ConnectUnchecked(a) ==
    /\ pc[a] = "connect"
    /\ fault' = fault \cup {accConn[a]}
    /\ pc' = [pc EXCEPT ![a] = "associate"]
    /\ UNCHANGED <<connections, heap, locals, mainVars, winsock, traffic>>

\* The target refuses, or does not answer within 5 seconds.
ConnectFailed(a) ==
    /\ pc[a] = "connect"
    /\ fault' = fault \cup {accConn[a]}
    /\ CloseSockets({accClient[a]})
    /\ pc' = [pc EXCEPT ![a] = "accept"]
    /\ EndIteration(a)
    /\ UNCHANGED <<connections, heap, key, ref, task, mainVars, traffic>>

\* RegisterConnection: CreateIoCompletionPort for both sockets.
Associate(a) ==
    /\ pc[a] = "associate"
    /\ \/ /\ portOpen /\ IsOpen(accClient[a]) /\ IsOpen(accServer[a])
          /\ pc' = [pc EXCEPT ![a] = "insert"]
          /\ UNCHANGED fault
       \/ /\ pc' = [pc EXCEPT ![a] = "cleanClient"]
          /\ fault' = fault \cup {accConn[a]}
    /\ UNCHANGED <<connections, heap, locals, mainVars, winsock, traffic>>

\* Mutant: the context is entered under its client socket only.
EnteredOnce(a) == {accClient[a]}

Entered(a) == {accClient[a], accServer[a]}

\* RegisterConnection: build the context and, under connectionsMutex_, enter it
\* under both sockets.
Insert(a) ==
    LET c == accConn[a] IN
    /\ pc[a] = "insert"
    /\ mutexFree
    /\ clientSock' = [clientSock EXCEPT ![c] = accClient[a]]
    /\ serverSock' = [serverSock EXCEPT ![c] = accServer[a]]
    /\ ioSock' = [ioSock EXCEPT ![<<c, "client">>] = accClient[a],
                                ![<<c, "server">>] = accServer[a]]
    /\ ioRemote' = [ioRemote EXCEPT ![<<c, "client">>] = accServer[a],
                                    ![<<c, "server">>] = accClient[a]]
    /\ connections' = [h \in Handle |-> IF h \in Entered(a) THEN c ELSE connections[h]]
    /\ pc' = [pc EXCEPT ![a] = "recvClient"]
    /\ UNCHANGED <<closing, operation, buffer, locals, mainVars, winsock, remote>>

\* RegisterConnection: the first WSARecv on the socket h of endpoint e.
FirstRecv(a, e, h, next) ==
    /\ operation' = [operation EXCEPT ![e] = "READ"]
    /\ Submit(e, "READ", h)
    /\ pc' = [pc EXCEPT ![a] = next]
    /\ UNCHANGED <<connections, ctxVars, ioSock, ioRemote, buffer, key, ref, task,
                   mainVars, sockVars, port, traffic>>

\* The same, refused: CloseConnection(clientSocket).
FirstRecvRefused(a, e, h) ==
    /\ operation' = [operation EXCEPT ![e] = "READ"]
    /\ Refuse(h)
    /\ pc' = [pc EXCEPT ![a] = "close"]
    /\ key' = [key EXCEPT ![a] = accClient[a]]
    /\ UNCHANGED <<connections, ctxVars, ioSock, ioRemote, buffer, ref, task, accVars,
                   mainVars, sockVars, port, traffic>>

RecvClient(a) ==
    LET e == <<accConn[a], "client">> IN
    /\ pc[a] = "recvClient"
    /\ \/ FirstRecv(a, e, accClient[a], "recvServer") /\ UNCHANGED accVars
       \/ FirstRecvRefused(a, e, accClient[a])

\* Mutant: the second WSARecv uses the IOContext of the first.
RecvServerSameContext(a) ==
    /\ pc[a] = "recvServer"
    /\ FirstRecv(a, <<accConn[a], "client">>, accServer[a], "accept")
    /\ EndIteration(a)

RecvServer(a) ==
    LET e == <<accConn[a], "server">> IN
    /\ pc[a] = "recvServer"
    /\ \/ FirstRecv(a, e, accServer[a], "accept") /\ EndIteration(a)
       \/ FirstRecvRefused(a, e, accServer[a])

\* HandleAccept, after RegisterConnection returned false: closesocket on both.
CleanClient(a) ==
    /\ pc[a] = "cleanClient"
    /\ CloseSockets({accClient[a]})
    /\ pc' = [pc EXCEPT ![a] = "cleanServer"]
    /\ UNCHANGED <<connections, heap, locals, mainVars, remote>>

CleanServer(a) ==
    /\ pc[a] = "cleanServer"
    /\ CloseSockets({accServer[a]})
    /\ pc' = [pc EXCEPT ![a] = "accept"]
    /\ EndIteration(a)
    /\ UNCHANGED <<connections, heap, key, ref, task, mainVars, remote>>

\* accept fails on the closed listening socket until running_ is false.
AcceptorExit(a) ==
    /\ pc[a] = "accept"
    /\ ~running
    /\ pc' = [pc EXCEPT ![a] = "exit"]
    /\ UNCHANGED <<connections, heap, locals, mainVars, winsock, remote>>

HandleAccept(a) ==
    \/ Accept(a) \/ Connected(a) \/ ConnectFailed(a)
    \/ Associate(a) \/ Insert(a) \/ RecvClient(a) \/ RecvServer(a)
    \/ CloseConnection(a) \/ CleanClient(a) \/ CleanServer(a)
    \/ AcceptorExit(a)

-----------------------------------------------------------------------------
(***************************************************************************)
(* WorkerThread and HandleIOCompletion.                                    *)
(***************************************************************************)

\* GetQueuedCompletionStatus returns a packet; the thread ends if running_ is
\* false by then.
Dequeue(w) ==
    /\ pc[w] = "wait"
    /\ portOpen
    /\ \E p \in port :
        /\ port' = port \ {p}
        /\ task' = [task EXCEPT ![w] = IF running THEN p ELSE None]
    /\ pc' = [pc EXCEPT ![w] = IF running THEN "handle" ELSE "exit"]
    /\ UNCHANGED <<connections, heap, key, ref, accVars, mainVars, sockVars, pending, remote>>

\* GetQueuedCompletionStatus fails because the port was closed; running_ is
\* false since Shutdown began.
Abandoned(w) ==
    /\ pc[w] = "wait"
    /\ ~portOpen
    /\ pc' = [pc EXCEPT ![w] = "exit"]
    /\ UNCHANGED <<connections, heap, locals, mainVars, winsock, remote>>

\* CloseConnection(context->sock), after a failed or empty completion.
HandleEnd(w) ==
    /\ pc[w] = "handle"
    /\ task[w].status \in {"failed", "eof"}
    /\ \E i \in AtAddress(task[w].io) : key' = [key EXCEPT ![w] = ioSock[i]]
    /\ pc' = [pc EXCEPT ![w] = "close"]
    /\ task' = [task EXCEPT ![w] = None]
    /\ UNCHANGED <<connections, heap, ref, accVars, mainVars, winsock, remote>>

\* Mutant: a refused WSARecv or WSASend does not close the connection.
PostUnchecked(w, i, kind, h) ==
    /\ operation' = [operation EXCEPT ![i] = kind]
    /\ Submit(i, kind, h) \/ Refuse(h)
    /\ pc' = [pc EXCEPT ![w] = IF running THEN "wait" ELSE "exit"]
    /\ task' = [task EXCEPT ![w] = None]
    /\ UNCHANGED <<connections, ctxVars, ioSock, ioRemote, key, ref, accVars, mainVars,
                   sockVars, port, traffic>>

(***************************************************************************)
(* What PostSend and PostRecv have in common: the next operation of        *)
(* IOContext i is submitted on socket h; if that is refused, the caller    *)
(* goes on with CloseConnection(context->sock).                            *)
(***************************************************************************)
Post(w, i, kind, h) ==
    /\ operation' = [operation EXCEPT ![i] = kind]
    /\ \/ /\ Submit(i, kind, h)
          /\ pc' = [pc EXCEPT ![w] = IF running THEN "wait" ELSE "exit"]
          /\ UNCHANGED key
       \/ /\ Refuse(h)
          /\ pc' = [pc EXCEPT ![w] = "close"]
          /\ key' = [key EXCEPT ![w] = ioSock[i]]
    /\ task' = [task EXCEPT ![w] = None]
    /\ UNCHANGED <<connections, ctxVars, ioSock, ioRemote, ref, accVars, mainVars,
                   sockVars, port, traffic>>

\* Mutant: the chunk is sent back to the socket it came from.
HandleReadEcho(w) ==
    /\ pc[w] = "handle"
    /\ task[w].status = "data"
    /\ operation[task[w].io] = "READ"
    /\ Post(w, task[w].io, "WRITE", ioSock[task[w].io])
    /\ UNCHANGED buffer

\* A read completed: PostSend the buffer to the other socket.
HandleRead(w) ==
    /\ pc[w] = "handle"
    /\ task[w].status = "data"
    /\ \E i \in AtAddress(task[w].io) :
        /\ operation[i] = "READ"
        /\ Post(w, i, "WRITE", ioRemote[i])
    /\ UNCHANGED buffer

\* A write completed: PostRecv, which resets the IOContext first.
HandleWrite(w) ==
    /\ pc[w] = "handle"
    /\ task[w].status = "data"
    /\ \E i \in AtAddress(task[w].io) :
        /\ operation[i] = "WRITE"
        /\ buffer' = [buffer EXCEPT ![i] = None]
        /\ Post(w, i, "READ", ioSock[i])

WorkerThread(w) ==
    \/ Dequeue(w) \/ Abandoned(w)
    \/ HandleEnd(w) \/ HandleRead(w) \/ HandleWrite(w)
    \/ CloseConnection(w)

-----------------------------------------------------------------------------
(***************************************************************************)
(* The main thread: the end of main() and IOCPManager::Shutdown.           *)
(***************************************************************************)

\* Ctrl+C: main leaves its loop and begins to stop the proxies, which closes
\* the listeners one by one.
Interrupt ==
    /\ Interrupts
    /\ mainPc = "run"
    /\ mainPc' = "stopping"
    /\ UNCHANGED <<connections, heap, pc, locals, todo, winsock, remote>>

\* The last listener is closed.  Shutdown: running_ = false.
StopRunning ==
    /\ mainPc = "stopping"
    /\ mainPc' = "locking"
    /\ UNCHANGED <<connections, heap, pc, locals, todo, winsock, remote>>

\* Shutdown: take connectionsMutex_ and start the loop over connections_.
LockConnections ==
    /\ mainPc = "locking"
    /\ mainPc' = "closing"
    /\ todo' = {h \in Handle : connections[h] # None} \X Side
    /\ UNCHANGED <<connections, heap, pc, locals, winsock, remote>>

SockOf(c, s) == IF s = "client" THEN clientSock[c] ELSE serverSock[c]

\* Shutdown, one closesocket of an iteration: the client socket of the entry's
\* context, then the server socket, then the next entry.  Each context has two
\* entries, so each socket is closed twice.
CloseEntry ==
    /\ mainPc = "closing"
    /\ \E h \in Handle, s \in Side :
        /\ <<h, s>> \in todo
        /\ \/ s = "server" /\ <<h, "client">> \notin todo
           \/ s = "client" /\ \A g \in Handle : <<g, "server">> \in todo => <<g, "client">> \in todo
        /\ todo' = todo \ {<<h, s>>}
        /\ CloseSockets({SockOf(connections[h], s)})
    /\ UNCHANGED <<connections, heap, pc, locals, mainPc, remote>>

\* Shutdown: connections_.clear(), and the mutex is released.
ClearConnections ==
    /\ mainPc = "closing"
    /\ todo = {}
    /\ connections' = [h \in Handle |-> None]
    /\ mainPc' = "closePort"
    /\ UNCHANGED <<heap, pc, locals, todo, winsock, remote>>

\* Mutant: the port is closed only when the workers have been joined.
ClosePortAfterJoin ==
    /\ mainPc = "closePort"
    /\ \A w \in Worker : pc[w] = "exit"
    /\ mainPc' = "join"
    /\ UNCHANGED <<connections, heap, pc, locals, todo, winsock, remote>>

\* Shutdown: CloseHandle(iocpHandle_).
ClosePort ==
    /\ mainPc = "closePort"
    /\ mainPc' = "join"
    /\ UNCHANGED <<connections, heap, pc, locals, todo, winsock, remote>>

\* Shutdown: every worker thread has been joined.
JoinWorkers ==
    /\ mainPc = "join"
    /\ \A w \in Worker : pc[w] = "exit"
    /\ mainPc' = "done"
    /\ UNCHANGED <<connections, heap, pc, locals, todo, winsock, remote>>

Shutdown == StopRunning \/ LockConnections \/ CloseEntry \/ ClearConnections
            \/ ClosePort \/ JoinWorkers

-----------------------------------------------------------------------------
Init ==
    /\ connections = [h \in Handle |-> None]
    /\ clientSock = [c \in Conn |-> None]
    /\ serverSock = [c \in Conn |-> None]
    /\ closing = [c \in Conn |-> FALSE]
    /\ ioSock = [i \in Endpoint |-> None]
    /\ ioRemote = [i \in Endpoint |-> None]
    /\ operation = [i \in Endpoint |-> "READ"]
    /\ buffer = [i \in Endpoint |-> None]
    /\ pc = [t \in Thread |-> IF t \in Worker THEN "wait" ELSE "accept"]
    /\ key = [t \in Thread |-> None]
    /\ ref = [t \in Thread |-> None]
    /\ task = [w \in Worker |-> None]
    /\ accConn = [a \in Acceptor |-> None]
    /\ accClient = [a \in Acceptor |-> None]
    /\ accServer = [a \in Acceptor |-> None]
    /\ mainPc = "run"
    /\ todo = {}
    /\ owner = [h \in Handle |-> None]
    /\ spent = {}
    /\ pending = {}
    /\ port = {}
    /\ accepted = {}
    /\ received = [e \in Endpoint |-> 0]
    /\ delivered = [e \in Endpoint |-> <<>>]
    /\ fin = {}
    /\ fault = {}

Next ==
    \/ \E a \in Acceptor : HandleAccept(a)
    \/ \E w \in Worker : WorkerThread(w)
    \/ Interrupt
    \/ Shutdown
    \/ Network

Spec == Init /\ [][Next]_vars

(***************************************************************************)
(* Fairness: every thread is scheduled, a submitted send ends, and the     *)
(* target's answer is awaited for 5 seconds at most.  Nothing makes a      *)
(* remote peer send, close or connect, or the user press Ctrl+C.           *)
(***************************************************************************)
FairSpec ==
    /\ Spec
    /\ \A w \in Worker : WF_vars(WorkerThread(w))
    /\ \A a \in Acceptor :
        /\ WF_vars(Connected(a) \/ ConnectFailed(a))
        /\ WF_vars(HandleAccept(a) /\ ~Accept(a) /\ ~Connected(a) /\ ~ConnectFailed(a))
    /\ WF_vars(Shutdown)
    /\ WF_vars(\E p \in pending : SendDone(p) \/ (p.kind = "WRITE" /\ IoFailed(p)))

-----------------------------------------------------------------------------
(***************************************************************************)
(* Properties.                                                             *)
(***************************************************************************)

HeapOK ==
    /\ connections \in [Handle -> Conn \cup {None}]
    /\ clientSock \in [Conn -> Handle \cup {None}]
    /\ serverSock \in [Conn -> Handle \cup {None}]
    /\ closing \in [Conn -> BOOLEAN]
    /\ ioSock \in [Endpoint -> Handle \cup {None}]
    /\ ioRemote \in [Endpoint -> Handle \cup {None}]
    /\ operation \in [Endpoint -> {"READ", "WRITE"}]
    /\ buffer \in [Endpoint -> Chunk \cup {None}]

ThreadOK ==
    /\ pc \in [Thread -> WorkerLabel \cup AcceptorLabel]
    /\ \A w \in Worker : pc[w] \in WorkerLabel
    /\ \A a \in Acceptor : pc[a] \in AcceptorLabel
    /\ key \in [Thread -> Handle \cup {None}]
    /\ ref \in [Thread -> Conn \cup {None}]
    /\ \A t \in Thread : ref[t] # None <=> pc[t] \in {"closeClient", "closeServer"}
    /\ task \in [Worker -> Packet \cup {None}]
    /\ \A w \in Worker : task[w] # None <=> pc[w] = "handle"

AcceptorOK ==
    /\ accConn \in [Acceptor -> Conn \cup {None}]
    /\ accClient \in [Acceptor -> Handle \cup {None}]
    /\ accServer \in [Acceptor -> Handle \cup {None}]
    /\ \A a \in Acceptor : pc[a] \notin {"accept", "exit"} =>
            accConn[a] # None /\ accClient[a] # None
    /\ \A a \in Acceptor : pc[a] \notin {"accept", "exit", "connect"} => accServer[a] # None

MainOK ==
    /\ mainPc \in MainLabel
    /\ todo \subseteq {h \in Handle : connections[h] # None} \X Side
    /\ mutexFree => todo = {}

WinsockOK ==
    /\ owner \in [Handle -> Endpoint \cup {None}]
    /\ spent \subseteq Handle
    /\ pending \subseteq Overlapped
    /\ port \subseteq Packet

RemoteOK ==
    /\ accepted \subseteq Conn
    /\ received \in [Endpoint -> 0..MaxChunk]
    /\ delivered \in [Endpoint -> Seq(Chunk \cup {None})]
    /\ fin \subseteq Endpoint
    /\ fault \subseteq Conn

\* Type invariant, with the locals that are in use at each program counter.
TypeOK == HeapOK /\ ThreadOK /\ AcceptorOK /\ MainOK /\ WinsockOK /\ RemoteOK

(***************************************************************************)
(* A connection is torn down by one thread, once: a thread in the midst of *)
(* CloseConnection has taken its context out of connections_ for good, no  *)
(* other thread is closing the same one, and the test of ctx->closing is   *)
(* never true.  It holds because both entries are erased under the mutex   *)
(* that found the first (iocp.cpp:144-156), even if handles are reissued.  *)
(***************************************************************************)
TornDownOnce ==
    \A t \in Thread : ref[t] # None =>
        /\ \A h \in Handle : connections[h] # ref[t]
        /\ \A u \in Thread : ref[u] = ref[t] => u = t
        /\ pc[t] = "closeClient" => ~closing[ref[t]]

(***************************************************************************)
(* What TornDownOnce rests on, inductive with TypeOK whether or not values *)
(* are reissued: an entry's key is one of the two sockets its context      *)
(* names, and an entry's context is not closing; no context is being       *)
(* registered by two accept threads; and a context that is yet to be       *)
(* entered has no entry, is not being closed and never was.                *)
(***************************************************************************)
Untouched(c) ==
    /\ \A h \in Handle : connections[h] # c
    /\ \A t \in Thread : ref[t] # c
    /\ ~closing[c]

KeysAreSockets ==
    \A h \in Handle : connections[h] # None =>
        /\ h \in {clientSock[connections[h]], serverSock[connections[h]]}
        /\ ~closing[connections[h]]

AcceptedOnce ==
    /\ \A c \in Conn \ accepted : Untouched(c)
    /\ \A a \in Acceptor : accConn[a] # None => accConn[a] \in accepted
    /\ \A a, b \in Acceptor : accConn[a] # None /\ accConn[a] = accConn[b] => a = b
    /\ \A a \in Acceptor :
            pc[a] \in {"connect", "associate", "insert"} => Untouched(accConn[a])

TeardownInv == TypeOK /\ TornDownOnce /\ KeysAreSockets /\ AcceptedOnce

(***************************************************************************)
(* connections_ holds a connection under both its sockets or not at all,   *)
(* and outside of Shutdown's loop the sockets of an entry are open and its *)
(* own: an entry never outlives its socket.                                *)
(***************************************************************************)
EntriesPaired ==
    \A h \in Handle : connections[h] # None =>
        LET c == connections[h] IN
        /\ clientSock[c] # serverSock[c]
        /\ {g \in Handle : connections[g] = c} = {clientSock[c], serverSock[c]}
        /\ mutexFree => /\ owner[clientSock[c]] = <<c, "client">>
                        /\ owner[serverSock[c]] = <<c, "server">>

(***************************************************************************)
(* No open socket is lost: it is a key of its connection in connections_,  *)
(* or an accept thread or a thread in CloseConnection has it in hand.  So  *)
(* what stays open after Shutdown (iocp.cpp:58) is what an accept thread   *)
(* enters once connections_ was cleared, and nothing else.                 *)
(***************************************************************************)
NoSocketLost ==
    \A h \in Handle : owner[h] # None =>
        LET c == owner[h][1] IN
        \/ connections[h] = c
        \/ \E a \in Acceptor : accConn[a] = c
        \/ \E t \in Thread : ref[t] = c

(***************************************************************************)
(* At most one thing happens to an IOContext at any time: an operation in  *)
(* progress, a packet in the queue, or a worker handling that packet.  Its *)
(* one buffer and its one OVERLAPPED depend on it.                         *)
(***************************************************************************)
OneOperation ==
    LET tasks == {task[w] : w \in Worker} \ {None} IN
    /\ \A x, y \in pending \cup port \cup tasks : x.io = y.io => x = y
    /\ \A w \in Worker : task[w] \notin port
    /\ \A w, v \in Worker : task[w] # None /\ task[w] = task[v] => w = v

(***************************************************************************)
(* No direction of a registered connection is forgotten: while the proxy   *)
(* runs, something is under way for each of the two IOContexts, or one of  *)
(* the workers is about to close the connection because of it.             *)
(***************************************************************************)
Active(i) ==
    \/ \E x \in pending \cup port : x.io = i
    \/ \E w \in Worker : task[w] # None /\ task[w].io = i
    \/ \E t \in Thread : pc[t] = "close" /\ key[t] = ioSock[i]

NoDirectionForgotten ==
    \A h \in Handle :
        LET c == connections[h] IN
        (c # None /\ running /\ \A a \in Acceptor : accConn[a] = c => ~Registering(a))
            => Active(<<c, "client">>) /\ Active(<<c, "server">>)

(***************************************************************************)
(* The manager forwards transparently: it implements the abstract          *)
(* forwarder, in which each direction is a queue of at most one chunk and  *)
(* a connection is closed only if it has ended.                            *)
(***************************************************************************)
Ended(c) == c \in fault \/ \E s \in Side : <<c, s>> \in fin

Forwarder == INSTANCE Forwarding WITH
    open <- {e \in Endpoint : \E h \in Handle : owner[h] = e},
    ended <- {c \in Conn : Ended(c)},
    halted <- mainPc # "run"

ForwardsTransparently == Forwarder!Spec

(***************************************************************************)
(* If a peer closes or a connection fails after it was accepted, both its  *)
(* sockets are closed eventually, or the process is stopped: the other     *)
(* peer is never left behind.                                              *)
(***************************************************************************)
Closed(c) == \A h \in Handle, s \in Side : owner[h] # <<c, s>>

EndedIsTornDown == \A c \in Conn : Ended(c) ~> (Closed(c) \/ mainPc # "run")

\* After Ctrl+C, Shutdown returns: every worker leaves its wait and is joined.
ShutdownReturns == mainPc = "stopping" ~> mainPc = "done"

-----------------------------------------------------------------------------
(***************************************************************************)
(* Statements of the repository that the code does not live up to.         *)
(***************************************************************************)

\* "Memory Pool: Pre-allocated IOContext objects" (README.md:204): the
\* IOContext a worker takes from a completion packet is still allocated.
ContextAlive == \A w \in Worker : pc[w] = "handle" => Live(task[w].io[1])

\* "Transparent TCP forwarding to backend servers" (README.md:130): what one
\* peer sent before the other closed its sending side is delivered, if nothing
\* failed, before the connection is closed.
HalfCloseDelivers ==
    \A e \in Endpoint :
        (/\ e[1] \notin fault
         /\ mainPc = "run"
         /\ \A h \in Handle : owner[h] # Peer(e)
         /\ e[1] \in accepted)
        => Len(delivered[Peer(e)]) = received[e]
=============================================================================
