------------------------ MODULE IOCPForwardingProofs ------------------------
(***************************************************************************)
(* What the IOCP manager does with operations and data when neither socket *)
(* values nor freed memory are reissued, for any number of connections and *)
(* threads.  Each IOContext does one thing at a time: its OVERLAPPED is in *)
(* one operation, in one packet, or in the hands of one worker.  With that *)
(* the manager forwards transparently, it implements Forwarding; and no    *)
(* direction of a registered connection is forgotten.                      *)
(***************************************************************************)
EXTENDS IOCPManagerProofs

USE DEF vars, heap, ctxVars, ioVars, accVars, locals, mainVars, sockVars, winsock, traffic, remote

\* The operations, packets and tasks of different kinds that name one IOContext.
Exclusive ==
    /\ \A x, y \in pending : x.io = y.io => x = y
    /\ \A x, y \in port : x.io = y.io => x = y
    /\ \A x \in pending, y \in port : x.io # y.io
    /\ \A w \in Worker : task[w] # None => \A x \in pending \cup port : x.io # task[w].io
    /\ \A v, w \in Worker : task[v] # None /\ task[w] # None /\ task[v].io = task[w].io => v = w

\* IOContext i is in use.
Busy(i) ==
    \/ \E x \in pending \cup port : x.io = i
    \/ \E w \in Worker : task[w] # None /\ task[w].io = i

\* The first WSARecv of IOContext i is yet to come.
NotStarted(i) ==
    \/ i[1] \notin accepted
    \/ \E a \in Acceptor : /\ accConn[a] = i[1]
                           /\ \/ pc[a] \in PreInsert \cup {"recvClient"}
                              \/ pc[a] = "recvServer" /\ i[2] = "server"

StartsIdle == \A i \in Endpoint : NotStarted(i) => ~Busy(i)

\* The inductive invariant.
OperationInv == TeardownInv /\ Exclusive /\ StartsIdle

\* No IOContext goes back to before its first WSARecv.
Settled == \A i \in Endpoint : NotStarted(i)' => NotStarted(i)

-----------------------------------------------------------------------------
(***************************************************************************)
(* What steps do to operations, packets and tasks.                         *)
(***************************************************************************)

\* Operations end and their packets are queued.
LEMMA OperationsEnd ==
    ASSUME Exclusive, TypeOK, NEW P \in SUBSET pending, NEW status,
           pending' = pending \ P,
           port' = port \cup {[io |-> p.io, status |-> status] : p \in P},
           UNCHANGED task
    PROVE  Exclusive' /\ \A i \in Endpoint : Busy(i)' => Busy(i)
  <1>1. \A y \in port' : y \in port \/ \E p \in P : y = [io |-> p.io, status |-> status]
    OBVIOUS
  <1>2. \A y \in port' : y \in port \/ \E p \in P : y.io = p.io /\ y.status = status
    BY <1>1
  <1>3. \A x, y \in pending' : x.io = y.io => x = y
    BY DEF Exclusive
  <1>4. \A x, y \in port' : x.io = y.io => x = y
    BY <1>1, <1>2 DEF Exclusive
  <1>5. \A x \in pending', y \in port' : x.io # y.io
    BY <1>2 DEF Exclusive
  <1>6. \A w \in Worker : task[w] # None => \A x \in pending' \cup port' : x.io # task[w].io
    BY <1>2 DEF Exclusive
  <1>7. Exclusive'
    BY <1>3, <1>4, <1>5, <1>6 DEF Exclusive
  <1>8. \A i \in Endpoint : Busy(i)' => Busy(i)
    BY <1>2 DEF Busy
  <1> QED
    BY <1>7, <1>8

LEMMA CloseSocketsOperations ==
    ASSUME Exclusive, TypeOK, NEW S, CloseSockets(S), UNCHANGED task
    PROVE  Exclusive' /\ \A i \in Endpoint : Busy(i)' => Busy(i)
  <1> DEFINE P == {p \in pending : \E h \in S : h # None /\ owner[h] = p.ep}
  <1>1. /\ pending' = pending \ P
        /\ port' = port \cup {[io |-> p.io, status |-> "failed"] : p \in P}
    BY DEF CloseSockets
  <1> HIDE DEF P
  <1>2. P \in SUBSET pending
    BY DEF P
  <1> QED
    BY <1>1, <1>2, OperationsEnd

LEMMA CompleteOperations ==
    ASSUME Exclusive, TypeOK, NEW p \in pending, NEW s, Complete(p, s)
    PROVE  Exclusive' /\ \A i \in Endpoint : Busy(i)' => Busy(i)
  <1>1. /\ pending' = pending \ {p}
        /\ port' = port \cup {[io |-> q.io, status |-> s] : q \in {p}}
        /\ UNCHANGED task
    BY DEF Complete
  <1>2. {p} \in SUBSET pending
    OBVIOUS
  <1> QED
    BY <1>1, <1>2, OperationsEnd

\* An operation starts on a socket for an IOContext that nobody else uses.
LEMMA OperationStarts ==
    ASSUME Exclusive, NEW i, NEW x, x.io = i,
           pending' = pending \cup {x}, UNCHANGED port,
           \A y \in pending \cup port : y.io # i,
           \A w \in Worker : task'[w] # None => task'[w] = task[w] /\ task[w].io # i
    PROVE  Exclusive' /\ \A j : Busy(j)' => Busy(j) \/ j = i
  BY DEF Exclusive, Busy

\* Threads leave what is before the first WSARecv and never enter it again.
LEMMA Started ==
    ASSUME accepted \subseteq accepted',
           \A a \in Acceptor : /\ accConn'[a] # accConn[a] => accConn'[a] \notin accepted
                               /\ pc'[a] \in PreInsert \cup {"recvClient"} /\ accConn'[a] = accConn[a] =>
                                    pc[a] \in PreInsert \cup {"recvClient"}
                               /\ pc'[a] = "recvServer" => pc[a] \in {"recvClient", "recvServer"}
    PROVE  \A i : NotStarted(i)' => NotStarted(i)
  BY DEF NotStarted

\* A step that leaves operations, packets and tasks alone.
LEMMA OperationsFrame ==
    ASSUME Exclusive, UNCHANGED <<pending, port, task>>
    PROVE  Exclusive' /\ \A i \in Endpoint : Busy(i)' => Busy(i)
  BY DEF Exclusive, Busy

\* The first WSARecv of an endpoint, submitted or refused.
LEMMA FirstRecvOperations ==
    ASSUME TeardownInv, Exclusive, StartsIdle, NEW e \in Endpoint, NotStarted(e),
           NEW h, Submit(e, "READ", h) \/ Refuse(h), UNCHANGED <<port, task>>
    PROVE  Exclusive' /\ \A i \in Endpoint : Busy(i)' => Busy(i) \/ i = e
  <1>1. ~Busy(e)
    BY DEF StartsIdle
  <1>2. CASE Submit(e, "READ", h)
    <2> DEFINE x == [io |-> e, kind |-> "READ", ep |-> owner[h]]
    <2>1. x.io = e /\ pending' = pending \cup {x}
      BY <1>2 DEF Submit
    <2> HIDE DEF x
    <2>2. /\ \A y \in pending \cup port : y.io # e
          /\ \A w \in Worker : task'[w] # None => task'[w] = task[w] /\ task[w].io # e
      BY <1>1 DEF Busy
    <2> QED
      BY <2>1, <2>2, OperationStarts
  <1>3. CASE Refuse(h)
    BY <1>3, OperationsFrame DEF Refuse
  <1> QED
    BY <1>2, <1>3

LEMMA CloseConnectionOperations ==
    ASSUME OperationInv, TeardownInv', NEW t \in Thread, CloseConnection(t)
    PROVE  OperationInv' /\ Settled
  <1> USE DEF OperationInv
  <1>1. UNCHANGED <<task, accepted, accConn>>
    BY DEF CloseConnection, CloseLookup, CloseClient, CloseServer
  <1>2. \A a \in Acceptor : pc'[a] = pc[a] \/ pc'[a] \notin PreInsert \cup {"recvClient", "recvServer"}
    BY ConstantsAssumption DEF CloseConnection, CloseLookup, CloseClient, CloseServer, AfterClose,
         TeardownInv, TypeOK, ThreadOK, Thread, PreInsert
  <1>3. \A i : NotStarted(i)' => NotStarted(i)
    BY <1>1, <1>2, Started DEF PreInsert
  <1>4. (\E S : CloseSockets(S)) \/ UNCHANGED <<pending, port, task>>
    BY <1>1 DEF CloseConnection, CloseLookup, CloseClient, CloseServer
  <1>5. Exclusive' /\ \A i \in Endpoint : Busy(i)' => Busy(i)
    BY <1>1, <1>4, CloseSocketsOperations, OperationsFrame DEF TeardownInv
  <1> QED
    BY <1>3, <1>5 DEF StartsIdle, Settled

\* The steps of an accept thread that neither close sockets nor start operations.
LEMMA QuietOperations ==
    ASSUME OperationInv, TeardownInv', NEW a \in Acceptor,
           Accept(a) \/ Connected(a) \/ Associate(a) \/ Insert(a) \/ AcceptorExit(a)
    PROVE  OperationInv' /\ Settled
  <1> USE DEF OperationInv
  <1>1. UNCHANGED <<pending, port, task>>
    BY DEF Accept, Connected, Associate, Insert, AcceptorExit
  <1>2. \A i : NotStarted(i)' => NotStarted(i)
    <2>1. CASE Accept(a)
      <3>1. PICK c \in Conn \ accepted :
                /\ accepted' = accepted \cup {c}
                /\ accConn' = [accConn EXCEPT ![a] = c]
                /\ pc' = [pc EXCEPT ![a] = "connect"]
        BY <2>1 DEF Accept
      <3>2. /\ pc \in [Thread -> WorkerLabel \cup AcceptorLabel] /\ a \in Thread
            /\ accConn \in [Acceptor -> Conn \cup {None}]
        BY DEF TeardownInv, TypeOK, ThreadOK, AcceptorOK, Thread
      <3> QED
        BY <3>1, <3>2 DEF NotStarted, PreInsert
    <2>2. CASE Connected(a) \/ Associate(a) \/ Insert(a) \/ AcceptorExit(a)
      <3>1. UNCHANGED <<accepted, accConn>>
        BY <2>2 DEF Connected, Associate, Insert, AcceptorExit
      <3>2. \A b \in Acceptor : \/ pc'[b] = pc[b]
                                \/ /\ pc[b] \in PreInsert
                                   /\ pc'[b] # "recvServer"
                                \/ pc'[b] \notin PreInsert \cup {"recvClient", "recvServer"}
        BY <2>2 DEF Connected, Associate, Insert, AcceptorExit, TeardownInv, TypeOK, ThreadOK,
             Thread, PreInsert
      <3> QED
        BY <3>1, <3>2, Started DEF PreInsert
    <2> QED
      BY <2>1, <2>2
  <1> QED
    BY <1>1, <1>2, OperationsFrame DEF StartsIdle, Settled

\* The steps of an accept thread that close sockets of its iteration.
LEMMA CleanOperations ==
    ASSUME OperationInv, TeardownInv', NEW a \in Acceptor,
           ConnectFailed(a) \/ CleanClient(a) \/ CleanServer(a)
    PROVE  OperationInv' /\ Settled
  <1> USE DEF OperationInv
  <1>1. UNCHANGED <<task, accepted>> /\ \E S : CloseSockets(S)
    BY DEF ConnectFailed, CleanClient, CleanServer
  <1>2. \A b \in Acceptor : /\ b # a => pc'[b] = pc[b] /\ accConn'[b] = accConn[b]
                            /\ pc'[a] \in {"accept", "cleanServer"}
    BY DEF ConnectFailed, CleanClient, CleanServer, EndIteration, TeardownInv, TypeOK, ThreadOK,
         AcceptorOK, Thread
  <1>3. \A i : NotStarted(i)' => NotStarted(i)
    BY <1>1, <1>2 DEF NotStarted, PreInsert
  <1>4. Exclusive' /\ \A i \in Endpoint : Busy(i)' => Busy(i)
    BY <1>1, CloseSocketsOperations DEF TeardownInv
  <1> QED
    BY <1>3, <1>4 DEF StartsIdle, Settled

LEMMA RecvOperations ==
    ASSUME OperationInv, TeardownInv', NEW a \in Acceptor, RecvClient(a) \/ RecvServer(a)
    PROVE  OperationInv' /\ Settled
  <1> USE DEF OperationInv
  <1>1. /\ accConn[a] \in accepted /\ accConn[a] \in Conn /\ accConn'[a] \in Conn \cup {None}
        /\ \A b \in Acceptor : accConn[b] = accConn[a] => b = a
        /\ a \in Thread /\ pc \in [Thread -> WorkerLabel \cup AcceptorLabel]
        /\ accConn \in [Acceptor -> Conn \cup {None}] /\ Acceptor \subseteq Thread
    BY ConstantsAssumption DEF TeardownInv, AcceptedOnce, TypeOK, AcceptorOK, ThreadOK, RemoteOK,
         Thread, RecvClient, RecvServer
  <1>2. PICK e \in Endpoint : e = <<accConn[a], IF pc[a] = "recvClient" THEN "client" ELSE "server">>
    <2>1. <<accConn[a], "client">> \in Endpoint /\ <<accConn[a], "server">> \in Endpoint
      BY <1>1 DEF Endpoint, Side
    <2> QED
      BY <2>1
  <1>3. \E h : Submit(e, "READ", h) \/ Refuse(h)
    BY <1>2 DEF RecvClient, RecvServer, FirstRecv, FirstRecvRefused
  <1>4. UNCHANGED <<port, task, accepted>>
    BY DEF RecvClient, RecvServer, FirstRecv, FirstRecvRefused
  <1>5. /\ pc[a] \in {"recvClient", "recvServer"}
        /\ e[1] = accConn[a] /\ (e[2] = "server" => pc[a] = "recvServer")
        /\ pc[a] = "recvServer" => e[2] = "server"
    BY <1>2 DEF RecvClient, RecvServer
  <1>6. NotStarted(e)
    BY <1>5 DEF NotStarted
  <1>7. /\ pc[a] = "recvClient" => pc'[a] \in {"recvServer", "close"}
        /\ pc[a] = "recvServer" => pc'[a] \in {"accept", "close"}
    BY <1>1 DEF RecvClient, RecvServer, FirstRecv, FirstRecvRefused
  <1>8. \A b \in Acceptor : b # a => pc'[b] = pc[b]
    BY <1>1 DEF RecvClient, RecvServer, FirstRecv, FirstRecvRefused
  <1>9. \A b \in Acceptor : b # a => accConn'[b] = accConn[b]
    BY <1>1 DEF RecvClient, RecvServer, FirstRecv, FirstRecvRefused, EndIteration
  <1>10. pc[a] = "recvClient" => accConn'[a] = accConn[a]
    BY DEF RecvClient, RecvServer, FirstRecv, FirstRecvRefused
  <1>11. \A i : NotStarted(i)' => NotStarted(i)
    BY <1>4, <1>5, <1>7, <1>8, <1>9, <1>10 DEF NotStarted, PreInsert
  <1>12. ~NotStarted(e)'
    <2>1. \A b \in Acceptor \ {a} : accConn'[b] # e[1]
      BY <1>1, <1>5, <1>9
    <2> QED
      BY <1>1, <1>4, <1>5, <1>7, <2>1 DEF NotStarted, PreInsert
  <1>13. Exclusive' /\ \A i \in Endpoint : Busy(i)' => Busy(i) \/ i = e
    BY <1>3, <1>4, <1>6, FirstRecvOperations
  <1> QED
    BY <1>11, <1>12, <1>13 DEF StartsIdle, Settled

LEMMA HandleAcceptOperations ==
    ASSUME OperationInv, TeardownInv', NEW a \in Acceptor, HandleAccept(a)
    PROVE  OperationInv' /\ Settled
  BY QuietOperations, CleanOperations, RecvOperations, CloseConnectionOperations
     DEF HandleAccept, Thread

LEMMA WorkerThreadOperations ==
    ASSUME OperationInv, ~Recycle, TeardownInv', NEW w \in Worker, WorkerThread(w)
    PROVE  OperationInv' /\ Settled
  <1> USE DEF OperationInv
  <1>1. CASE CloseConnection(w)
    BY <1>1, CloseConnectionOperations DEF Thread
  <1>2. CASE ~CloseConnection(w)
    <2>1. /\ UNCHANGED <<accepted, accConn>>
          /\ \A a \in Acceptor : pc'[a] = pc[a]
      BY <1>2, ConstantsAssumption DEF WorkerThread, Dequeue, Abandoned, HandleEnd, HandleRead, HandleWrite, Post,
           TeardownInv, TypeOK, ThreadOK, Thread
    <2>2. \A i : NotStarted(i)' => NotStarted(i)
      BY <2>1, Started
    <2>3. task \in [Worker -> Packet \cup {None}] /\ port \subseteq Packet
      BY DEF TeardownInv, TypeOK, ThreadOK, WinsockOK
    <2>4. CASE Dequeue(w)
      <3>1. PICK p \in port : /\ port' = port \ {p}
                              /\ task' = [task EXCEPT ![w] = IF running THEN p ELSE None]
                              /\ pending' = pending /\ pc[w] = "wait"
        BY <2>4 DEF Dequeue
      <3>2. \A v \in Worker : task'[v] # None => task'[v] = task[v] \/ (v = w /\ task'[v] = p)
        BY <3>1, <2>3
      <3>3. \A v \in Worker : v # w => task'[v] = task[v]
        BY <3>1, <2>3
      <3>4. task[w] = None
        BY <3>1 DEF TeardownInv, TypeOK, ThreadOK
      <3>5. Exclusive'
        BY <3>1, <3>2, <3>3, <3>4 DEF Exclusive
      <3>6. \A i \in Endpoint : Busy(i)' => Busy(i)
        BY <3>1, <3>2 DEF Busy
      <3> QED
        BY <2>2, <3>5, <3>6 DEF StartsIdle, Settled
    <2>5. CASE Abandoned(w)
      BY <2>2, <2>5, OperationsFrame DEF Abandoned, StartsIdle, Settled
    <2>6. CASE HandleEnd(w)
      <3>1. UNCHANGED <<pending, port>> /\ task' = [task EXCEPT ![w] = None]
        BY <2>6 DEF HandleEnd
      <3>2. \A v \in Worker : task'[v] # None => task'[v] = task[v]
        BY <3>1, <2>3
      <3>3. Exclusive' /\ \A i \in Endpoint : Busy(i)' => Busy(i)
        BY <3>1, <3>2 DEF Exclusive, Busy
      <3> QED
        BY <2>2, <3>3 DEF StartsIdle, Settled
    <2>7. CASE HandleRead(w) \/ HandleWrite(w)
      <3>1. PICK kind, h : Post(w, task[w].io, kind, h)
        BY <2>7 DEF HandleRead, HandleWrite, AtAddress
      <3>2. task[w] # None /\ Busy(task[w].io)
        BY <2>7 DEF HandleRead, HandleWrite, TeardownInv, TypeOK, ThreadOK, Busy
      <3>3. /\ task' = [task EXCEPT ![w] = None] /\ UNCHANGED port
            /\ Submit(task[w].io, kind, h) \/ Refuse(h)
        BY <3>1 DEF Post
      <3>4. \A v \in Worker : task'[v] # None => task'[v] = task[v] /\ v # w
        BY <3>3, <2>3
      <3>5. CASE Refuse(h)
        <4>1. Exclusive' /\ \A i \in Endpoint : Busy(i)' => Busy(i)
          BY <3>3, <3>4, <3>5 DEF Refuse, Exclusive, Busy
        <4> QED
          BY <2>2, <4>1 DEF StartsIdle, Settled
      <3>6. CASE Submit(task[w].io, kind, h)
        <4> DEFINE x == [io |-> task[w].io, kind |-> kind, ep |-> owner[h]]
        <4>1. x.io = task[w].io /\ pending' = pending \cup {x}
          BY <3>6 DEF Submit
        <4> HIDE DEF x
        <4>2. \A y \in pending \cup port : y.io # task[w].io
          BY <3>2 DEF Exclusive
        <4>3. \A v \in Worker : task'[v] # None => task'[v] = task[v] /\ task[v].io # task[w].io
          BY <3>2, <3>4 DEF Exclusive
        <4>4. Exclusive' /\ \A i : Busy(i)' => Busy(i) \/ i = task[w].io
          BY <3>3, <4>1, <4>2, <4>3, OperationStarts
        <4> QED
          BY <2>2, <3>2, <4>4 DEF StartsIdle, Settled
      <3> QED
        BY <3>3, <3>5, <3>6
    <2> QED
      BY <1>2, <2>4, <2>5, <2>6, <2>7 DEF WorkerThread
  <1> QED
    BY <1>1, <1>2

LEMMA NextOperations == OperationInv /\ ~Recycle /\ [Next]_vars => OperationInv' /\ Settled
  <1> SUFFICES ASSUME OperationInv, ~Recycle, [Next]_vars PROVE OperationInv' /\ Settled
    OBVIOUS
  <1> USE DEF OperationInv
  <1>1. TeardownInv'
    BY NextTeardown
  <1>2. CASE \E a \in Acceptor : HandleAccept(a)
    BY <1>1, <1>2, HandleAcceptOperations
  <1>3. CASE \E w \in Worker : WorkerThread(w)
    BY <1>1, <1>3, WorkerThreadOperations
  <1>4. ASSUME UNCHANGED <<accepted, accConn, pc>>, Exclusive',
               \A i \in Endpoint : Busy(i)' => Busy(i)
        PROVE  OperationInv' /\ Settled
    BY <1>1, <1>4, Started DEF StartsIdle, Settled
  <1>5. CASE Interrupt
    BY <1>4, <1>5, OperationsFrame DEF Interrupt
  <1>6. CASE Shutdown
    <2>1. UNCHANGED <<accepted, accConn, pc, task>>
      BY <1>6 DEF Shutdown, StopRunning, LockConnections, CloseEntry, ClearConnections, ClosePort,
           JoinWorkers
    <2>2. UNCHANGED <<pending, port>> \/ \E S : CloseSockets(S)
      BY <1>6 DEF Shutdown, StopRunning, LockConnections, CloseEntry, ClearConnections, ClosePort,
           JoinWorkers
    <2> QED
      BY <1>4, <2>1, <2>2, OperationsFrame, CloseSocketsOperations DEF TeardownInv
  <1>7. CASE Network
    <2>1. PICK p \in pending : RecvData(p) \/ RecvEof(p) \/ SendDone(p) \/ IoFailed(p)
      BY <1>7 DEF Network
    <2>2. Complete(p, "data") \/ Complete(p, "eof") \/ Complete(p, "failed")
      BY <2>1 DEF RecvData, RecvEof, SendDone, IoFailed
    <2>3. Exclusive' /\ \A i \in Endpoint : Busy(i)' => Busy(i)
      <3>1. TypeOK
        BY DEF TeardownInv
      <3>2. CASE Complete(p, "data")
        BY <3>1, <3>2, CompleteOperations
      <3>3. CASE Complete(p, "eof")
        BY <3>1, <3>3, CompleteOperations
      <3>4. CASE Complete(p, "failed")
        BY <3>1, <3>4, CompleteOperations
      <3> QED
        BY <2>2, <3>2, <3>3, <3>4
    <2>4. UNCHANGED <<accepted, accConn, pc>>
      BY <2>2 DEF Complete
    <2> QED
      BY <1>4, <2>3, <2>4
  <1>8. CASE UNCHANGED vars
    BY <1>4, <1>8, OperationsFrame
  <1> QED
    BY <1>2, <1>3, <1>5, <1>6, <1>7, <1>8 DEF Next

\* An IOContext is in one operation, one packet or one worker's hands at a time
\* (iocp.cpp:187-208), for any number of connections and workers, as long as
\* freed memory is not reissued: with reuse the code does not keep it.
THEOREM OneAtATime == ~Recycle => (Spec => []OneOperation)
  <1> SUFFICES ASSUME ~Recycle PROVE Spec => []OneOperation
    OBVIOUS
  <1>1. Init => OperationInv
    BY InitTeardown DEF Init, OperationInv, Exclusive, StartsIdle, Busy
  <1>2. OperationInv /\ [Next]_vars => OperationInv'
    BY NextOperations
  <1>3. OperationInv => OneOperation
    <2> SUFFICES ASSUME OperationInv PROVE OneOperation
      OBVIOUS
    <2> DEFINE tasks == {task[w] : w \in Worker} \ {None}
    <2>1. \A x \in tasks : \E w \in Worker : x = task[w] /\ task[w] # None
      OBVIOUS
    <2> HIDE DEF tasks
    <2>2. \A x, y \in pending \cup port \cup tasks : x.io = y.io => x = y
      BY <2>1 DEF OperationInv, Exclusive
    <2>3. \A w \in Worker : task[w] \notin port
      BY ConstantsAssumption DEF OperationInv, Exclusive, TeardownInv, TypeOK, WinsockOK
    <2>4. \A w, v \in Worker : task[w] # None /\ task[w] = task[v] => w = v
      BY DEF OperationInv, Exclusive
    <2> QED
      BY <2>2, <2>3, <2>4 DEF OneOperation, tasks
  <1> QED
    BY <1>1, <1>2, <1>3, PTL DEF Spec

-----------------------------------------------------------------------------
(***************************************************************************)
(* The manager implements Forwarding.                                      *)
(***************************************************************************)

\* Connection c may be closed: it ended, or the process is being stopped.
Doomed(c) == Ended(c) \/ mainPc # "run"

\* RegisterConnection has failed, or will.
GivingUp == {"close", "closeClient", "closeServer", "cleanClient", "cleanServer"}

\* A key CloseConnection may be called with.
DoomedKey(h) == h = None \/ h \in spent \/ (owner[h] # None /\ Doomed(owner[h][1]))

\* Only a doomed connection is closed, and only because of it.
DoomInv ==
    /\ \A i \in Endpoint : Named(ioSock[i], i) /\ Named(ioRemote[i], Peer(i))
    /\ \A i \in Endpoint : ioSock[i] \in spent \/ ioRemote[i] \in spent => Doomed(i[1])
    /\ \A a \in Acceptor : accClient[a] \in spent \/ accServer[a] \in spent => Doomed(accConn[a])
    /\ \A a \in Acceptor : pc[a] \in GivingUp => Doomed(accConn[a])
    /\ \A t \in Thread : ref[t] # None => Doomed(ref[t])
    /\ \A t \in Thread : pc[t] = "close" =>
        DoomedKey(key[t])
    /\ \A x \in port : x.status # "data" => Doomed(x.io[1])
    /\ \A w \in Worker : task[w] # None /\ task[w].status # "data" => Doomed(task[w].io[1])

\* What was read from i was delivered, or one chunk of it is in the buffer.
Empty(i) == received[i] = Len(delivered[Peer(i)])
Full(i) == received[i] = Len(delivered[Peer(i)]) + 1 /\ buffer[i] = <<i, received[i]>>

\* What a completed operation leaves.
Completed(i) == IF operation[i] = "READ" THEN Full(i) ELSE Empty(i)

\* An operation under way, and a packet.
GoodOperation(p) ==
    /\ \E h \in Handle : owner[h] = p.ep
    /\ operation[p.io] = p.kind
    /\ p.kind = "READ" => p.ep = p.io /\ Empty(p.io)
    /\ p.kind = "WRITE" => p.ep = Peer(p.io) /\ Full(p.io)

GoodPacket(x) == x.status = "data" => Completed(x.io)

\* Operations take each chunk from the right socket to the other one, once.
FlowInv ==
    /\ \A p \in pending : GoodOperation(p)
    /\ \A x \in port : GoodPacket(x)
    /\ \A w \in Worker : task[w] # None => GoodPacket(task[w])
    /\ \A i \in Endpoint : Busy(i) => ioSock[i] # None /\ ioRemote[i] # None
    /\ \A i \in Endpoint : NotStarted(i) => received[i] = 0 /\ delivered[Peer(i)] = <<>>
    /\ \A c \in Conn : c \notin accepted => ~Ended(c)
    /\ \A a \in Acceptor : pc[a] = "connect" => ~Ended(accConn[a])
    /\ \A a \in Acceptor : pc[a] \in {"recvClient", "recvServer"} => \A s \in Side :
            ioSock[<<accConn[a], s>>] # None /\ ioRemote[<<accConn[a], s>>] # None

ForwardingInv == SocketInv /\ OperationInv /\ DoomInv /\ FlowInv

-----------------------------------------------------------------------------
(***************************************************************************)
(* Steps of Forwarding.                                                    *)
(***************************************************************************)
Maps == Forwarder!Next \/ UNCHANGED Forwarder!vars

LEMMA KnownNext ==
    ASSUME TypeOK'
    PROVE  Facts'
  BY ConstantsAssumption DEF Facts, TypeOK, HeapOK, ThreadOK, AcceptorOK, WinsockOK, RemoteOK, Thread

\* Nothing changes that the peers see.
LEMMA MapStutter ==
    ASSUME UNCHANGED <<owner, fault, fin, received, delivered>>,
           mainPc # "run" <=> mainPc' # "run"
    PROVE  Maps
  <1>1. Ended(1)' = Ended(1)
    BY DEF Ended
  <1>2. UNCHANGED <<{e \in Endpoint : \E h \in Handle : owner[h] = e}, {c \in Conn : Ended(c)},
                    mainPc # "run", received, delivered>>
    BY DEF Ended
  <1> QED
    BY <1>2 DEF Maps, Forwarder!vars

LEMMA MapFinish ==
    ASSUME TypeOK, TypeOK', NEW c \in Conn, UNCHANGED <<received, delivered, mainPc>>,
           fault \subseteq fault', fin \subseteq fin',
           \A d \in Conn : Ended(d)' => Ended(d) \/ d = c,
           \A h \in Handle : owner'[h] # None => owner'[h] = owner[h],
           \A h \in Handle : owner[h] # None /\ owner'[h] = None => owner[h][1] = c /\ Doomed(c)'
    PROVE  Maps
  <1> DEFINE open == {e \in Endpoint : \E h \in Handle : owner[h] = e}
             ended == {d \in Conn : Ended(d)}
             S == open \ open'
  <1>1. Facts /\ Facts'
    BY Known, KnownNext
  <1>2. ended' \in {ended, ended \cup {c}}
    <2>1. ended \subseteq ended' /\ ended' \subseteq ended \cup {c}
      BY DEF Ended
    <2> HIDE DEF ended
    <2> QED
      BY <2>1
  <1>3. \A e \in S : \E h \in Handle : owner[h] = e /\ owner[h] # None /\ owner'[h] = None
    BY <1>1 DEF Facts
  <1>4. S \in SUBSET ({c} \X Side)
    BY <1>3 DEF Endpoint
  <1>5. S # {} => c \in ended' \/ mainPc # "run"
    BY <1>3 DEF Doomed
  <1>6. open' = open \ S
    BY <1>1 DEF Facts
  <1> HIDE DEF open, ended, S
  <1>7. \E T \in SUBSET ({c} \X Side) :
            open' = open \ T /\ (T # {} => c \in ended' \/ mainPc # "run")
    BY <1>4, <1>5, <1>6
  <1>8. Forwarder!Finish(c)
    <2>1. UNCHANGED <<mainPc # "run", received, delivered>>
      OBVIOUS
    <2>2. Forwarder!Side = Side
      BY DEF Forwarder!Side, Side
    <2> QED
      BY <1>2, <1>7, <2>1, <2>2, Zenon DEF Forwarder!Finish, open, ended
  <1> QED
    BY <1>8 DEF Maps, Forwarder!Next

LEMMA MapOpen ==
    ASSUME TypeOK, NEW e \in Endpoint, NEW h \in Handle, owner[h] = None,
           \A g \in Handle : owner[g] # e, ~Ended(e[1]), received[e] = 0,
           owner' = [owner EXCEPT ![h] = e], UNCHANGED <<fault, fin, mainPc, received, delivered>>
    PROVE  Maps
  <1> DEFINE open == {d \in Endpoint : \E g \in Handle : owner[g] = d}
             ended == {d \in Conn : Ended(d)}
  <1>1. Facts
    BY Known
  <1>2. owner'[h] = e /\ \A g \in Handle : g # h => owner'[g] = owner[g]
    BY <1>1 DEF Facts
  <1>3. open' = open \cup {e}
    BY <1>1, <1>2 DEF Facts
  <1>4. e \notin open /\ e[1] \notin ended
    OBVIOUS
  <1>5. ended' = ended
    BY DEF Ended
  <1>6. UNCHANGED <<ended, mainPc # "run", received, delivered>>
    BY <1>5
  <1> HIDE DEF open, ended
  <1>7. Forwarder!Endpoint = Endpoint
    BY DEF Forwarder!Endpoint, Forwarder!Side, Endpoint, Side
  <1>8. Forwarder!Open(e)
    BY <1>3, <1>4, <1>6, Zenon DEF Forwarder!Open, open, ended
  <1> QED
    BY <1>7, <1>8 DEF Maps, Forwarder!Next

LEMMA MapReceive ==
    ASSUME TypeOK, NEW e \in Endpoint, \E h \in Handle : owner[h] = e, Empty(e),
           received[e] < MaxChunk, received' = [received EXCEPT ![e] = @ + 1],
           UNCHANGED <<owner, fault, fin, mainPc, delivered>>
    PROVE  Maps
  <1> DEFINE open == {d \in Endpoint : \E g \in Handle : owner[g] = d}
             ended == {d \in Conn : Ended(d)}
  <1>1. Forwarder!Endpoint = Endpoint /\ Forwarder!Peer(e) = Peer(e)
    BY DEF Forwarder!Endpoint, Forwarder!Side, Endpoint, Side, Forwarder!Peer, Peer
  <1>2. Peer(e) \in Endpoint
    BY DEF Peer, Endpoint, Side
  <1>3. received[e] - Len(delivered[Peer(e)]) = 0
    BY <1>2, ConstantsAssumption DEF Empty, TypeOK, RemoteOK
  <1>4. e \in open
    OBVIOUS
  <1>5. UNCHANGED <<open, ended, mainPc # "run", delivered>>
    BY DEF Ended
  <1> HIDE DEF open, ended
  <1>6. Forwarder!InTransit(e) = 0
    BY <1>1, <1>3 DEF Forwarder!InTransit
  <1>7. Forwarder!Receive(e)
    BY <1>4, <1>5, <1>6, Zenon DEF Forwarder!Receive, open, ended
  <1> QED
    BY <1>1, <1>7 DEF Maps, Forwarder!Next

LEMMA MapDeliver ==
    ASSUME TypeOK, NEW e \in Endpoint, \E h \in Handle : owner[h] = Peer(e),
           received[e] = Len(delivered[Peer(e)]) + 1,
           delivered' = [delivered EXCEPT ![Peer(e)] = Append(@, <<e, received[e]>>)],
           UNCHANGED <<owner, fault, fin, mainPc, received>>
    PROVE  Maps
  <1> DEFINE open == {d \in Endpoint : \E g \in Handle : owner[g] = d}
             ended == {d \in Conn : Ended(d)}
  <1>1. Forwarder!Endpoint = Endpoint /\ Forwarder!Peer(e) = Peer(e)
    BY DEF Forwarder!Endpoint, Forwarder!Side, Endpoint, Side, Forwarder!Peer, Peer
  <1>2. Peer(e) \in Endpoint
    BY DEF Peer, Endpoint, Side
  <1>3. received[e] - Len(delivered[Peer(e)]) = 1
    BY <1>2, ConstantsAssumption DEF TypeOK, RemoteOK
  <1>4. Peer(e) \in open
    BY <1>2
  <1>5. UNCHANGED <<open, ended, mainPc # "run", received>>
    BY DEF Ended
  <1> HIDE DEF open, ended
  <1>6. Forwarder!InTransit(e) = 1
    BY <1>1, <1>3 DEF Forwarder!InTransit
  <1>7. Forwarder!Deliver(e)
    BY <1>1, <1>4, <1>5, <1>6, Zenon DEF Forwarder!Deliver, open, ended
  <1> QED
    BY <1>1, <1>7 DEF Maps, Forwarder!Next

LEMMA MapHalt ==
    ASSUME mainPc' # "run", UNCHANGED <<owner, fault, fin, received, delivered>>
    PROVE  Maps
  <1>1. UNCHANGED <<{e \in Endpoint : \E h \in Handle : owner[h] = e}, {c \in Conn : Ended(c)},
                    received, delivered>>
    BY DEF Ended
  <1>2. (mainPc # "run")' = TRUE
    OBVIOUS
  <1> QED
    BY <1>1, <1>2, Zenon DEF Maps, Forwarder!Next, Forwarder!Halt

-----------------------------------------------------------------------------
(***************************************************************************)
(* What the steps of the manager keep.                                     *)
(***************************************************************************)

\* What has ended stays so, and the process does not go back to running.
Lasting == fault \subseteq fault' /\ fin \subseteq fin' /\ (mainPc # "run" => mainPc' # "run")

LEMMA StaysDoomed == Lasting => \A c : /\ Ended(c) => Ended(c)'
                                       /\ Doomed(c) => Doomed(c)'
  BY DEF Lasting, Doomed, Ended

LEMMA PeerIs ==
    ASSUME NEW e \in Endpoint
    PROVE  /\ Peer(e) \in Endpoint /\ Peer(e)[1] = e[1] /\ e[1] \in Conn /\ Peer(Peer(e)) = e
           /\ \A d \in Endpoint : Peer(d) = Peer(e) => d = e
  BY DEF Peer, Endpoint, Side

\* A step that closes nothing, or only sockets of c, which is doomed by then.
KeepsDoomed(c) ==
    /\ Monotone
    /\ \A i \in Endpoint :
          /\ ioSock'[i] = ioSock[i] \/ (ioSock'[i] \notin spent' /\ Named(ioSock[i], i)')
          /\ ioRemote'[i] = ioRemote[i] \/ (ioRemote'[i] \notin spent' /\ Named(ioRemote[i], Peer(i))')
    /\ Doomed(c)' \/ spent' = spent
    /\ \A h \in Handle : h \in spent' => h \in spent \/ (owner[h] # None /\ owner[h][1] = c)
    /\ \A a \in Acceptor :
          /\ pc'[a] \in GivingUp =>
                (pc[a] \in GivingUp /\ accConn'[a] = accConn[a]) \/ Doomed(accConn[a])'
          /\ accClient'[a] \notin spent' \/ (accClient'[a] = accClient[a] /\ accConn'[a] = accConn[a])
          /\ accServer'[a] \notin spent' \/ (accServer'[a] = accServer[a] /\ accConn'[a] = accConn[a])
    /\ \A t \in Thread :
          /\ ref'[t] \in {None, ref[t]} \/ Doomed(ref[t])'
          /\ pc'[t] = "close" => (pc[t] = "close" /\ key'[t] = key[t]) \/ DoomedKey(key[t])'
    /\ \A x \in port' : x \in port \/ (x.status # "data" => Doomed(x.io[1])')
    /\ \A w \in Worker : task'[w] = None \/ task'[w] = task[w] \/ task'[w] \in port

LEMMA DoomStep ==
    ASSUME DoomInv, TypeOK, TypeOK', Lasting, SocketsNamed, NEW c, KeepsDoomed(c)
    PROVE  DoomInv'
  <1> USE DEF KeepsDoomed
  <1>1. Facts /\ Facts' /\ None \notin spent'
    BY Known, KnownNext DEF Facts
  <1>2. \A i \in Endpoint : (Named(ioSock[i], i) /\ Named(ioRemote[i], Peer(i)))'
    <2>1. ASSUME NEW i \in Endpoint PROVE Named(ioSock[i], i)'
      BY <1>1, <2>1, StaysNamed DEF DoomInv, TypeOK, HeapOK, Named
    <2>2. ASSUME NEW i \in Endpoint PROVE Named(ioRemote[i], Peer(i))'
      BY <1>1, <2>2, StaysNamed, PeerIs DEF DoomInv, TypeOK, HeapOK, Named
    <2> QED
      BY <2>1, <2>2
  <1>3. ASSUME NEW h \in Handle \cup {None}, NEW d, NEW s, Named(h, <<d, s>>), h \in spent',
               h \in spent => Doomed(d)
        PROVE  Doomed(d)'
    BY <1>1, <1>3, StaysDoomed DEF Named
  <1>4. ASSUME NEW i \in Endpoint, ioSock'[i] \in spent' \/ ioRemote'[i] \in spent'
        PROVE  Doomed(i[1])'
    <2>1. \/ ioSock[i] \in spent' /\ Named(ioSock[i], i)
          \/ ioRemote[i] \in spent' /\ Named(ioRemote[i], Peer(i))
      BY <1>4 DEF DoomInv
    <2>2. /\ ioSock[i] \in Handle \cup {None} /\ ioRemote[i] \in Handle \cup {None}
          /\ ioSock[i] \in spent \/ ioRemote[i] \in spent => Doomed(i[1])
      BY DEF DoomInv, TypeOK, HeapOK
    <2>3. i = <<i[1], i[2]>> /\ Peer(i) = <<i[1], Peer(i)[2]>>
      BY PeerIs, Pairs
    <2> QED
      BY <1>3, <2>1, <2>2, <2>3
  <1>5. ASSUME NEW a \in Acceptor, accClient'[a] \in spent' \/ accServer'[a] \in spent'
        PROVE  Doomed(accConn[a])'
    BY <1>1, <1>3, <1>5 DEF DoomInv, SocketsNamed, Facts
  <1>6. \A a \in Acceptor : pc'[a] \in GivingUp => Doomed(accConn[a])'
    BY StaysDoomed DEF DoomInv
  <1>7. \A t \in Thread : ref'[t] # None => Doomed(ref[t])'
    BY StaysDoomed DEF DoomInv
  <1>8. ASSUME NEW t \in Thread, pc'[t] = "close" PROVE DoomedKey(key[t])'
    BY <1>1, <1>8, StaysDoomed DEF DoomInv, DoomedKey, Monotone, Facts
  <1>9. \A x \in port' : x.status # "data" => Doomed(x.io[1])'
    BY StaysDoomed DEF DoomInv
  <1>10. \A w \in Worker : task'[w] # None /\ task'[w].status # "data" => Doomed(task[w].io[1])'
    BY StaysDoomed DEF DoomInv
  <1> QED
    BY <1>2, <1>4, <1>5, <1>6, <1>7, <1>8, <1>9, <1>10 DEF DoomInv

\* A step that touches only the IOContexts in I, and their data.
KeepsFlow(I) ==
    /\ \A p \in pending' : \/ GoodOperation(p)'
                           \/ p \in pending /\ p.io \notin I /\ \E h \in Handle : owner'[h] = p.ep
    /\ \A x \in port' : GoodPacket(x)' \/ (x \in port /\ x.io \notin I)
    /\ \A w \in Worker : \/ task'[w] = None \/ GoodPacket(task[w])'
                         \/ task'[w] \in port \cup {task[w]} /\ task'[w].io \notin I
    /\ \A i \in Endpoint \ I :
          /\ Busy(i)' => operation'[i] = operation[i] /\ buffer'[i] = buffer[i]
          /\ received'[i] = received[i] /\ delivered'[Peer(i)] = delivered[Peer(i)]
    /\ \A i \in Endpoint :
          /\ NotStarted(i)' => received'[i] = received[i] /\ delivered'[Peer(i)] = delivered[Peer(i)]
          /\ Busy(i)' => Busy(i) \/ (ioSock[i] # None /\ ioRemote[i] # None)
          /\ ioSock[i] # None /\ ioRemote[i] # None => ioSock'[i] # None /\ ioRemote'[i] # None
    /\ \A c \in Conn : c \notin accepted' => c \notin accepted /\ (Ended(c)' => Ended(c))
    /\ \A a \in Acceptor :
          /\ pc'[a] = "connect" => ~Ended(accConn[a])'
          /\ pc'[a] \in {"recvClient", "recvServer"} =>
                \/ pc[a] \in {"recvClient", "recvServer"} /\ accConn'[a] = accConn[a]
                \/ \A s \in Side : /\ ioSock'[<<accConn'[a], s>>] # None
                                   /\ ioRemote'[<<accConn'[a], s>>] # None

LEMMA FlowStep ==
    ASSUME FlowInv, TypeOK, TypeOK', Settled, NEW I, KeepsFlow(I),
           \A a \in Acceptor : pc[a] \in {"recvClient", "recvServer"} => accConn[a] \in Conn
    PROVE  FlowInv'
  <1> USE DEF KeepsFlow
  <1>1. pending \subseteq Overlapped /\ port \subseteq Packet /\ pending' \subseteq Overlapped
        /\ port' \subseteq Packet /\ \A w \in Worker : task'[w] \in Packet \cup {None}
    BY DEF TypeOK, WinsockOK, ThreadOK
  <1>2. ASSUME NEW p \in pending' PROVE GoodOperation(p)'
    <2>1. CASE p \in pending /\ p.io \notin I /\ \E h \in Handle : owner'[h] = p.ep
      <3>1. p.io \in Endpoint /\ Busy(p.io)'
        BY <1>1, <1>2 DEF Overlapped, Busy
      <3>2. /\ operation'[p.io] = operation[p.io] /\ buffer'[p.io] = buffer[p.io]
            /\ received'[p.io] = received[p.io] /\ delivered'[Peer(p.io)] = delivered[Peer(p.io)]
        BY <2>1, <3>1
      <3>3. GoodOperation(p)
        BY <2>1 DEF FlowInv
      <3> QED
        BY <2>1, <3>2, <3>3 DEF GoodOperation, Empty, Full
    <2> QED
      BY <1>2, <2>1
  <1>3. ASSUME NEW x \in Packet, x.io \notin I, Busy(x.io)', GoodPacket(x) PROVE GoodPacket(x)'
    <2>1. x.io \in Endpoint
      BY DEF Packet
    <2>2. /\ operation'[x.io] = operation[x.io] /\ buffer'[x.io] = buffer[x.io]
          /\ received'[x.io] = received[x.io] /\ delivered'[Peer(x.io)] = delivered[Peer(x.io)]
      BY <1>3, <2>1
    <2> QED
      BY <1>3, <2>2 DEF GoodPacket, Completed, Empty, Full
  <1>4. ASSUME NEW x \in port' PROVE GoodPacket(x)'
    BY <1>1, <1>3, <1>4 DEF FlowInv, Busy
  <1>5. ASSUME NEW w \in Worker, task'[w] # None PROVE GoodPacket(task[w])'
    <2>1. CASE task'[w] \in port \cup {task[w]} /\ task'[w].io \notin I
      <3>1. PICK x \in Packet : x = task'[w]
        BY <1>1, <1>5
      <3>2. Busy(x.io)' /\ GoodPacket(x)
        BY <1>5, <2>1, <3>1 DEF FlowInv, Busy
      <3>3. GoodPacket(x)'
        BY <1>3, <2>1, <3>1, <3>2
      <3> QED
        BY <3>1, <3>3 DEF GoodPacket
    <2> QED
      BY <1>5, <2>1
  <1>6. \A i \in Endpoint : Busy(i)' => ioSock'[i] # None /\ ioRemote'[i] # None
    BY DEF FlowInv
  <1>7. \A i \in Endpoint : NotStarted(i)' => received'[i] = 0 /\ delivered'[Peer(i)] = <<>>
    BY DEF FlowInv, Settled
  <1>8. \A c \in Conn : c \notin accepted' => ~Ended(c)'
    BY DEF FlowInv
  <1>9. ASSUME NEW a \in Acceptor, pc'[a] \in {"recvClient", "recvServer"}, NEW s \in Side
        PROVE  ioSock'[<<accConn'[a], s>>] # None /\ ioRemote'[<<accConn'[a], s>>] # None
    BY <1>9 DEF FlowInv, Endpoint
  <1> QED
    BY <1>2, <1>4, <1>5, <1>6, <1>7, <1>8, <1>9 DEF FlowInv

LEMMA NextLasting == [Next]_vars => Lasting
  <1> SUFFICES ASSUME [Next]_vars PROVE Lasting
    OBVIOUS
  <1>1. CASE \E a \in Acceptor : HandleAccept(a)
    BY <1>1 DEF HandleAccept, Accept, Connected, ConnectFailed, Associate, Insert, RecvClient,
         RecvServer, FirstRecv, FirstRecvRefused, Submit, Refuse, CloseConnection, CloseLookup,
         CloseClient, CloseServer, CleanClient, CleanServer, AcceptorExit, Lasting
  <1>2. CASE \E w \in Worker : WorkerThread(w)
    BY <1>2 DEF WorkerThread, Dequeue, Abandoned, HandleEnd, HandleRead, HandleWrite, Post, Submit,
         Refuse, CloseConnection, CloseLookup, CloseClient, CloseServer, Lasting
  <1>3. CASE Interrupt \/ Shutdown
    BY <1>3 DEF Interrupt, Shutdown, StopRunning, LockConnections, CloseEntry, ClearConnections,
         ClosePort, JoinWorkers, Lasting
  <1>4. CASE Network
    BY <1>4 DEF Network, RecvData, RecvEof, SendDone, IoFailed, Complete, Lasting
  <1>5. CASE UNCHANGED vars
    BY <1>5 DEF Lasting
  <1> QED
    BY <1>1, <1>2, <1>3, <1>4, <1>5 DEF Next

\* What the invariants say, and what a step keeps, in one place.
Going == /\ ForwardingInv /\ SocketInv' /\ OperationInv' /\ Settled /\ Lasting
         /\ TypeOK /\ TypeOK' /\ Facts /\ Facts' /\ SocketsNamed /\ None \notin spent'

LEMMA NextGoing == ForwardingInv /\ ~Recycle /\ [Next]_vars => Going
  BY NextSockets, NextOperations, NextLasting, Known, KnownNext
     DEF Going, ForwardingInv, SocketInv, TeardownInv, Facts

\* A step that takes no data and no operation anywhere: what is left to show.
LEMMA FlowFrame ==
    ASSUME Going, UNCHANGED <<operation, buffer, received, delivered>>,
           \A p \in pending' : p \in pending /\ \E h \in Handle : owner'[h] = p.ep,
           \A x \in port' : x \in port \/ x.status # "data",
           \A w \in Worker : task'[w] = None \/ task'[w] = task[w] \/ task'[w] \in port,
           \A i \in Endpoint : Busy(i)' => Busy(i),
           \A i \in Endpoint : ioSock[i] # None /\ ioRemote[i] # None =>
              ioSock'[i] # None /\ ioRemote'[i] # None,
           \A c \in Conn : c \notin accepted' => c \notin accepted /\ (Ended(c)' => Ended(c)),
           \A a \in Acceptor : pc'[a] = "connect" => ~Ended(accConn[a])',
           \A a \in Acceptor : pc'[a] \in {"recvClient", "recvServer"} =>
              \/ pc[a] \in {"recvClient", "recvServer"} /\ accConn'[a] = accConn[a]
              \/ \A s \in Side : /\ ioSock'[<<accConn'[a], s>>] # None
                                 /\ ioRemote'[<<accConn'[a], s>>] # None
    PROVE  FlowInv'
  <1>1. FlowInv /\ TypeOK /\ TypeOK' /\ Settled /\ Facts
    BY DEF Going, ForwardingInv
  <1>2. \A x \in port' : GoodPacket(x)' \/ (x \in port /\ x.io \notin {})
    BY DEF GoodPacket
  <1>3. \A a \in Acceptor : pc[a] \in {"recvClient", "recvServer"} => accConn[a] \in Conn
    BY <1>1 DEF Facts
  <1>4. KeepsFlow({})
    BY <1>2 DEF KeepsFlow
  <1> QED
    BY <1>1, <1>3, <1>4, FlowStep

\* Sockets of a doomed connection are closed.
LEMMA CloseForwards ==
    ASSUME Going, NEW c \in Conn, NEW S \in SUBSET (Handle \cup {None}), CloseSockets(S), ClosesOf(c, S), Doomed(c)',
           UNCHANGED <<operation, buffer, received, delivered, ioSock, ioRemote, task, accepted,
                       fin, mainPc>>,
           fault' = fault \/ (fault' = fault \cup {c} /\ c \in accepted),
           \A t \in Thread : ref'[t] \in {None, ref[t]},
           \A t \in Thread : pc'[t] = "close" => pc[t] = "close" /\ key'[t] = key[t],
           \A a \in Acceptor :
              /\ pc'[a] \in GivingUp => pc[a] \in GivingUp /\ accConn'[a] = accConn[a]
              /\ pc'[a] = "connect" =>
                    pc[a] = "connect" /\ accConn'[a] = accConn[a] /\ (fault' = fault \/ accConn[a] # c)
              /\ pc'[a] \in {"recvClient", "recvServer"} =>
                    pc[a] \in {"recvClient", "recvServer"} /\ accConn'[a] = accConn[a]
              /\ accClient'[a] = None \/ (accClient'[a] = accClient[a] /\ accConn'[a] = accConn[a])
              /\ accServer'[a] = None \/ (accServer'[a] = accServer[a] /\ accConn'[a] = accConn[a])
    PROVE  DoomInv' /\ FlowInv' /\ Maps
  <1> DEFINE aborted == {p \in pending : \E h \in S : h # None /\ owner[h] = p.ep}
  <1>1. /\ owner' = [h \in Handle |-> IF h \in S THEN None ELSE owner[h]]
        /\ spent' = spent \cup {h \in Handle : h \in S /\ owner[h] # None}
        /\ pending' = pending \ aborted
        /\ port' = port \cup {[io |-> p.io, status |-> "failed"] : p \in aborted}
    BY DEF CloseSockets
  <1>2. FlowInv /\ DoomInv /\ TypeOK /\ TypeOK' /\ Facts /\ Facts' /\ Lasting /\ SocketsNamed
        /\ Exclusive /\ None \notin spent'
    BY DEF Going, ForwardingInv, OperationInv
  <1>3. \A h \in Handle : h \in S /\ owner[h] # None => owner[h][1] = c
    BY <1>1 DEF ClosesOf
  <1>4. \A p \in aborted : p.io[1] = c
    <2> SUFFICES ASSUME NEW p \in aborted PROVE p.io[1] = c
      OBVIOUS
    <2>1. p \in pending /\ p.io \in Endpoint /\ p.ep \in Endpoint
      BY <1>2 DEF TypeOK, WinsockOK, Overlapped
    <2>2. p.ep[1] = c
      <3>1. PICK h \in S : h # None /\ owner[h] = p.ep
        OBVIOUS
      <3> QED
        BY <1>2, <1>3, <2>1, <3>1 DEF Facts
    <2>3. p.ep = p.io \/ p.ep = Peer(p.io)
      BY <1>2, <2>1 DEF FlowInv, GoodOperation, TypeOK, WinsockOK, Overlapped
    <2> QED
      BY <2>1, <2>2, <2>3, PeerIs
  <1>5. \A x \in port' : x \in port \/ (x.status = "failed" /\ x.io[1] = c)
    <2>1. \A x \in port' : x \in port \/ \E p \in aborted : x = [io |-> p.io, status |-> "failed"]
      BY <1>1
    <2> QED
      BY <1>4, <2>1
  <1>6. \A p \in pending' : p \in pending /\ \E h \in Handle : owner'[h] = p.ep
    <2> SUFFICES ASSUME NEW p \in pending'
                 PROVE  p \in pending /\ \E h \in Handle : owner'[h] = p.ep
      OBVIOUS
    <2>1. p \in pending /\ p \notin aborted
      BY <1>1
    <2>2. PICK h \in Handle : owner[h] = p.ep
      BY <1>2, <2>1 DEF FlowInv, GoodOperation
    <2>3. h \notin S
      BY <1>2, <2>1, <2>2 DEF Facts
    <2> QED
      BY <1>1, <2>1, <2>2, <2>3
  <1> HIDE DEF aborted
  <1>7. \A d : /\ Ended(d)' => Ended(d) \/ (d = c /\ c \in accepted)
               /\ fault' = fault => (Ended(d)' => Ended(d))
    BY DEF Ended
  <1>8. DoomInv'
    <2>1. \A h \in Handle : h \in spent' => h \in spent \/ (owner[h] # None /\ owner[h][1] = c)
      BY <1>1, <1>3
    <2>2. \A a \in Acceptor :
            /\ accClient'[a] \notin spent' \/ (accClient'[a] = accClient[a] /\ accConn'[a] = accConn[a])
            /\ accServer'[a] \notin spent' \/ (accServer'[a] = accServer[a] /\ accConn'[a] = accConn[a])
      BY <1>2
    <2>3. \A x \in port' : x \in port \/ (x.status # "data" => Doomed(x.io[1])')
      BY <1>5
    <2>4. KeepsDoomed(c)
      BY <2>1, <2>2, <2>3 DEF KeepsDoomed, ClosesOf
    <2> QED
      BY <1>2, <2>4, DoomStep
  <1>9. FlowInv'
    <2>1. \A i \in Endpoint : Busy(i)' => Busy(i)
      BY <1>2, CloseSocketsOperations
    <2>2. \A a \in Acceptor : pc'[a] = "connect" => ~Ended(accConn[a])'
      BY <1>2, <1>7 DEF FlowInv
    <2>3. \A x \in port' : x \in port \/ x.status # "data"
      BY <1>5
    <2>4. \A d \in Conn : d \notin accepted' => d \notin accepted /\ (Ended(d)' => Ended(d))
      BY <1>7
    <2> QED
      BY <1>6, <2>1, <2>2, <2>3, <2>4, FlowFrame
  <1>10. Maps
    <2>1. \A d \in Conn : Ended(d)' => Ended(d) \/ d = c
      BY <1>7
    <2>2. \A h \in Handle : owner'[h] # None => owner'[h] = owner[h]
      BY <1>1
    <2>3. \A h \in Handle : owner[h] # None /\ owner'[h] = None => owner[h][1] = c /\ Doomed(c)'
      BY <1>1, <1>3
    <2>4. fault \subseteq fault' /\ fin \subseteq fin'
      BY <1>2 DEF Lasting
    <2> QED
      BY <1>2, <2>1, <2>2, <2>3, <2>4, MapFinish
  <1> QED
    BY <1>8, <1>9, <1>10

-----------------------------------------------------------------------------
(***************************************************************************)
(* Closing.                                                                *)
(***************************************************************************)
\* The context that CloseConnection finds is doomed.
LEMMA CloseLookupForwards ==
    ASSUME Going, NEW t \in Thread, CloseLookup(t)
    PROVE  DoomInv' /\ FlowInv' /\ Maps
  <1>1. /\ UNCHANGED <<ioSock, ioRemote, operation, buffer, task, accConn, accClient, accServer,
                       mainPc, owner, spent, pending, port, accepted, received, delivered, fin, fault>>
        /\ pc[t] = "close" /\ mutexFree
    BY DEF CloseLookup
  <1>2. TypeOK /\ TypeOK' /\ Facts /\ Lasting /\ DoomInv /\ FlowInv /\ SocketsNamed /\ Exclusive
    BY DEF Going, ForwardingInv, OperationInv
  <1>3. /\ \A u \in Thread : u # t => pc'[u] = pc[u] /\ ref'[u] = ref[u]
        /\ pc'[t] \in {"closeClient", AfterClose(t)}
        /\ key'[t] = None /\ \A u \in Thread : u # t => key'[u] = key[u]
    BY <1>2 DEF CloseLookup, Facts
  <1>4. /\ AfterClose(t) \in {"cleanClient", "wait", "exit"}
        /\ pc'[t] \notin {"close", "connect", "recvClient", "recvServer"}
    BY <1>3 DEF AfterClose
  <1>5. ref'[t] \in {None, ref[t]} \/ Doomed(ref[t])'
    <2>1. CASE Find(key[t]) = None
      BY <2>1 DEF CloseLookup
    <2>2. CASE Find(key[t]) # None
      <3>1. PICK c \in Conn : c = connections[key[t]] /\ key[t] \in Handle /\ ref'[t] = c
        BY <1>2, <2>2 DEF CloseLookup, Find, Facts
      <3>2. Paired(c) /\ key[t] \in {clientSock[c], serverSock[c]} /\ clientSock[c] # None
        BY <1>2, <3>1 DEF Going, ForwardingInv, SocketInv, TeardownInv, KeysAreSockets, Facts, Paired
      <3>3. key[t] \notin spent /\ key[t] # None
        BY <1>1, <1>2, <3>1, <3>2 DEF Paired, Facts
      <3>4. owner[key[t]] \in {<<c, "client">>, <<c, "server">>}
        BY <1>2, <3>1, <3>2, <3>3 DEF SocketsNamed, Named
      <3>5. Doomed(c)
        BY <1>1, <1>2, <3>3, <3>4 DEF DoomInv, DoomedKey
      <3> QED
        BY <1>2, <3>1, <3>5, StaysDoomed
    <2> QED
      BY <2>1, <2>2
  <1>6. DoomInv'
    <2>1. \A a \in Acceptor : pc'[a] \in GivingUp => pc[a] \in GivingUp /\ accConn'[a] = accConn[a]
      BY <1>1, <1>2, <1>3 DEF GivingUp, Facts
    <2>2. \A u \in Thread : /\ ref'[u] \in {None, ref[u]} \/ Doomed(ref[u])'
                            /\ pc'[u] = "close" => pc[u] = "close" /\ key'[u] = key[u]
      BY <1>3, <1>4, <1>5
    <2>3. KeepsDoomed(None)
      BY <1>1, <2>1, <2>2 DEF KeepsDoomed, Monotone
    <2> QED
      BY <1>2, <2>3, DoomStep
  <1>7. FlowInv'
    <2>1. \A i \in Endpoint : Busy(i)' => Busy(i)
      BY <1>1, <1>2, OperationsFrame
    <2>2. \A p \in pending' : p \in pending /\ \E h \in Handle : owner'[h] = p.ep
      BY <1>1, <1>2 DEF FlowInv, GoodOperation
    <2>3. \A c : Ended(c)' => Ended(c)
      BY <1>1 DEF Ended
    <2>4. \A a \in Acceptor : /\ pc'[a] = "connect" => pc[a] = "connect" /\ accConn'[a] = accConn[a]
                              /\ pc'[a] \in {"recvClient", "recvServer"} => pc'[a] = pc[a]
      BY <1>1, <1>2, <1>3, <1>4 DEF Facts
    <2>5. \A a \in Acceptor : pc'[a] = "connect" => ~Ended(accConn[a])'
      BY <1>2, <2>3, <2>4 DEF FlowInv
    <2> QED
      BY <1>1, <2>1, <2>2, <2>3, <2>4, <2>5, FlowFrame
  <1>8. Maps
    BY <1>1, MapStutter
  <1> QED
    BY <1>6, <1>7, <1>8

LEMMA CloseClientForwards ==
    ASSUME Going, NEW t \in Thread, CloseClient(t)
    PROVE  DoomInv' /\ FlowInv' /\ Maps
  <1>1. /\ pc[t] = "closeClient"
        /\ UNCHANGED <<operation, buffer, received, delivered, ioSock, ioRemote, task, accepted,
                       fin, fault, mainPc, accConn, accClient, accServer, key>>
    BY DEF CloseClient
  <1>2. TypeOK /\ Facts /\ DoomInv /\ SocketsNamed /\ Lasting
    BY DEF Going, ForwardingInv
  <1>3. PICK c \in Conn : c = ref[t]
    BY <1>1, <1>2 DEF Facts
  <1>4. ~closing[c]
    BY <1>1, <1>2, <1>3 DEF Going, ForwardingInv, SocketInv, TeardownInv, TornDownOnce, Facts
  <1>5. /\ CloseSockets({clientSock[c]})
        /\ pc' = [pc EXCEPT ![t] = "closeServer"] /\ UNCHANGED ref
    BY <1>3, <1>4 DEF CloseClient
  <1>6. Doomed(c)'
    BY <1>2, <1>3, StaysDoomed DEF DoomInv, Facts
  <1>7. ClosesOf(c, {clientSock[c]}) /\ {clientSock[c]} \in SUBSET (Handle \cup {None})
    <2>1. \A g \in {clientSock[c]} : /\ g \in Handle \cup {None}
                                     /\ Named(g, <<c, "client">>) \/ Named(g, <<c, "server">>)
      BY <1>2 DEF SocketsNamed, Facts
    <2>2. {clientSock[c]} \in SUBSET (Handle \cup {None})
      BY <2>1
    <2> QED
      BY <1>2, <1>5, <2>1, <2>2, Closes
  <1>8. \A u \in Thread : pc'[u] = pc[u] \/ (u = t /\ pc'[u] = "closeServer")
    BY <1>2, <1>5 DEF Facts
  <1>9. \A a \in Acceptor : pc'[a] \in GivingUp => pc[a] \in GivingUp
    BY <1>1, <1>2, <1>8 DEF GivingUp, Facts
  <1>10. \A a \in Acceptor : pc'[a] \in {"connect", "recvClient", "recvServer"} => pc'[a] = pc[a]
    BY <1>2, <1>8 DEF Facts
  <1> QED
    BY <1>1, <1>5, <1>6, <1>7, <1>8, <1>9, <1>10, CloseForwards

LEMMA CloseServerForwards ==
    ASSUME Going, NEW t \in Thread, CloseServer(t)
    PROVE  DoomInv' /\ FlowInv' /\ Maps
  <1>1. /\ pc[t] = "closeServer"
        /\ UNCHANGED <<operation, buffer, received, delivered, ioSock, ioRemote, task, accepted,
                       fin, fault, mainPc, accConn, accClient, accServer, key>>
        /\ pc' = [pc EXCEPT ![t] = AfterClose(t)] /\ ref' = [ref EXCEPT ![t] = None]
    BY DEF CloseServer
  <1>2. TypeOK /\ Facts /\ DoomInv /\ SocketsNamed /\ Lasting
    BY DEF Going, ForwardingInv
  <1>3. PICK c \in Conn : c = ref[t]
    BY <1>1, <1>2 DEF Facts
  <1>4. CloseSockets({serverSock[c]})
    BY <1>3 DEF CloseServer
  <1>5. Doomed(c)'
    BY <1>2, <1>3, StaysDoomed DEF DoomInv, Facts
  <1>6. ClosesOf(c, {serverSock[c]}) /\ {serverSock[c]} \in SUBSET (Handle \cup {None})
    <2>1. \A g \in {serverSock[c]} : /\ g \in Handle \cup {None}
                                     /\ Named(g, <<c, "client">>) \/ Named(g, <<c, "server">>)
      BY <1>2 DEF SocketsNamed, Facts
    <2>2. {serverSock[c]} \in SUBSET (Handle \cup {None})
      BY <2>1
    <2> QED
      BY <1>2, <1>4, <2>1, <2>2, Closes
  <1>7. \A u \in Thread : /\ ref'[u] \in {None, ref[u]}
                          /\ pc'[u] = pc[u] \/ (u = t /\ pc'[u] \in {"cleanClient", "wait", "exit"})
    BY <1>1, <1>2 DEF Facts, AfterClose
  <1>8. \A a \in Acceptor : pc'[a] \in GivingUp => pc[a] \in GivingUp
    BY <1>1, <1>2, <1>7 DEF GivingUp, Facts
  <1>9. \A a \in Acceptor : pc'[a] \in {"connect", "recvClient", "recvServer"} => pc'[a] = pc[a]
    BY <1>2, <1>7 DEF Facts
  <1> QED
    BY <1>1, <1>4, <1>5, <1>6, <1>7, <1>8, <1>9, CloseForwards

\* HandleAccept closes the sockets of its iteration.
LEMMA CleanForwards ==
    ASSUME Going, NEW a \in Acceptor, CleanClient(a) \/ CleanServer(a) \/ ConnectFailed(a)
    PROVE  DoomInv' /\ FlowInv' /\ Maps
  <1>1. /\ pc[a] \in {"cleanClient", "cleanServer", "connect"}
        /\ UNCHANGED <<operation, buffer, received, delivered, ioSock, ioRemote, task, accepted,
                       fin, mainPc, key, ref>>
    BY DEF CleanClient, CleanServer, ConnectFailed
  <1>2. TypeOK /\ Facts /\ DoomInv /\ SocketsNamed /\ Lasting
    BY DEF Going, ForwardingInv
  <1>3. PICK c \in Conn : c = accConn[a]
    BY <1>1, <1>2 DEF Facts
  <1>4. c \in accepted /\ \A b \in Acceptor : accConn[b] = c => b = a
    BY <1>2, <1>3 DEF Going, ForwardingInv, SocketInv, TeardownInv, AcceptedOnce, Facts
  <1>5. PICK S \in {{accClient[a]}, {accServer[a]}} : CloseSockets(S)
    BY DEF CleanClient, CleanServer, ConnectFailed
  <1>6. ClosesOf(c, S) /\ S \in SUBSET (Handle \cup {None})
    <2>1. \A h \in S : Named(h, <<c, "client">>) \/ Named(h, <<c, "server">>)
      BY <1>2, <1>3, <1>5 DEF SocketsNamed
    <2> QED
      BY <1>2, <1>5, <2>1, Closes DEF Facts
  <1>7. fault' = fault \/ (pc[a] = "connect" /\ fault' = fault \cup {c})
    BY <1>3 DEF CleanClient, CleanServer, ConnectFailed
  <1>8. Doomed(c)'
    <2>1. CASE pc[a] = "connect"
      BY <1>3, <2>1 DEF CleanClient, CleanServer, ConnectFailed, Doomed, Ended
    <2>2. CASE pc[a] # "connect"
      BY <1>1, <1>2, <1>3, <2>2, StaysDoomed DEF DoomInv, GivingUp
    <2> QED
      BY <2>1, <2>2
  <1>9. /\ \A u \in Thread : u # a => pc'[u] = pc[u]
        /\ pc'[a] \in {"accept", "cleanServer"} /\ (pc'[a] = "cleanServer" => pc[a] = "cleanClient")
        /\ \A b \in Acceptor : b # a => /\ accConn'[b] = accConn[b] /\ accClient'[b] = accClient[b]
                                        /\ accServer'[b] = accServer[b]
        /\ \/ accConn'[a] = accConn[a] /\ accClient'[a] = accClient[a] /\ accServer'[a] = accServer[a]
           \/ pc'[a] = "accept" /\ accClient'[a] = None /\ accServer'[a] = None
    BY <1>2 DEF CleanClient, CleanServer, ConnectFailed, EndIteration, Facts
  <1>10. ASSUME NEW b \in Acceptor
         PROVE  /\ pc'[b] \in GivingUp => pc[b] \in GivingUp /\ accConn'[b] = accConn[b]
                /\ pc'[b] = "connect" =>
                      pc[b] = "connect" /\ accConn'[b] = accConn[b] /\ (fault' = fault \/ accConn[b] # c)
                /\ pc'[b] \in {"recvClient", "recvServer"} =>
                      pc[b] \in {"recvClient", "recvServer"} /\ accConn'[b] = accConn[b]
                /\ accClient'[b] = None \/ (accClient'[b] = accClient[b] /\ accConn'[b] = accConn[b])
                /\ accServer'[b] = None \/ (accServer'[b] = accServer[b] /\ accConn'[b] = accConn[b])
    <2>1. CASE b = a
      BY <1>9, <2>1 DEF GivingUp
    <2>2. CASE b # a
      BY <1>2, <1>4, <1>9, <2>2 DEF Facts
    <2> QED
      BY <2>1, <2>2
  <1>11. \A u \in Thread : pc'[u] = "close" => pc[u] = "close" /\ key'[u] = key[u]
    BY <1>1, <1>9
  <1> QED
    BY <1>1, <1>4, <1>5, <1>6, <1>7, <1>8, <1>10, <1>11, CloseForwards

LEMMA CloseEntryForwards ==
    ASSUME Going, CloseEntry
    PROVE  DoomInv' /\ FlowInv' /\ Maps
  <1>1. PICK h \in Handle, s \in Side : <<h, s>> \in todo /\ CloseSockets({SockOf(connections[h], s)})
    BY DEF CloseEntry
  <1>2. /\ UNCHANGED <<operation, buffer, received, delivered, ioSock, ioRemote, task, accepted, pc,
                       fin, fault, mainPc, key, ref, accConn, accClient, accServer>>
        /\ mainPc = "closing"
    BY DEF CloseEntry
  <1>3. TypeOK /\ Facts /\ SocketsNamed
    BY DEF Going
  <1>4. PICK c \in Conn : c = connections[h]
    BY <1>1, <1>3 DEF TypeOK, MainOK, Facts
  <1>5. /\ ClosesOf(c, {SockOf(c, s)})
        /\ {SockOf(c, s)} \in SUBSET (Handle \cup {None})
    <2>1. \A g \in {SockOf(c, s)} : /\ g \in Handle \cup {None}
                                    /\ Named(g, <<c, "client">>) \/ Named(g, <<c, "server">>)
      BY <1>3 DEF SocketsNamed, Facts, SockOf
    <2>2. {SockOf(c, s)} \in SUBSET (Handle \cup {None})
      <3>1. SockOf(c, s) \in Handle \cup {None}
        BY <1>3 DEF SockOf, Facts
      <3> QED
        BY <3>1
    <2> QED
      BY <1>1, <1>3, <1>4, <2>1, <2>2, Closes
  <1>6. Doomed(c)'
    BY <1>2 DEF Doomed
  <1> QED
    BY <1>1, <1>2, <1>4, <1>5, <1>6, CloseForwards

-----------------------------------------------------------------------------
(***************************************************************************)
(* Operations.                                                             *)
(***************************************************************************)
\* WSARecv or WSASend for IOContext i on a socket of its connection.
LEMMA Posted ==
    ASSUME Going, NEW i \in Endpoint, NEW kind, NEW h \in Handle, NEW e \in {i, Peer(i)}, Named(h, e),
           h \in spent => Doomed(i[1]), UNCHANGED <<owner, fin, mainPc>>,
           Submit(i, kind, h) \/ Refuse(h)
    PROVE  /\ \/ /\ pending' = pending \cup {[io |-> i, kind |-> kind, ep |-> e]}
                 /\ owner[h] = e
              \/ pending' = pending
           /\ fault' = fault \/ fault' = fault \cup {i[1]}
           /\ Refuse(h) => Doomed(i[1])'
  <1>1. Facts /\ SocketsNamed /\ Lasting /\ e[1] = i[1] /\ h # None
    BY PeerIs DEF Going, Facts
  <1>2. IsOpen(h) => owner[h] = e
    BY <1>1 DEF IsOpen, Named, SocketsNamed
  <1>3. Refuse(h) => Doomed(i[1])'
    <2>1. CASE IsOpen(h)
      BY <1>1, <1>2, <2>1 DEF Refuse, Doomed, Ended
    <2>2. CASE ~IsOpen(h)
      BY <1>1, <2>2, StaysDoomed DEF IsOpen, Named
    <2> QED
      BY <2>1, <2>2
  <1> QED
    BY <1>1, <1>2, <1>3 DEF Submit, Refuse

\* The connection fails, or nothing happens to it that its peers see.
LEMMA MapFault ==
    ASSUME TypeOK, TypeOK', NEW c \in Conn, fault' = fault \/ fault' = fault \cup {c},
           UNCHANGED <<owner, fin, received, delivered, mainPc>>
    PROVE  Maps
  <1>1. \A d \in Conn : Ended(d)' => Ended(d) \/ d = c
    BY DEF Ended
  <1> QED
    BY <1>1, MapFinish

\* The next operation of IOContext i, and what follows if it is refused.
Posts(i, kind, h) ==
    /\ i[1] \in accepted
    /\ \/ kind = "READ" /\ Named(h, i) /\ Empty(i)
       \/ kind = "WRITE" /\ Named(h, Peer(i)) /\ Full(i) /\ buffer'[i] = buffer[i]
    /\ h \in spent => Doomed(i[1])
    /\ ioSock[i] # None /\ ioRemote[i] # None
    /\ Submit(i, kind, h) \/ Refuse(h)
    /\ \A p \in pending \cup port : p.io # i
    /\ \A w \in Worker : task'[w] = None \/ (task'[w] = task[w] /\ task[w].io # i)
    /\ operation' = [operation EXCEPT ![i] = kind]
    /\ \A j \in Endpoint \ {i} : buffer'[j] = buffer[j]
    /\ UNCHANGED <<ioSock, ioRemote, owner, spent, port, received, delivered, fin, mainPc, accepted, ref>>
    /\ \A t \in Thread : pc'[t] = "close" =>
          \/ pc[t] = "close" /\ key'[t] = key[t]
          \/ Refuse(h) /\ \E f \in Endpoint : f[1] = i[1] /\ Named(key'[t], f)
    /\ \A a \in Acceptor :
          /\ pc'[a] \in GivingUp =>
                (pc[a] \in GivingUp /\ accConn'[a] = accConn[a]) \/ (Refuse(h) /\ accConn'[a] = i[1])
          /\ pc'[a] = "connect" =>
                pc[a] = "connect" /\ accConn'[a] = accConn[a] /\ accConn[a] # i[1]
          /\ pc'[a] \in {"recvClient", "recvServer"} =>
                pc[a] \in {"recvClient", "recvServer"} /\ accConn'[a] = accConn[a]
          /\ accClient'[a] = None \/ (accClient'[a] = accClient[a] /\ accConn'[a] = accConn[a])
          /\ accServer'[a] = None \/ (accServer'[a] = accServer[a] /\ accConn'[a] = accConn[a])

LEMMA PostForwards ==
    ASSUME Going, NEW i \in Endpoint, NEW kind, NEW h \in Handle, Posts(i, kind, h)
    PROVE  DoomInv' /\ FlowInv' /\ Maps
  <1> USE DEF Posts
  <1>1. /\ TypeOK /\ TypeOK' /\ Facts /\ Lasting /\ DoomInv /\ FlowInv /\ SocketsNamed /\ Settled
        /\ None \notin spent' /\ i[1] \in Conn /\ Exclusive
    BY PeerIs DEF Going, ForwardingInv, OperationInv
  <1>2. PICK e \in {i, Peer(i)} :
            Named(h, e) /\ (kind = "READ" => e = i) /\ (kind = "WRITE" => e = Peer(i))
    OBVIOUS
  <1>3. /\ \/ /\ pending' = pending \cup {[io |-> i, kind |-> kind, ep |-> e]}
              /\ owner[h] = e
           \/ pending' = pending
        /\ fault' = fault \/ fault' = fault \cup {i[1]}
        /\ Refuse(h) => Doomed(i[1])'
    <2>1. /\ Submit(i, kind, h) \/ Refuse(h)
          /\ UNCHANGED <<owner, fin, mainPc>>
          /\ h \in spent => Doomed(i[1])
      OBVIOUS
    <2> HIDE DEF Posts
    <2> QED
      BY <1>2, <2>1, Posted
  <1>4. \A d : Ended(d)' => Ended(d) \/ d = i[1]
    BY <1>3 DEF Ended
  <1>5. DoomInv'
    <2>1. \A t \in Thread : /\ ref'[t] \in {None, ref[t]}
                            /\ pc'[t] = "close" =>
                                  (pc[t] = "close" /\ key'[t] = key[t]) \/ DoomedKey(key[t])'
      BY <1>3 DEF DoomedKey, Named
    <2>2. \A a \in Acceptor :
          /\ pc'[a] \in GivingUp =>
                (pc[a] \in GivingUp /\ accConn'[a] = accConn[a]) \/ Doomed(accConn[a])'
          /\ accClient'[a] \notin spent' \/ (accClient'[a] = accClient[a] /\ accConn'[a] = accConn[a])
          /\ accServer'[a] \notin spent' \/ (accServer'[a] = accServer[a] /\ accConn'[a] = accConn[a])
      BY <1>1, <1>3
    <2>3. KeepsDoomed(None)
      BY <2>1, <2>2 DEF KeepsDoomed, Monotone
    <2> QED
      BY <1>1, <2>3, DoomStep
  <1>6. FlowInv'
    <2>1. ASSUME NEW p \in pending'
          PROVE  \/ GoodOperation(p)'
                 \/ p \in pending /\ p.io \notin {i} /\ \E g \in Handle : owner'[g] = p.ep
      <3>1. CASE p \in pending
        BY <1>1, <3>1 DEF FlowInv, GoodOperation
      <3>2. CASE p \notin pending
        <4>1. p.io = i /\ p.kind = kind /\ p.ep = e /\ owner'[h] = e
          BY <1>3, <3>2
        <4>2. operation'[i] = kind
          BY <1>1 DEF TypeOK, HeapOK
        <4>3. /\ kind = "READ" => Empty(i)'
              /\ kind = "WRITE" => Full(i)'
          BY DEF Empty, Full
        <4> QED
          BY <1>2, <4>1, <4>2, <4>3 DEF GoodOperation
      <3> QED
        BY <3>1, <3>2
    <2>2. \A j \in Endpoint \ {i} : operation'[j] = operation[j]
      BY <1>1 DEF TypeOK, HeapOK
    <2>3. \A j \in Endpoint : Busy(j)' => Busy(j) \/ j = i
      BY <1>3 DEF Busy
    <2>4. \A a \in Acceptor : pc'[a] = "connect" => ~Ended(accConn[a])'
      BY <1>1, <1>4 DEF FlowInv
    <2>5. \A c \in Conn : c \notin accepted' => c \notin accepted /\ (Ended(c)' => Ended(c))
      BY <1>4
    <2>6. KeepsFlow({i})
      <3>1. \A x \in port' : GoodPacket(x)' \/ (x \in port /\ x.io \notin {i})
        OBVIOUS
      <3>2. \A w \in Worker : \/ task'[w] = None \/ GoodPacket(task[w])'
                              \/ task'[w] \in port \cup {task[w]} /\ task'[w].io \notin {i}
        OBVIOUS
      <3>3. \A j \in Endpoint : Busy(j)' => Busy(j) \/ (ioSock[j] # None /\ ioRemote[j] # None)
        BY <2>3
      <3>4. \A j \in Endpoint \ {i} :
                /\ operation'[j] = operation[j] /\ buffer'[j] = buffer[j]
                /\ received'[j] = received[j] /\ delivered'[Peer(j)] = delivered[Peer(j)]
        BY <2>2
      <3>5. \A j \in Endpoint :
                /\ received'[j] = received[j] /\ delivered'[Peer(j)] = delivered[Peer(j)]
                /\ ioSock'[j] = ioSock[j] /\ ioRemote'[j] = ioRemote[j]
        OBVIOUS
      <3>6. \A a \in Acceptor : pc'[a] \in {"recvClient", "recvServer"} =>
                pc[a] \in {"recvClient", "recvServer"} /\ accConn'[a] = accConn[a]
        OBVIOUS
      <3>7. \A p \in pending' : \/ GoodOperation(p)'
                                \/ p \in pending /\ p.io \notin {i} /\ \E g \in Handle : owner'[g] = p.ep
        BY <2>1
      <3> HIDE DEF Posts
      <3> QED
        BY <2>4, <2>5, <3>1, <3>2, <3>3, <3>4, <3>5, <3>6, <3>7 DEF KeepsFlow
    <2>7. \A a \in Acceptor : pc[a] \in {"recvClient", "recvServer"} => accConn[a] \in Conn
      BY <1>1 DEF Facts
    <2> QED
      BY <1>1, <2>6, <2>7, FlowStep
  <1>7. Maps
    BY <1>1, <1>3, MapFault
  <1> QED
    BY <1>5, <1>6, <1>7

\* The first WSARecv of either direction.
LEMMA RecvForwards ==
    ASSUME Going, NEW a \in Acceptor, RecvClient(a) \/ RecvServer(a)
    PROVE  DoomInv' /\ FlowInv' /\ Maps
  <1>1. /\ TypeOK /\ TypeOK' /\ Facts /\ Lasting /\ DoomInv /\ FlowInv /\ SocketsNamed /\ StartsIdle
    BY DEF Going, ForwardingInv, OperationInv
  <1>2. pc[a] \in {"recvClient", "recvServer"}
    BY DEF RecvClient, RecvServer
  <1>3. /\ accConn[a] \in Conn /\ accConn[a] \in accepted
        /\ \A b \in Acceptor : accConn[b] = accConn[a] => b = a
    BY <1>1, <1>2 DEF Facts, Going, ForwardingInv, SocketInv, TeardownInv, AcceptedOnce
  <1>4. PICK i \in Endpoint, h \in Handle :
            /\ i[1] = accConn[a] /\ Named(h, i) /\ (h \in spent => Doomed(i[1]))
            /\ i = <<accConn[a], IF pc[a] = "recvClient" THEN "client" ELSE "server">>
            /\ h = IF pc[a] = "recvClient" THEN accClient[a] ELSE accServer[a]
    <2>1. <<accConn[a], "client">> \in Endpoint /\ <<accConn[a], "server">> \in Endpoint
      BY <1>3 DEF Endpoint, Side
    <2>2. /\ accClient[a] \in Handle /\ Named(accClient[a], <<accConn[a], "client">>)
          /\ accServer[a] \in Handle /\ Named(accServer[a], <<accConn[a], "server">>)
          /\ accClient[a] \in spent \/ accServer[a] \in spent => Doomed(accConn[a])
      BY <1>1, <1>2 DEF Facts, SocketsNamed, DoomInv
    <2> QED
      BY <1>2, <2>1, <2>2
  <1>5. /\ operation' = [operation EXCEPT ![i] = "READ"]
        /\ Submit(i, "READ", h) \/ Refuse(h)
        /\ UNCHANGED <<ioSock, ioRemote, owner, spent, port, received, delivered, fin, mainPc,
                       accepted, ref, task, buffer>>
    BY <1>4 DEF RecvClient, RecvServer, FirstRecv, FirstRecvRefused
  <1>6. \/ /\ Refuse(h) /\ pc' = [pc EXCEPT ![a] = "close"]
           /\ key' = [key EXCEPT ![a] = accClient[a]]
           /\ UNCHANGED accVars
        \/ /\ pc[a] = "recvClient" /\ pc' = [pc EXCEPT ![a] = "recvServer"]
           /\ UNCHANGED <<key, accVars>>
        \/ /\ pc' = [pc EXCEPT ![a] = "accept"] /\ UNCHANGED key /\ EndIteration(a)
    BY <1>4 DEF RecvClient, RecvServer, FirstRecv, FirstRecvRefused
  <1>7. NotStarted(i) /\ ~Busy(i)
    <2>1. NotStarted(i)
      BY <1>2, <1>4 DEF NotStarted
    <2> QED
      BY <1>1, <2>1 DEF StartsIdle
  <1>8. Empty(i)
    <2>1. received[i] = 0 /\ delivered[Peer(i)] = <<>>
      BY <1>1, <1>7 DEF FlowInv
    <2> QED
      BY <2>1 DEF Empty
  <1>9. ioSock[i] # None /\ ioRemote[i] # None
    BY <1>1, <1>2, <1>4 DEF FlowInv, Side
  <1>10. /\ \A p \in pending \cup port : p.io # i
         /\ \A w \in Worker : task'[w] = None \/ (task'[w] = task[w] /\ task[w].io # i)
    BY <1>5, <1>7 DEF Busy
  <1>11. /\ \A u \in Thread : u # a => pc'[u] = pc[u] /\ key'[u] = key[u]
         /\ \A b \in Acceptor : b # a => /\ accConn'[b] = accConn[b] /\ accClient'[b] = accClient[b]
                                         /\ accServer'[b] = accServer[b]
         /\ \/ /\ Refuse(h) /\ pc'[a] = "close" /\ key'[a] = accClient[a] /\ accConn'[a] = accConn[a]
               /\ accClient'[a] = accClient[a] /\ accServer'[a] = accServer[a]
            \/ /\ pc'[a] = "recvServer" /\ accConn'[a] = accConn[a]
               /\ accClient'[a] = accClient[a] /\ accServer'[a] = accServer[a]
            \/ pc'[a] = "accept" /\ accClient'[a] = None /\ accServer'[a] = None
    BY <1>1, <1>6 DEF Facts, EndIteration
  <1>12. ASSUME NEW t \in Thread, pc'[t] = "close"
         PROVE  \/ pc[t] = "close" /\ key'[t] = key[t]
                \/ Refuse(h) /\ \E f \in Endpoint : f[1] = i[1] /\ Named(key'[t], f)
    <2>1. CASE t = a
      <3>1. Refuse(h) /\ key'[t] = accClient[a]
        BY <1>11, <1>12, <2>1
      <3>2. <<accConn[a], "client">> \in Endpoint /\ Named(accClient[a], <<accConn[a], "client">>)
        BY <1>1, <1>3 DEF Endpoint, Side, SocketsNamed
      <3> QED
        BY <1>4, <3>1, <3>2
    <2>2. CASE t # a
      BY <1>11, <1>12, <2>2
    <2> QED
      BY <2>1, <2>2
  <1>13. ASSUME NEW b \in Acceptor
         PROVE  /\ pc'[b] \in GivingUp =>
                      \/ pc[b] \in GivingUp /\ accConn'[b] = accConn[b]
                      \/ Refuse(h) /\ accConn'[b] = i[1]
                /\ pc'[b] = "connect" =>
                      pc[b] = "connect" /\ accConn'[b] = accConn[b] /\ accConn[b] # i[1]
                /\ pc'[b] \in {"recvClient", "recvServer"} =>
                      pc[b] \in {"recvClient", "recvServer"} /\ accConn'[b] = accConn[b]
                /\ accClient'[b] = None \/ (accClient'[b] = accClient[b] /\ accConn'[b] = accConn[b])
                /\ accServer'[b] = None \/ (accServer'[b] = accServer[b] /\ accConn'[b] = accConn[b])
    <2>1. CASE b = a
      BY <1>2, <1>4, <1>11, <2>1 DEF GivingUp
    <2>2. CASE b # a
      BY <1>1, <1>3, <1>4, <1>11, <2>2 DEF Facts
    <2> QED
      BY <2>1, <2>2
  <1>14. Posts(i, "READ", h)
    BY <1>3, <1>4, <1>5, <1>8, <1>9, <1>10, <1>12, <1>13 DEF Posts
  <1> QED
    BY <1>14, PostForwards

\* PostSend and PostRecv, for an IOContext whose operation completed.
LEMMA HandleForwards ==
    ASSUME Going, ~Recycle, NEW w \in Worker, HandleRead(w) \/ HandleWrite(w)
    PROVE  DoomInv' /\ FlowInv' /\ Maps
  <1>1. /\ TypeOK /\ TypeOK' /\ Facts /\ Lasting /\ DoomInv /\ FlowInv /\ SocketsNamed /\ StartsIdle
        /\ Exclusive
    BY DEF Going, ForwardingInv, OperationInv
  <1>2. /\ pc[w] = "handle" /\ task[w] \in Packet /\ task[w] # None /\ task[w].status = "data"
    BY <1>1 DEF HandleRead, HandleWrite, TypeOK, ThreadOK
  <1>3. PICK i \in Endpoint : i = task[w].io
    BY <1>2 DEF Packet
  <1>4. AtAddress(task[w].io) = {i}
    BY <1>3 DEF AtAddress
  <1>5. Busy(i) /\ Completed(i)
    BY <1>1, <1>2, <1>3 DEF Busy, FlowInv, GoodPacket
  <1>6. /\ ioSock[i] \in Handle /\ ioRemote[i] \in Handle /\ ioSock[i] # None /\ ioRemote[i] # None
        /\ Named(ioSock[i], i) /\ Named(ioRemote[i], Peer(i))
        /\ ioSock[i] \in spent \/ ioRemote[i] \in spent => Doomed(i[1])
    BY <1>1, <1>5 DEF FlowInv, DoomInv, TypeOK, HeapOK
  <1>7. PICK kind \in {"READ", "WRITE"}, h \in Handle :
            /\ Post(w, i, kind, h)
            /\ \/ kind = "READ" /\ Named(h, i) /\ Empty(i)
               \/ kind = "WRITE" /\ Named(h, Peer(i)) /\ Full(i) /\ buffer'[i] = buffer[i]
            /\ h \in spent => Doomed(i[1])
            /\ \A j \in Endpoint \ {i} : buffer'[j] = buffer[j]
    <2>1. CASE HandleRead(w)
      <3>1. operation[i] = "READ" /\ Post(w, i, "WRITE", ioRemote[i]) /\ UNCHANGED buffer
        BY <1>4, <2>1 DEF HandleRead
      <3> QED
        BY <1>5, <1>6, <3>1 DEF Completed
    <2>2. CASE HandleWrite(w)
      <3>1. /\ operation[i] = "WRITE" /\ Post(w, i, "READ", ioSock[i])
            /\ buffer' = [buffer EXCEPT ![i] = None]
        BY <1>4, <2>2 DEF HandleWrite
      <3>2. \A j \in Endpoint \ {i} : buffer'[j] = buffer[j]
        BY <1>1, <3>1 DEF TypeOK, HeapOK
      <3> QED
        BY <1>5, <1>6, <3>1, <3>2 DEF Completed
    <2> QED
      BY <2>1, <2>2
  <1>8. /\ operation' = [operation EXCEPT ![i] = kind]
        /\ Submit(i, kind, h) \/ Refuse(h)
        /\ UNCHANGED <<ioSock, ioRemote, owner, spent, port, received, delivered, fin, mainPc,
                       accepted, ref, accConn, accClient, accServer>>
        /\ task' = [task EXCEPT ![w] = None]
        /\ \/ UNCHANGED key /\ \E l \in {"wait", "exit"} : pc' = [pc EXCEPT ![w] = l]
           \/ Refuse(h) /\ key' = [key EXCEPT ![w] = ioSock[i]] /\ pc' = [pc EXCEPT ![w] = "close"]
    BY <1>7 DEF Post
  <1>9. /\ \A p \in pending \cup port : p.io # i
        /\ \A v \in Worker : task'[v] = None \/ (task'[v] = task[v] /\ task[v].io # i)
    <2>1. \A p \in pending \cup port : p.io # i
      BY <1>1, <1>2, <1>3 DEF Exclusive
    <2>2. \A v \in Worker : v # w /\ task[v] # None => task[v].io # i
      BY <1>1, <1>2, <1>3 DEF Exclusive
    <2>3. task \in [Worker -> Packet \cup {None}]
      BY <1>1 DEF TypeOK, ThreadOK
    <2> QED
      BY <1>8, <2>1, <2>2, <2>3
  <1>10. \A t \in Thread : pc'[t] = "close" =>
              \/ pc[t] = "close" /\ key'[t] = key[t]
              \/ Refuse(h) /\ \E f \in Endpoint : f[1] = i[1] /\ Named(key'[t], f)
    BY <1>1, <1>6, <1>8 DEF Facts
  <1>11. ~NotStarted(i)
    BY <1>1, <1>5 DEF StartsIdle
  <1>12. i[1] \in accepted /\ \A a \in Acceptor : pc[a] = "connect" => accConn[a] # i[1]
    BY <1>11 DEF NotStarted, PreInsert
  <1>13. \A a \in Acceptor : /\ pc'[a] = pc[a] /\ accConn'[a] = accConn[a]
                             /\ accClient'[a] = accClient[a] /\ accServer'[a] = accServer[a]
    BY <1>1, <1>8 DEF Facts
  <1>14. ioSock[i] # None /\ ioRemote[i] # None
    BY <1>6
  <1>15. Posts(i, kind, h)
    BY <1>7, <1>8, <1>14, <1>9, <1>10, <1>12, <1>13 DEF Posts
  <1> QED
    BY <1>15, PostForwards

-----------------------------------------------------------------------------
(***************************************************************************)
(* Accept threads.                                                         *)
(***************************************************************************)
\* A socket is opened for endpoint e by accept thread a.
LEMMA OpenForwards ==
    ASSUME Going, NEW a \in Acceptor, NEW h \in Handle, NEW e \in Endpoint,
           owner[h] = None, h \notin spent, owner' = [owner EXCEPT ![h] = e],
           \A g \in Handle : owner[g] # e, ~Ended(e[1]), NotStarted(e),
           UNCHANGED <<ioSock, ioRemote, operation, buffer, key, ref, task, mainPc, spent, pending,
                       port, received, delivered, fin, fault>>,
           accepted \subseteq accepted',
           \A t \in Thread : t # a => pc'[t] = pc[t],
           pc'[a] \in {"connect", "associate"},
           \A b \in Acceptor : b # a => /\ accConn'[b] = accConn[b] /\ accClient'[b] = accClient[b]
                                        /\ accServer'[b] = accServer[b],
           accConn'[a] = e[1],
           accClient'[a] \notin spent /\ accServer'[a] \notin spent
    PROVE  DoomInv' /\ FlowInv' /\ Maps
  <1>1. TypeOK /\ TypeOK' /\ Facts /\ DoomInv /\ FlowInv /\ SocketsNamed /\ Lasting /\ Exclusive
    BY DEF Going, ForwardingInv, OperationInv
  <1>2. owner'[h] = e /\ \A g \in Handle : g # h => owner'[g] = owner[g]
    BY <1>1 DEF Facts
  <1>3. \A c : Ended(c)' <=> Ended(c)
    BY DEF Ended
  <1>4. DoomInv'
    <2>1. \A b \in Acceptor :
          /\ pc'[b] \in GivingUp => pc[b] \in GivingUp /\ accConn'[b] = accConn[b]
          /\ accClient'[b] \notin spent' \/ (accClient'[b] = accClient[b] /\ accConn'[b] = accConn[b])
          /\ accServer'[b] \notin spent' \/ (accServer'[b] = accServer[b] /\ accConn'[b] = accConn[b])
      BY <1>1 DEF GivingUp, Facts
    <2>2. \A t \in Thread : pc'[t] = "close" => pc[t] = "close" /\ key'[t] = key[t]
      OBVIOUS
    <2>3. Monotone
      BY <1>2 DEF Monotone
    <2>4. KeepsDoomed(None)
      BY <2>1, <2>2, <2>3 DEF KeepsDoomed
    <2> QED
      BY <1>1, <2>4, DoomStep
  <1>5. FlowInv'
    <2>1. \A i \in Endpoint : Busy(i)' => Busy(i)
      BY <1>1, OperationsFrame
    <2>2. \A p \in pending' : p \in pending /\ \E g \in Handle : owner'[g] = p.ep
      <3> SUFFICES ASSUME NEW p \in pending PROVE \E g \in Handle : owner'[g] = p.ep
        OBVIOUS
      <3>1. PICK g \in Handle : owner[g] = p.ep
        BY <1>1 DEF FlowInv, GoodOperation
      <3>2. p.ep # None
        BY <1>1 DEF TypeOK, WinsockOK, Overlapped, Facts
      <3> QED
        BY <1>2, <3>1, <3>2
    <2>3. \A b \in Acceptor : pc'[b] = "connect" => ~Ended(accConn[b])'
      BY <1>1, <1>3 DEF FlowInv, Facts
    <2>4. \A b \in Acceptor : pc'[b] \in {"recvClient", "recvServer"} =>
              pc[b] \in {"recvClient", "recvServer"} /\ accConn'[b] = accConn[b]
      BY <1>1 DEF Facts
    <2>5. \A c \in Conn : c \notin accepted' => c \notin accepted /\ (Ended(c)' => Ended(c))
      BY <1>3
    <2> QED
      BY <2>1, <2>2, <2>3, <2>4, <2>5, FlowFrame
  <1>6. Maps
    <2>1. received[e] = 0
      BY <1>1 DEF FlowInv
    <2> QED
      BY <1>1, <2>1, MapOpen
  <1> QED
    BY <1>4, <1>5, <1>6

LEMMA AcceptForwards ==
    ASSUME Going, ~Recycle, NEW a \in Acceptor, Accept(a)
    PROVE  DoomInv' /\ FlowInv' /\ Maps
  <1>1. TypeOK /\ TypeOK' /\ Facts /\ FlowInv /\ SocketsNamed /\ InHand(a)
    BY DEF Going, ForwardingInv, SocketInv
  <1>2. PICK c \in Conn \ accepted, h \in Handle :
            /\ owner[h] = None /\ h \notin spent
            /\ owner' = [owner EXCEPT ![h] = <<c, "client">>]
            /\ accepted' = accepted \cup {c}
            /\ accConn' = [accConn EXCEPT ![a] = c]
            /\ accClient' = [accClient EXCEPT ![a] = h]
    BY DEF Accept, Allocatable
  <1>3. /\ pc[a] = "accept" /\ pc' = [pc EXCEPT ![a] = "connect"]
        /\ UNCHANGED <<ioSock, ioRemote, operation, buffer, key, ref, task, mainPc, spent, pending,
                       port, received, delivered, fin, fault, accServer>>
    BY DEF Accept
  <1>4. PICK e \in Endpoint : e = <<c, "client">>
    BY <1>2 DEF Endpoint, Side
  <1>5. /\ \A t \in Thread : t # a => pc'[t] = pc[t]
        /\ pc'[a] = "connect" /\ accConn'[a] = c /\ accClient'[a] = h /\ accServer'[a] = None
        /\ \A b \in Acceptor : b # a => /\ accConn'[b] = accConn[b] /\ accClient'[b] = accClient[b]
                                        /\ accServer'[b] = accServer[b]
    BY <1>1, <1>2, <1>3 DEF Facts, InHand
  <1>6. \A g \in Handle : owner[g] # e
    BY <1>1, <1>2, <1>4 DEF SocketsNamed, Facts
  <1>7. ~Ended(e[1]) /\ NotStarted(e)
    BY <1>1, <1>2, <1>4 DEF FlowInv, NotStarted
  <1>8. accClient'[a] \notin spent /\ accServer'[a] \notin spent
    BY <1>1, <1>2, <1>5 DEF Facts
  <1>9. e[1] = c /\ owner' = [owner EXCEPT ![h] = e] /\ accepted \subseteq accepted'
    BY <1>2, <1>4
  <1> QED
    BY <1>2, <1>3, <1>5, <1>6, <1>7, <1>8, <1>9, OpenForwards

LEMMA ConnectedForwards ==
    ASSUME Going, ~Recycle, NEW a \in Acceptor, Connected(a)
    PROVE  DoomInv' /\ FlowInv' /\ Maps
  <1>1. TypeOK /\ TypeOK' /\ Facts /\ FlowInv /\ SocketsNamed /\ InHand(a)
    BY DEF Going, ForwardingInv, SocketInv
  <1>2. PICK h \in Handle :
            /\ owner[h] = None /\ h \notin spent
            /\ owner' = [owner EXCEPT ![h] = <<accConn[a], "server">>]
            /\ accServer' = [accServer EXCEPT ![a] = h]
    BY DEF Connected, Allocatable
  <1>3. /\ pc[a] = "connect" /\ pc' = [pc EXCEPT ![a] = "associate"]
        /\ UNCHANGED <<ioSock, ioRemote, operation, buffer, key, ref, task, mainPc, spent, pending,
                       port, received, delivered, fin, fault, accConn, accClient, accepted>>
    BY DEF Connected
  <1>4. PICK c \in Conn : c = accConn[a]
    BY <1>1, <1>3 DEF Facts
  <1>5. PICK e \in Endpoint : e = <<c, "server">>
    BY DEF Endpoint, Side
  <1>6. /\ \A t \in Thread : t # a => pc'[t] = pc[t]
        /\ pc'[a] = "associate" /\ accServer'[a] = h
        /\ \A b \in Acceptor : b # a => /\ accConn'[b] = accConn[b] /\ accClient'[b] = accClient[b]
                                        /\ accServer'[b] = accServer[b]
    BY <1>1, <1>2, <1>3 DEF Facts
  <1>7. ASSUME NEW g \in Handle, owner[g] = e PROVE FALSE
    <2>1. owner[g] # None /\ owner[g][1] = c /\ Held(g, c)
      <3>1. owner[g] # None /\ owner[g][1] = c
        BY <1>1, <1>5, <1>7 DEF Facts
      <3> QED
        BY <3>1 DEF Going, ForwardingInv, SocketInv
    <2>2. Untouched(c) /\ \A b \in Acceptor : accConn[b] = c => b = a
      BY <1>1, <1>3, <1>4 DEF Going, ForwardingInv, SocketInv, TeardownInv, AcceptedOnce, Facts
    <2>3. g \in {accClient[a], accServer[a]}
      BY <2>1, <2>2 DEF Held, Untouched
    <2>4. accServer[a] = None /\ Named(accClient[a], <<c, "client">>)
      BY <1>1, <1>3, <1>4 DEF InHand, SocketsNamed
    <2>5. g # None /\ g \notin spent
      BY <1>1, <2>1 DEF SocketsNamed, Facts
    <2> QED
      BY <1>5, <1>7, <2>3, <2>4, <2>5 DEF Named
  <1>8. ~Ended(e[1]) /\ NotStarted(e)
    BY <1>1, <1>3, <1>4, <1>5 DEF FlowInv, NotStarted, PreInsert
  <1>9. accClient'[a] \notin spent /\ accServer'[a] \notin spent
    BY <1>1, <1>2, <1>3, <1>6 DEF InHand, PreInsert
  <1>10. accConn'[a] = e[1] /\ owner' = [owner EXCEPT ![h] = e] /\ accepted \subseteq accepted'
    BY <1>2, <1>3, <1>4, <1>5
  <1> QED
    BY <1>2, <1>3, <1>6, <1>7, <1>8, <1>9, <1>10, OpenForwards

\* The other steps of an accept thread that close nothing.
LEMMA RegisterForwards ==
    ASSUME Going, NEW a \in Acceptor, Associate(a) \/ Insert(a) \/ AcceptorExit(a)
    PROVE  DoomInv' /\ FlowInv' /\ Maps
  <1>1. TypeOK /\ TypeOK' /\ Facts /\ DoomInv /\ FlowInv /\ SocketsNamed /\ Lasting /\ Exclusive
        /\ InHand(a)
    BY DEF Going, ForwardingInv, OperationInv, SocketInv
  <1>2. UNCHANGED <<operation, buffer, key, ref, task, mainPc, owner, spent, pending, port, accepted,
                    received, delivered, fin, accConn, accClient, accServer>>
    BY DEF Associate, Insert, AcceptorExit
  <1>3. PICK c : /\ c = accConn[a] /\ (pc[a] # "accept" => c \in Conn /\ c \in accepted)
                 /\ \A b \in Acceptor : accConn[b] = c /\ pc[a] # "accept" => b = a
    BY <1>1 DEF Facts, Going, ForwardingInv, SocketInv, TeardownInv, AcceptedOnce, Associate, Insert,
         AcceptorExit
  <1>4. /\ \A t \in Thread : t # a => pc'[t] = pc[t]
        /\ \/ pc[a] = "associate" /\ pc'[a] \in {"insert", "cleanClient"}
           \/ pc[a] = "insert" /\ pc'[a] = "recvClient"
           \/ pc[a] = "accept" /\ pc'[a] = "exit"
    BY <1>1 DEF Associate, Insert, AcceptorExit, Facts
  <1>5. /\ pc'[a] # "cleanClient" => fault' = fault
        /\ pc'[a] = "cleanClient" => fault' = fault \cup {c}
    BY <1>1, <1>3 DEF Associate, Insert, AcceptorExit, Facts
  <1>6. /\ pc'[a] # "recvClient" => UNCHANGED <<ioSock, ioRemote>>
        /\ pc'[a] = "recvClient" => \A i \in Endpoint :
              \/ i[1] # c /\ ioSock'[i] = ioSock[i] /\ ioRemote'[i] = ioRemote[i]
              \/ /\ i = <<c, "client">> /\ ioSock'[i] = accClient[a] /\ ioRemote'[i] = accServer[a]
              \/ /\ i = <<c, "server">> /\ ioSock'[i] = accServer[a] /\ ioRemote'[i] = accClient[a]
    <2>1. CASE Associate(a) \/ AcceptorExit(a)
      BY <1>1, <2>1 DEF Associate, AcceptorExit, Facts
    <2>2. CASE Insert(a)
      <3>1. /\ ioSock' = [ioSock EXCEPT ![<<c, "client">>] = accClient[a],
                                        ![<<c, "server">>] = accServer[a]]
            /\ ioRemote' = [ioRemote EXCEPT ![<<c, "client">>] = accServer[a],
                                            ![<<c, "server">>] = accClient[a]]
            /\ pc'[a] = "recvClient"
        BY <1>1, <1>3, <2>2 DEF Insert, Facts
      <3>2. \A i \in Endpoint : i[1] = c => i \in {<<c, "client">>, <<c, "server">>}
        BY DEF Endpoint, Side
      <3>3. /\ ioSock \in [Endpoint -> Handle \cup {None}]
            /\ ioRemote \in [Endpoint -> Handle \cup {None}]
        BY <1>1 DEF TypeOK, HeapOK
      <3> QED
        BY <3>1, <3>2, <3>3
    <2> QED
      BY <2>1, <2>2
  <1>7. pc'[a] = "recvClient" =>
            /\ accClient[a] # None /\ accServer[a] # None
            /\ accClient[a] \notin spent /\ accServer[a] \notin spent
            /\ Named(accClient[a], <<c, "client">>) /\ Named(accServer[a], <<c, "server">>)
    <2>1. SUFFICES ASSUME pc[a] = "insert"
                   PROVE  /\ accClient[a] # None /\ accServer[a] # None
                          /\ accClient[a] \notin spent /\ accServer[a] \notin spent
                          /\ Named(accClient[a], <<c, "client">>)
                          /\ Named(accServer[a], <<c, "server">>)
      BY <1>4
    <2>2. /\ accClient[a] # None /\ accServer[a] # None
          /\ accClient[a] \notin spent /\ accServer[a] \notin spent
      BY <1>1, <2>1 DEF InHand, PreInsert, Facts
    <2> QED
      BY <1>1, <1>3, <2>2 DEF SocketsNamed
  <1>8. pc'[a] = "cleanClient" => Doomed(c)'
    BY <1>5 DEF Doomed, Ended
  <1>9. DoomInv'
    <2>1. \A b \in Acceptor : pc'[b] \in GivingUp =>
              (pc[b] \in GivingUp /\ accConn'[b] = accConn[b]) \/ Doomed(accConn[b])'
      BY <1>1, <1>2, <1>3, <1>4, <1>8 DEF GivingUp, Facts
    <2>2. \A t \in Thread : pc'[t] = "close" => pc[t] = "close" /\ key'[t] = key[t]
      BY <1>2, <1>4
    <2>3. ASSUME NEW i \in Endpoint
          PROVE  /\ ioSock'[i] = ioSock[i] \/ (ioSock'[i] \notin spent' /\ Named(ioSock[i], i)')
                 /\ ioRemote'[i] = ioRemote[i] \/ (ioRemote'[i] \notin spent' /\ Named(ioRemote[i], Peer(i))')
      BY <1>2, <1>6, <1>7 DEF Named, Peer
    <2>4. KeepsDoomed(None)
      BY <1>2, <2>1, <2>2, <2>3 DEF KeepsDoomed, Monotone
    <2> QED
      BY <1>1, <2>4, DoomStep
  <1>10. \A d : Ended(d)' => Ended(d) \/ (d = c /\ c \in accepted /\ pc[a] = "associate")
    BY <1>2, <1>3, <1>4, <1>5 DEF Ended
  <1>11. FlowInv'
    <2>1. \A i \in Endpoint : Busy(i)' => Busy(i)
      BY <1>1, <1>2, OperationsFrame
    <2>2. \A p \in pending' : p \in pending /\ \E g \in Handle : owner'[g] = p.ep
      BY <1>1, <1>2 DEF FlowInv, GoodOperation
    <2>3. \A i \in Endpoint : ioSock[i] # None /\ ioRemote[i] # None =>
              ioSock'[i] # None /\ ioRemote'[i] # None
      BY <1>6, <1>7
    <2>4. \A b \in Acceptor : pc'[b] = "connect" => ~Ended(accConn[b])'
      <3>1. \A b \in Acceptor : pc'[b] = "connect" => b # a /\ pc[b] = "connect"
        BY <1>1, <1>4 DEF Facts
      <3> QED
        BY <1>1, <1>2, <1>3, <1>10, <3>1 DEF FlowInv
    <2>5. ASSUME NEW b \in Acceptor, pc'[b] \in {"recvClient", "recvServer"}
          PROVE  \/ pc[b] \in {"recvClient", "recvServer"} /\ accConn'[b] = accConn[b]
                 \/ \A s \in Side : /\ ioSock'[<<accConn'[b], s>>] # None
                                    /\ ioRemote'[<<accConn'[b], s>>] # None
      <3>1. CASE b = a
        <4>1. pc'[a] = "recvClient" /\ c \in Conn /\ accConn'[b] = c
          BY <1>2, <1>3, <1>4, <2>5, <3>1
        <4>2. \A s \in Side : <<c, s>> \in Endpoint /\ <<c, s>>[1] = c
          BY <4>1 DEF Endpoint
        <4> QED
          BY <1>6, <1>7, <4>1, <4>2
      <3>2. CASE b # a
        BY <1>1, <1>2, <1>4, <2>5, <3>2 DEF Facts
      <3> QED
        BY <3>1, <3>2
    <2>6. \A d \in Conn : d \notin accepted' => d \notin accepted /\ (Ended(d)' => Ended(d))
      BY <1>2, <1>10
    <2> QED
      BY <1>2, <2>1, <2>2, <2>3, <2>4, <2>5, <2>6, FlowFrame
  <1>12. Maps
    <2>1. CASE pc'[a] = "cleanClient"
      BY <1>1, <1>2, <1>3, <1>4, <1>5, <2>1, MapFault
    <2>2. CASE pc'[a] # "cleanClient"
      BY <1>2, <1>5, <2>2, MapStutter
    <2> QED
      BY <2>1, <2>2
  <1> QED
    BY <1>9, <1>11, <1>12

-----------------------------------------------------------------------------
(***************************************************************************)
(* Workers, the network and the main thread.                               *)
(***************************************************************************)
\* A step that leaves sockets, contexts and data alone.
LEMMA QuietForwards ==
    ASSUME Going,
           UNCHANGED <<ioSock, ioRemote, operation, buffer, ref, owner, spent, pending, accepted,
                       received, delivered, fin, fault, accConn, accClient, accServer>>,
           port' \subseteq port, \A i \in Endpoint : Busy(i)' => Busy(i),
           \A w \in Worker : task'[w] = None \/ task'[w] = task[w] \/ task'[w] \in port,
           \A a \in Acceptor : pc'[a] = pc[a],
           \A t \in Thread : pc'[t] = "close" =>
              (pc[t] = "close" /\ key'[t] = key[t]) \/ DoomedKey(key[t])'
    PROVE  DoomInv' /\ FlowInv' /\ Maps
  <1>1. TypeOK /\ TypeOK' /\ Facts /\ DoomInv /\ FlowInv /\ SocketsNamed /\ Lasting /\ None \notin spent'
    BY DEF Going, ForwardingInv
  <1>2. DoomInv'
    <2>1. KeepsDoomed(None)
      BY <1>1 DEF KeepsDoomed, Monotone
    <2> QED
      BY <1>1, <2>1, DoomStep
  <1>3. FlowInv'
    <2>1. \A p \in pending' : p \in pending /\ \E h \in Handle : owner'[h] = p.ep
      BY <1>1 DEF FlowInv, GoodOperation
    <2>2. \A c : Ended(c)' => Ended(c)
      BY DEF Ended
    <2>3. \A a \in Acceptor : pc'[a] = "connect" => ~Ended(accConn[a])'
      BY <1>1, <2>2 DEF FlowInv
    <2> QED
      BY <2>1, <2>2, <2>3, FlowFrame
  <1>4. Maps
    <2>1. CASE mainPc # "run" <=> mainPc' # "run"
      BY <2>1, MapStutter
    <2>2. CASE ~(mainPc # "run" <=> mainPc' # "run")
      BY <1>1, <2>2, MapHalt DEF Lasting
    <2> QED
      BY <2>1, <2>2
  <1> QED
    BY <1>2, <1>3, <1>4

LEMMA WorkerThreadForwards ==
    ASSUME Going, ~Recycle, NEW w \in Worker, WorkerThread(w)
    PROVE  DoomInv' /\ FlowInv' /\ Maps
  <1>1. TypeOK /\ Facts /\ DoomInv /\ FlowInv /\ Lasting /\ w \in Thread /\ w \notin Acceptor
    BY DEF Going, ForwardingInv, Facts
  <1>2. CASE CloseConnection(w)
    BY <1>1, <1>2, CloseLookupForwards, CloseClientForwards, CloseServerForwards DEF CloseConnection
  <1>3. CASE HandleRead(w) \/ HandleWrite(w)
    BY <1>3, HandleForwards
  <1>4. CASE Dequeue(w) \/ Abandoned(w) \/ HandleEnd(w)
    <2>1. /\ UNCHANGED <<ioSock, ioRemote, operation, buffer, ref, owner, spent, pending, accepted,
                         received, delivered, fin, fault, accConn, accClient, accServer>>
          /\ port' \subseteq port
          /\ pc' = [pc EXCEPT ![w] = pc'[w]]
      BY <1>1, <1>4 DEF Dequeue, Abandoned, HandleEnd, Facts
    <2>2. task \in [Worker -> Packet \cup {None}]
      BY <1>1 DEF TypeOK, ThreadOK
    <2>3. \A v \in Worker : task'[v] = None \/ task'[v] = task[v] \/ task'[v] \in port
      BY <1>4, <2>2 DEF Dequeue, Abandoned, HandleEnd
    <2>4. \A i \in Endpoint : Busy(i)' => Busy(i)
      BY <2>1, <2>3 DEF Busy
    <2>5. \A t \in Thread : t # w => pc'[t] = pc[t]
      BY <1>1, <2>1 DEF Facts
    <2>6. \A a \in Acceptor : pc'[a] = pc[a]
      BY <1>1, <2>5 DEF Facts
    <2>7. \A t \in Thread : t # w => key'[t] = key[t]
      BY <1>1, <1>4 DEF Dequeue, Abandoned, HandleEnd, Facts
    <2>8. pc'[w] = "close" => DoomedKey(key[w])'
      <3> SUFFICES ASSUME pc'[w] = "close" PROVE DoomedKey(key[w])'
        OBVIOUS
      <3>1. HandleEnd(w)
        BY <1>1, <1>4 DEF Dequeue, Abandoned, Facts
      <3>2. task[w] \in Packet /\ task[w] # None /\ task[w].status # "data"
        BY <1>1, <2>2, <3>1 DEF HandleEnd, TypeOK, ThreadOK
      <3>3. PICK i \in Endpoint : i = task[w].io
        BY <3>2 DEF Packet
      <3>4. key'[w] = ioSock[i]
        BY <1>1, <3>1, <3>3 DEF HandleEnd, AtAddress, Facts
      <3>5. Doomed(i[1])'
        BY <1>1, <3>2, <3>3, StaysDoomed DEF DoomInv
      <3>6. Named(ioSock[i], i)
        BY <1>1 DEF DoomInv
      <3> QED
        BY <2>1, <3>4, <3>5, <3>6 DEF DoomedKey, Named
    <2> QED
      BY <2>1, <2>3, <2>4, <2>5, <2>6, <2>7, <2>8, QuietForwards
  <1> QED
    BY <1>2, <1>3, <1>4 DEF WorkerThread

\* The IOContext of a READ in progress is that of its endpoint, and so on.
LEMMA NetworkForwards ==
    ASSUME Going, Network
    PROVE  DoomInv' /\ FlowInv' /\ Maps
  <1>1. /\ TypeOK /\ TypeOK' /\ Facts /\ DoomInv /\ FlowInv /\ SocketsNamed /\ Lasting /\ Exclusive
        /\ StartsIdle /\ None \notin spent'
    BY DEF Going, ForwardingInv, OperationInv
  <1>2. PICK p \in pending : RecvData(p) \/ RecvEof(p) \/ SendDone(p) \/ IoFailed(p)
    BY DEF Network
  <1>3. PICK s \in {"data", "eof", "failed"} : Complete(p, s) /\ (RecvData(p) \/ SendDone(p) <=> s = "data")
    BY <1>2 DEF RecvData, RecvEof, SendDone, IoFailed
  <1>4. PICK i \in Endpoint : i = p.io
    BY <1>1 DEF TypeOK, WinsockOK, Overlapped
  <1>5. p.ep \in {i, Peer(i)} /\ p.ep[1] = i[1] /\ GoodOperation(p) /\ \E h \in Handle : owner[h] = p.ep
    <2>1. GoodOperation(p) /\ p.kind \in {"READ", "WRITE"}
      BY <1>1 DEF FlowInv, TypeOK, WinsockOK, Overlapped
    <2> QED
      BY <1>4, <2>1, PeerIs DEF GoodOperation
  <1>6. i[1] \in accepted /\ i[1] \in Conn
    <2>1. PICK h \in Handle : owner[h] = p.ep
      BY <1>5
    <2>2. p.ep # None
      BY <1>1, <1>5, PeerIs DEF Facts
    <2> QED
      BY <1>1, <1>5, <2>1, <2>2, PeerIs DEF SocketsNamed
  <1>7. Busy(i) /\ ~NotStarted(i)
    BY <1>1, <1>4 DEF Busy, StartsIdle
  <1>8. \A a \in Acceptor : pc[a] = "connect" => accConn[a] # i[1]
    BY <1>7 DEF NotStarted, PreInsert
  <1>9. /\ pending' = pending \ {p} /\ port' = port \cup {[io |-> i, status |-> s]}
        /\ UNCHANGED <<ioSock, ioRemote, operation, pc, key, ref, task, accConn, accClient, accServer,
                       mainPc, owner, spent, accepted>>
    BY <1>3, <1>4 DEF Complete
  <1>10. \A j \in Endpoint : Busy(j)' => Busy(j)
    BY <1>1, <1>3, CompleteOperations
  <1>11. s # "data" => Doomed(i[1])' /\ UNCHANGED <<buffer, received, delivered>>
    <2>1. CASE RecvEof(p)
      <3>1. p.ep = i /\ i = <<i[1], i[2]>> /\ i[2] \in Side
        BY <1>4, <1>5, <2>1 DEF RecvEof, GoodOperation, Endpoint
      <3> QED
        BY <2>1, <3>1 DEF RecvEof, Doomed, Ended
    <2>2. CASE IoFailed(p)
      BY <1>5, <2>2 DEF IoFailed, Doomed, Ended
    <2> QED
      BY <1>2, <1>3, <2>1, <2>2
  <1>12. \A c \in Conn : Ended(c)' => Ended(c) \/ (c = i[1] /\ s # "data")
    <2>1. /\ fault' = fault \/ fault' = fault \cup {i[1]}
          /\ fin' = fin \/ fin' = fin \cup {p.ep}
          /\ s = "data" => UNCHANGED <<fault, fin>>
      BY <1>2, <1>3, <1>5 DEF RecvData, RecvEof, SendDone, IoFailed
    <2>2. \A c, t : <<c, t>> = p.ep => c = i[1]
      BY <1>5
    <2> QED
      BY <2>1, <2>2 DEF Ended
  <1>13. DoomInv'
    <2>1. \A x \in port' : x \in port \/ (x.status # "data" => Doomed(x.io[1])')
      BY <1>9, <1>11
    <2>2. KeepsDoomed(None)
      BY <1>9, <2>1 DEF KeepsDoomed, Monotone
    <2> QED
      BY <1>1, <2>2, DoomStep
  <1>14. \A a \in Acceptor : pc'[a] = "connect" => ~Ended(accConn[a])'
    <2>1. \A a \in Acceptor : pc[a] = "connect" => accConn[a] \in Conn
      BY <1>1 DEF Facts
    <2> QED
      BY <1>1, <1>8, <1>9, <1>12, <2>1 DEF FlowInv
  <1>15. \A c \in Conn : c \notin accepted' => c \notin accepted /\ (Ended(c)' => Ended(c))
    BY <1>6, <1>9, <1>12
  <1>16. FlowInv' /\ Maps
    <2>1. CASE s # "data"
      <3>1. FlowInv'
        <4>1. \A q \in pending' : q \in pending /\ \E h \in Handle : owner'[h] = q.ep
          BY <1>1, <1>9 DEF FlowInv, GoodOperation
        <4>2. \A x \in port' : x \in port \/ x.status # "data"
          BY <1>9, <2>1
        <4> QED
          BY <1>9, <1>10, <1>11, <1>14, <1>15, <2>1, <4>1, <4>2, FlowFrame
      <3>2. Maps
        BY <1>1, <1>6, <1>9, <1>11, <1>12, <2>1, MapFinish DEF Lasting
      <3> QED
        BY <3>1, <3>2
    <2>2. CASE s = "data"
      <3>1. UNCHANGED <<fault, fin>>
        BY <1>2, <1>3, <2>2 DEF RecvData, SendDone
      <3>2. /\ operation[i] = p.kind
            /\ p.kind = "READ" => p.ep = i /\ Empty(i)
            /\ p.kind = "WRITE" => p.ep = Peer(i) /\ Full(i)
        BY <1>4, <1>5 DEF GoodOperation
      <3>3. /\ received \in [Endpoint -> 0..MaxChunk] /\ MaxChunk \in Nat
            /\ buffer \in [Endpoint -> Chunk \cup {None}]
            /\ delivered \in [Endpoint -> Seq(Chunk \cup {None})]
        BY <1>1, ConstantsAssumption DEF TypeOK, RemoteOK, HeapOK
      <3>4. /\ Maps
            /\ Completed(i)'
            /\ \A j \in Endpoint \ {i} : /\ buffer'[j] = buffer[j] /\ received'[j] = received[j]
                                         /\ delivered'[Peer(j)] = delivered[Peer(j)]
        <4>1. CASE RecvData(p)
          <5>1. /\ received' = [received EXCEPT ![i] = @ + 1] /\ received[i] < MaxChunk
                /\ buffer' = [buffer EXCEPT ![i] = <<i, received[i] + 1>>] /\ UNCHANGED delivered
                /\ operation[i] = "READ" /\ p.ep = i /\ Empty(i)
            BY <1>4, <3>2, <4>1 DEF RecvData
          <5>2. Maps
            BY <1>1, <1>5, <1>9, <3>1, <5>1, MapReceive
          <5>3. Full(i)'
            BY <3>3, <5>1 DEF Full, Empty
          <5> QED
            BY <1>9, <3>3, <5>1, <5>2, <5>3 DEF Completed
        <4>2. CASE SendDone(p)
          <5>1. /\ delivered' = [delivered EXCEPT ![Peer(i)] = Append(@, buffer[i])]
                /\ UNCHANGED <<buffer, received>>
                /\ operation[i] = "WRITE" /\ p.ep = Peer(i) /\ Full(i)
            BY <1>4, <3>2, <4>2 DEF SendDone
          <5>2. /\ received[i] = Len(delivered[Peer(i)]) + 1
                /\ delivered' = [delivered EXCEPT ![Peer(i)] = Append(@, <<i, received[i]>>)]
            BY <5>1 DEF Full
          <5>3. Maps
            BY <1>1, <1>5, <1>9, <3>1, <5>1, <5>2, MapDeliver
          <5>4. Empty(i)'
            <6>1. Peer(i) \in Endpoint /\ delivered[Peer(i)] \in Seq(Chunk \cup {None})
              BY <3>3, PeerIs
            <6>2. buffer[i] \in Chunk \cup {None}
              BY <3>3
            <6>3. Len(Append(delivered[Peer(i)], buffer[i])) = Len(delivered[Peer(i)]) + 1
              BY <6>1, <6>2
            <6>4. delivered'[Peer(i)] = Append(delivered[Peer(i)], buffer[i])
              BY <3>3, <5>1, <6>1
            <6> QED
              BY <5>1, <5>2, <6>3, <6>4 DEF Empty
          <5>5. \A j \in Endpoint \ {i} : delivered'[Peer(j)] = delivered[Peer(j)]
            BY <3>3, <5>1, PeerIs
          <5> QED
            BY <1>9, <5>1, <5>3, <5>4, <5>5 DEF Completed
        <4> QED
          BY <1>2, <1>3, <2>2, <4>1, <4>2
      <3>5. \A q \in pending' : q \in pending /\ q.io \notin {i} /\ \E h \in Handle : owner'[h] = q.ep
        BY <1>1, <1>4, <1>9 DEF Exclusive, FlowInv, GoodOperation
      <3>6. \A x \in port' : GoodPacket(x)' \/ (x \in port /\ x.io \notin {i})
        <4>1. \A x \in port : x.io # i
          BY <1>1, <1>4 DEF Exclusive
        <4> QED
          BY <1>9, <3>4, <4>1 DEF GoodPacket
      <3>7. \A w \in Worker : task'[w] = None \/ (task'[w] = task[w] /\ task'[w].io \notin {i})
        BY <1>1, <1>4, <1>9 DEF Exclusive
      <3>8. ~NotStarted(i)'
        BY <1>7 DEF Going, Settled
      <3>9. KeepsFlow({i})
        <4>1. \A j \in Endpoint \ {i} :
                  /\ operation'[j] = operation[j] /\ buffer'[j] = buffer[j]
                  /\ received'[j] = received[j] /\ delivered'[Peer(j)] = delivered[Peer(j)]
          BY <1>9, <3>4
        <4>2. \A j \in Endpoint :
                  /\ NotStarted(j)' =>
                        received'[j] = received[j] /\ delivered'[Peer(j)] = delivered[Peer(j)]
                  /\ Busy(j)' => Busy(j)
                  /\ ioSock'[j] = ioSock[j] /\ ioRemote'[j] = ioRemote[j]
          BY <1>9, <1>10, <3>4, <3>8
        <4>3. \A a \in Acceptor : pc'[a] = pc[a] /\ accConn'[a] = accConn[a]
          BY <1>9
        <4> QED
          BY <1>14, <1>15, <3>5, <3>6, <3>7, <4>1, <4>2, <4>3 DEF KeepsFlow
      <3>10. \A a \in Acceptor : pc[a] \in {"recvClient", "recvServer"} => accConn[a] \in Conn
        BY <1>1 DEF Facts
      <3>11. Settled
        BY DEF Going
      <3> QED
        BY <1>1, <3>4, <3>9, <3>10, <3>11, FlowStep
    <2> QED
      BY <2>1, <2>2
  <1> QED
    BY <1>13, <1>16

\* Every step keeps the invariant, and is a step of Forwarding or none.
LEMMA NextForwards == ForwardingInv /\ ~Recycle /\ [Next]_vars => ForwardingInv' /\ Maps
  <1> SUFFICES ASSUME ForwardingInv, ~Recycle, [Next]_vars PROVE ForwardingInv' /\ Maps
    OBVIOUS
  <1>1. Going
    BY NextGoing
  <1>2. SUFFICES DoomInv' /\ FlowInv' /\ Maps
    BY <1>1 DEF Going, ForwardingInv
  <1>3. CASE \E a \in Acceptor : HandleAccept(a)
    <2>1. PICK a \in Acceptor : HandleAccept(a)
      BY <1>3
    <2>2. a \in Thread
      BY DEF Thread
    <2> QED
      BY <1>1, <2>1, <2>2, AcceptForwards, ConnectedForwards, RegisterForwards, RecvForwards,
         CleanForwards, CloseLookupForwards, CloseClientForwards, CloseServerForwards
         DEF HandleAccept, CloseConnection
  <1>4. CASE \E w \in Worker : WorkerThread(w)
    BY <1>1, <1>4, WorkerThreadForwards
  <1>5. CASE \/ Interrupt \/ StopRunning \/ LockConnections \/ ClearConnections \/ ClosePort
             \/ JoinWorkers \/ UNCHANGED vars
    <2>1. UNCHANGED <<ioSock, ioRemote, operation, buffer, ref, owner, spent, pending, port, accepted,
                      received, delivered, fin, fault, accConn, accClient, accServer, task, pc, key>>
      BY <1>5 DEF Interrupt, StopRunning, LockConnections, ClearConnections, ClosePort, JoinWorkers
    <2>2. \A i \in Endpoint : Busy(i)' => Busy(i)
      BY <2>1, OperationsFrame DEF ForwardingInv, OperationInv
    <2> QED
      BY <1>1, <2>1, <2>2, QuietForwards
  <1>6. CASE CloseEntry
    BY <1>1, <1>6, CloseEntryForwards
  <1>7. CASE Network
    BY <1>1, <1>7, NetworkForwards
  <1> QED
    BY <1>3, <1>4, <1>5, <1>6, <1>7 DEF Next, Shutdown

LEMMA InitForwards == Init => ForwardingInv /\ Forwarder!Init
  <1> SUFFICES ASSUME Init PROVE ForwardingInv /\ Forwarder!Init
    OBVIOUS
  <1>1. SocketInv /\ TeardownInv /\ Facts
    BY InitSockets, Known DEF SocketInv, TeardownInv
  <1>2. OperationInv
    BY <1>1 DEF Init, OperationInv, Exclusive, StartsIdle, Busy
  <1>3. /\ \A i \in Endpoint : ioSock[i] = None /\ ioRemote[i] = None
        /\ \A i \in Endpoint : received[i] = 0 /\ delivered[i] = <<>>
        /\ \A a \in Acceptor : pc[a] = "accept" /\ accClient[a] = None /\ accServer[a] = None
        /\ \A t \in Thread : pc[t] \in {"wait", "accept"} /\ ref[t] = None
        /\ \A w \in Worker : task[w] = None
        /\ \A h \in Handle : owner[h] = None
        /\ spent = {} /\ pending = {} /\ port = {} /\ fin = {} /\ fault = {}
    BY <1>1 DEF Init, Facts
  <1>4. \A c : ~Ended(c)
    BY <1>3 DEF Ended
  <1>5. DoomInv
    BY <1>3 DEF DoomInv, Named, GivingUp
  <1>6. FlowInv
    BY <1>3, <1>4, PeerIs DEF FlowInv, Busy
  <1>7. Forwarder!Init
    <2>1. {e \in Endpoint : \E h \in Handle : owner[h] = e} = {}
      BY <1>1, <1>3 DEF Facts
    <2>2. {c \in Conn : Ended(c)} = {}
      BY <1>4
    <2>3. (mainPc # "run") = FALSE
      BY DEF Init
    <2>4. Forwarder!Endpoint = Endpoint
      BY DEF Forwarder!Endpoint, Forwarder!Side, Endpoint, Side
    <2> QED
      BY <2>1, <2>2, <2>3, <2>4 DEF Forwarder!Init, Init
  <1> QED
    BY <1>1, <1>2, <1>5, <1>6, <1>7 DEF ForwardingInv

\* The manager forwards transparently (iocp.cpp:253-301), for any number of
\* connections, workers and listeners, as long as neither socket values nor freed
\* memory are reissued: it implements Forwarding.
THEOREM Forwards == ~Recycle => (Spec => ForwardsTransparently)
  <1> SUFFICES ASSUME ~Recycle PROVE Spec => ForwardsTransparently
    OBVIOUS
  <1>1. ForwardingInv /\ [Next]_vars => ForwardingInv' /\ [Forwarder!Next]_(Forwarder!vars)
    BY NextForwards DEF Maps
  <1>2. Init => ForwardingInv /\ Forwarder!Init
    BY InitForwards
  <1> QED
    BY <1>1, <1>2, PTL DEF Spec, ForwardsTransparently, Forwarder!Spec

-----------------------------------------------------------------------------
(***************************************************************************)
(* No direction is forgotten.  The strengthening says it of an entry from  *)
(* the moment its accept thread enters it: an IOContext is active, or the  *)
(* accept thread has yet to post its first WSARecv.                        *)
(***************************************************************************)

\* Something is under way for IOContext i, or its first WSARecv is to come.
Watched(i) ==
    \/ Active(i)
    \/ \E a \in Acceptor : /\ accConn[a] = i[1] /\ Registering(a)
                           /\ i[2] = "client" => pc[a] # "recvServer"

\* An entry's IOContexts read from its sockets, and each of them is watched.
ActivityInv ==
    \A h \in Handle : connections[h] # None =>
        /\ ioSock[<<connections[h], "client">>] = clientSock[connections[h]]
        /\ ioSock[<<connections[h], "server">>] = serverSock[connections[h]]
        /\ running => \A i \in Endpoint : i[1] = connections[h] => Watched(i)

\* What is known before a step, and of the invariants after it.
Watching == SocketInv /\ SocketInv' /\ OperationInv /\ ActivityInv /\ Facts /\ Facts'
            /\ (running' => running)

\* A step that enters nothing into connections_.
LEMMA ActivityStep ==
    ASSUME Watching, UNCHANGED ioSock,
           \A h \in Handle : connections'[h] # None => connections'[h] = connections[h],
           \A h \in Handle : connections'[h] # None =>
              /\ clientSock'[connections[h]] = clientSock[connections[h]]
              /\ serverSock'[connections[h]] = serverSock[connections[h]],
           ASSUME NEW h \in Handle, NEW i \in Endpoint, connections'[h] = i[1], connections[h] = i[1],
                  running', Watched(i)
           PROVE  Watched(i)'
    PROVE  ActivityInv'
  <1> SUFFICES ASSUME NEW h \in Handle, connections'[h] # None
               PROVE  (/\ ioSock[<<connections[h], "client">>] = clientSock[connections[h]]
                       /\ ioSock[<<connections[h], "server">>] = serverSock[connections[h]]
                       /\ running => \A i \in Endpoint : i[1] = connections[h] => Watched(i))'
    BY DEF ActivityInv
  <1>1. connections'[h] = connections[h]
    OBVIOUS
  <1> QED
    BY <1>1 DEF ActivityInv, Watching

\* Operations, packets, tasks and the keys of CloseConnection stay.
LEMMA StaysWatched ==
    ASSUME UNCHANGED ioSock, NEW i \in Endpoint, Watched(i),
           \A j \in Endpoint : Busy(j) => Busy(j)',
           \A t \in Thread : pc[t] = "close" =>
              (pc'[t] = "close" /\ key'[t] = key[t]) \/ key[t] # ioSock[i],
           \A a \in Acceptor : accConn[a] = i[1] /\ Registering(a) =>
              /\ accConn'[a] = accConn[a] /\ Registering(a)'
              /\ pc'[a] = "recvServer" => pc[a] = "recvServer" \/ Busy(i)'
    PROVE  Watched(i)'
  <1>1. CASE Busy(i)
    BY <1>1 DEF Watched, Active, Busy
  <1>2. CASE \E t \in Thread : pc[t] = "close" /\ key[t] = ioSock[i]
    BY <1>2 DEF Watched, Active
  <1>3. CASE \E a \in Acceptor : /\ accConn[a] = i[1] /\ Registering(a)
                                 /\ i[2] = "client" => pc[a] # "recvServer"
    BY <1>3 DEF Watched, Active, Busy
  <1> QED
    BY <1>1, <1>2, <1>3 DEF Watched, Active, Busy

LEMMA CloseSocketsBusy ==
    ASSUME NEW S, CloseSockets(S), UNCHANGED task
    PROVE  \A j \in Endpoint : Busy(j) => Busy(j)'
  <1> SUFFICES ASSUME NEW j \in Endpoint, NEW x \in pending, x.io = j PROVE Busy(j)'
    BY DEF Busy, CloseSockets
  <1>1. x \in pending' \/ [io |-> x.io, status |-> "failed"] \in port'
    BY DEF CloseSockets
  <1> QED
    BY <1>1 DEF Busy

\* A context that an accept thread gives up has no entry.
LEMMA EntryWatched ==
    ASSUME Watching, NEW h \in Handle, NEW i \in Endpoint, connections[h] = i[1]
    PROVE  /\ i[1] \in Conn /\ i[1] # None
           /\ ioSock[i] \in Handle /\ connections[ioSock[i]] = i[1]
           /\ \A a \in Acceptor : accConn[a] = i[1] =>
                pc[a] \notin {"closeClient", "closeServer", "cleanClient", "cleanServer"} \cup PreInsert
           /\ \A t \in Thread : ref[t] # i[1]
  <1>1. Facts /\ i[1] \in Conn /\ i[1] # None /\ i \in {<<i[1], "client">>, <<i[1], "server">>}
    BY DEF Watching, Facts, Endpoint, Side
  <1>2. Paired(i[1])
    BY <1>1 DEF Watching, SocketInv
  <1>3. ioSock[i] \in {clientSock[i[1]], serverSock[i[1]]}
    BY <1>1 DEF Watching, ActivityInv
  <1>4. ioSock[i] \in Handle /\ connections[ioSock[i]] = i[1]
    BY <1>1, <1>2, <1>3 DEF Paired, Facts
  <1>5. \A a \in Acceptor : InHand(a)
    BY DEF Watching, SocketInv
  <1>6. \A a \in Acceptor : pc[a] \in PreInsert => Untouched(accConn[a])
    BY DEF Watching, SocketInv, TeardownInv, AcceptedOnce, PreInsert
  <1>7. \A t \in Thread : ref[t] # i[1]
    BY <1>1 DEF Watching, SocketInv, TeardownInv, TornDownOnce
  <1> QED
    BY <1>1, <1>4, <1>5, <1>6, <1>7 DEF InHand, Untouched

LEMMA CloseConnectionActivity ==
    ASSUME Watching, NEW t \in Thread, CloseConnection(t)
    PROVE  ActivityInv'
  <1>1. Facts /\ Facts' /\ SocketInv'
    BY DEF Watching
  <1>2. UNCHANGED <<ioSock, task, accConn>>
    BY DEF CloseConnection, CloseLookup, CloseClient, CloseServer
  <1>3. \A u \in Thread : u # t => pc'[u] = pc[u] /\ key'[u] = key[u]
    BY <1>1 DEF CloseConnection, CloseLookup, CloseClient, CloseServer, Facts
  <1>4. \A j \in Endpoint : Busy(j) => Busy(j)'
    <2>1. (\E S : CloseSockets(S)) \/ UNCHANGED <<pending, port>>
      BY DEF CloseConnection, CloseLookup, CloseClient, CloseServer
    <2>2. CASE UNCHANGED <<pending, port>>
      BY <1>2, <2>2 DEF Busy
    <2> QED
      BY <1>2, <2>1, <2>2, CloseSocketsBusy
  <1>5. \A h \in Handle : connections'[h] # None => connections'[h] = connections[h]
    BY DEF CloseConnection, CloseLookup, CloseClient, CloseServer
  <1>6. ASSUME NEW h \in Handle, connections'[h] # None
        PROVE  /\ clientSock'[connections[h]] = clientSock[connections[h]]
               /\ serverSock'[connections[h]] = serverSock[connections[h]]
    <2>1. connections[h] \in Conn /\ \A u \in Thread : ref[u] # connections[h]
      BY <1>1, <1>5, <1>6 DEF Watching, SocketInv, TeardownInv, TornDownOnce, Facts
    <2> QED
      BY <1>1, <2>1 DEF CloseConnection, CloseLookup, CloseClient, CloseServer, Facts
  <1>7. ASSUME NEW h \in Handle, NEW i \in Endpoint, connections'[h] = i[1], connections[h] = i[1],
               running', Watched(i)
        PROVE  Watched(i)'
    <2>1. /\ ioSock[i] \in Handle /\ connections[ioSock[i]] = i[1] /\ i[1] \in Conn /\ i[1] # None
          /\ \A a \in Acceptor : accConn[a] = i[1] =>
                pc[a] \notin {"closeClient", "closeServer", "cleanClient", "cleanServer"}
      BY <1>7, EntryWatched
    <2>2. \A a \in Acceptor : accConn'[a] = i[1] =>
                pc'[a] \notin {"closeClient", "closeServer", "cleanClient", "cleanServer"}
      BY <1>1, <1>7 DEF SocketInv, InHand
    <2>3. pc[t] = "close" => key[t] # ioSock[i]
      <3> SUFFICES ASSUME pc[t] = "close", key[t] = ioSock[i] PROVE FALSE
        OBVIOUS
      <3>1. Find(key[t]) = i[1] /\ CloseLookup(t)
        BY <1>1, <2>1 DEF Find, CloseConnection, CloseClient, CloseServer, Facts
      <3>2. /\ connections' = [g \in Handle |-> IF g \in Erased(key[t]) THEN None ELSE connections[g]]
            /\ key[t] \in Handle
        BY <2>1, <3>1 DEF CloseLookup
      <3>3. Erased(key[t]) = {key[t], IF clientSock[i[1]] # key[t] THEN clientSock[i[1]]
                                                                 ELSE serverSock[i[1]]}
        BY <3>1 DEF Erased
      <3>4. h \in {clientSock[i[1]], serverSock[i[1]]} /\ key[t] \in {clientSock[i[1]], serverSock[i[1]]}
        BY <1>7, <2>1 DEF Watching, SocketInv, TeardownInv, KeysAreSockets
      <3>5. connections'[h] = None
        BY <3>2, <3>3, <3>4
      <3> QED
        BY <1>7, <2>1, <3>5
    <2>4. \A a \in Acceptor : accConn[a] = i[1] => a # t
      <3> SUFFICES ASSUME t \in Acceptor, accConn[t] = i[1] PROVE FALSE
        OBVIOUS
      <3>1. pc[t] \in {"close", "closeClient", "closeServer"}
        BY DEF CloseConnection, CloseLookup, CloseClient, CloseServer
      <3>2. pc'[t] \in {"closeClient", "closeServer", "cleanClient"}
        BY <1>1 DEF CloseConnection, CloseLookup, CloseClient, CloseServer, AfterClose, Facts
      <3> QED
        BY <1>2, <2>2, <3>2
    <2>5. \A a \in Acceptor : accConn[a] = i[1] /\ Registering(a) =>
              accConn'[a] = accConn[a] /\ Registering(a)' /\ pc'[a] = pc[a]
      BY <1>1, <1>2, <1>3, <2>4 DEF Registering, Facts
    <2>6. \A u \in Thread : pc[u] = "close" =>
              (pc'[u] = "close" /\ key'[u] = key[u]) \/ key[u] # ioSock[i]
      BY <1>3, <2>3
    <2> QED
      BY <1>2, <1>4, <1>7, <2>5, <2>6, StaysWatched
  <1> QED
    BY <1>2, <1>5, <1>6, <1>7, ActivityStep

\* The steps of an accept thread outside of RegisterConnection.
LEMMA AcceptActivity ==
    ASSUME Watching, NEW a \in Acceptor,
           \/ Accept(a) \/ Connected(a) \/ ConnectFailed(a) \/ Associate(a) \/ CleanClient(a)
           \/ CleanServer(a) \/ AcceptorExit(a)
    PROVE  ActivityInv'
  <1>1. /\ UNCHANGED <<ioSock, connections, clientSock, serverSock, key, task>>
        /\ Facts /\ a \in Thread
        /\ pc[a] \in {"accept", "connect", "associate", "cleanClient", "cleanServer"}
    BY DEF Accept, Connected, ConnectFailed, Associate, CleanClient, CleanServer, AcceptorExit,
         Watching, Facts
  <1>2. /\ \A t \in Thread : t # a => pc'[t] = pc[t]
        /\ \A b \in Acceptor : b # a => accConn'[b] = accConn[b]
    BY <1>1 DEF Accept, Connected, ConnectFailed, Associate, CleanClient, CleanServer, AcceptorExit,
         EndIteration, Facts
  <1>3. \A j \in Endpoint : Busy(j) => Busy(j)'
    <2>1. (\E S : CloseSockets(S)) \/ UNCHANGED <<pending, port>>
      BY DEF Accept, Connected, ConnectFailed, Associate, CleanClient, CleanServer, AcceptorExit
    <2>2. CASE UNCHANGED <<pending, port>>
      BY <1>1, <2>2 DEF Busy
    <2> QED
      BY <1>1, <2>1, <2>2, CloseSocketsBusy
  <1>4. ASSUME NEW h \in Handle, NEW i \in Endpoint, connections'[h] = i[1], connections[h] = i[1],
               running', Watched(i)
        PROVE  Watched(i)'
    <2>1. \A b \in Acceptor : accConn[b] = i[1] /\ Registering(b) =>
              accConn'[b] = accConn[b] /\ Registering(b)' /\ pc'[b] = pc[b]
      BY <1>1, <1>2 DEF Registering, Facts
    <2>2. \A u \in Thread : pc[u] = "close" => pc'[u] = "close" /\ key'[u] = key[u]
      BY <1>1, <1>2
    <2> QED
      BY <1>1, <1>3, <1>4, <2>1, <2>2, StaysWatched
  <1> QED
    BY <1>1, <1>4, ActivityStep

LEMMA InsertActivity ==
    ASSUME Watching, NEW a \in Acceptor, Insert(a)
    PROVE  ActivityInv'
  <1>1. Facts /\ Facts' /\ pc[a] = "insert" /\ a \in Thread
    BY DEF Watching, Insert, Facts
  <1>2. PICK c \in Conn : c = accConn[a]
    BY <1>1 DEF Facts
  <1>3. /\ UNCHANGED <<key, task, accConn, pending, port, mainPc>>
        /\ clientSock' = [clientSock EXCEPT ![c] = accClient[a]]
        /\ serverSock' = [serverSock EXCEPT ![c] = accServer[a]]
        /\ ioSock' = [ioSock EXCEPT ![<<c, "client">>] = accClient[a],
                                    ![<<c, "server">>] = accServer[a]]
        /\ connections' = [h \in Handle |-> IF h \in Entered(a) THEN c ELSE connections[h]]
        /\ pc' = [pc EXCEPT ![a] = "recvClient"]
    BY <1>2 DEF Insert
  <1>4. /\ ioSock \in [Endpoint -> Handle \cup {None}]
        /\ \A s \in Side, d \in Conn : <<d, s>> \in Endpoint
    BY DEF Watching, SocketInv, TeardownInv, TypeOK, HeapOK, Endpoint
  <1>5. pc'[a] = "recvClient" /\ \A t \in Thread : t # a => pc'[t] = pc[t]
    BY <1>1, <1>3 DEF Facts
  <1>6. ASSUME NEW h \in Handle, NEW d, d = connections'[h], d # None
        PROVE  /\ ioSock'[<<d, "client">>] = clientSock'[d]
               /\ ioSock'[<<d, "server">>] = serverSock'[d]
               /\ running' => \A i \in Endpoint : i[1] = d => Watched(i)'
    <2>1. CASE d = c
      <3>1. /\ ioSock'[<<c, "client">>] = accClient[a] /\ ioSock'[<<c, "server">>] = accServer[a]
            /\ clientSock'[c] = accClient[a] /\ serverSock'[c] = accServer[a]
        BY <1>1, <1>3, <1>4 DEF Facts, Side
      <3>2. \A i \in Endpoint : i[1] = c => Watched(i)'
        BY <1>2, <1>3, <1>5 DEF Watched, Registering
      <3> QED
        BY <2>1, <3>1, <3>2
    <2>2. CASE d # c
      <3>1. connections[h] = d /\ d \in Conn
        BY <1>1, <1>3, <1>6, <2>2 DEF Facts
      <3>2. /\ ioSock[<<d, "client">>] = clientSock[d] /\ ioSock[<<d, "server">>] = serverSock[d]
            /\ running => \A i \in Endpoint : i[1] = d => Watched(i)
        BY <1>6, <3>1 DEF Watching, ActivityInv
      <3>3. \A i \in Endpoint : i[1] = d => ioSock'[i] = ioSock[i]
        BY <1>3, <1>4, <2>2
      <3>4. clientSock'[d] = clientSock[d] /\ serverSock'[d] = serverSock[d]
        BY <1>1, <1>3, <2>2, <3>1 DEF Facts
      <3>5. ASSUME running', NEW i \in Endpoint, i[1] = d PROVE Watched(i)'
        <4>1. Watched(i)
          BY <1>3, <3>2, <3>5 DEF running
        <4>2. Active(i) => Active(i)'
          BY <1>1, <1>3, <1>5, <3>3, <3>5 DEF Active
        <4>3. \A b \in Acceptor : accConn[b] = d => b # a /\ pc'[b] = pc[b] /\ accConn'[b] = d
          BY <1>1, <1>2, <1>3, <1>5, <2>2 DEF Facts
        <4> QED
          BY <3>5, <4>1, <4>2, <4>3 DEF Watched, Registering
      <3> QED
        BY <1>4, <3>1, <3>2, <3>3, <3>4, <3>5 DEF Side
    <2> QED
      BY <2>1, <2>2
  <1> QED
    BY <1>6 DEF ActivityInv

LEMMA RecvActivity ==
    ASSUME Watching, NEW a \in Acceptor, RecvClient(a) \/ RecvServer(a)
    PROVE  ActivityInv'
  <1>1. /\ Facts /\ a \in Thread /\ pc[a] \in {"recvClient", "recvServer"}
        /\ UNCHANGED <<ioSock, connections, clientSock, serverSock, task, port>>
    BY DEF Watching, RecvClient, RecvServer, FirstRecv, FirstRecvRefused, Facts
  <1>2. /\ accConn[a] \in Conn /\ \A b \in Acceptor : accConn[b] = accConn[a] => b = a
    BY <1>1 DEF Facts, Watching, SocketInv, TeardownInv, AcceptedOnce
  <1>3. /\ \A t \in Thread : t # a => pc'[t] = pc[t] /\ key'[t] = key[t]
        /\ \A b \in Acceptor : b # a => accConn'[b] = accConn[b]
    BY <1>1 DEF RecvClient, RecvServer, FirstRecv, FirstRecvRefused, EndIteration, Facts
  <1>4. \/ pc'[a] = "close" /\ accConn'[a] = accConn[a]
        \/ /\ pc[a] = "recvClient" /\ pc'[a] = "recvServer" /\ accConn'[a] = accConn[a]
           /\ \E x \in pending' : x.io = <<accConn[a], "client">>
        \/ /\ pc[a] = "recvServer" /\ pc'[a] = "accept"
           /\ \E x \in pending' : x.io = <<accConn[a], "server">>
    <2>1. CASE \/ FirstRecvRefused(a, <<accConn[a], "client">>, accClient[a])
               \/ FirstRecvRefused(a, <<accConn[a], "server">>, accServer[a])
      BY <1>1, <2>1 DEF FirstRecvRefused, Facts
    <2>2. CASE /\ pc[a] = "recvClient" /\ UNCHANGED accVars
               /\ FirstRecv(a, <<accConn[a], "client">>, accClient[a], "recvServer")
      <3>1. [io |-> <<accConn[a], "client">>, kind |-> "READ", ep |-> owner[accClient[a]]] \in pending'
        BY <2>2 DEF FirstRecv, Submit
      <3>2. \E x \in pending' : x.io = <<accConn[a], "client">>
        BY <3>1
      <3> QED
        BY <1>1, <2>2, <3>2 DEF FirstRecv, Facts
    <2>3. CASE /\ pc[a] = "recvServer"
               /\ FirstRecv(a, <<accConn[a], "server">>, accServer[a], "accept")
      <3>1. [io |-> <<accConn[a], "server">>, kind |-> "READ", ep |-> owner[accServer[a]]] \in pending'
        BY <2>3 DEF FirstRecv, Submit
      <3>2. \E x \in pending' : x.io = <<accConn[a], "server">>
        BY <3>1
      <3> QED
        BY <1>1, <2>3, <3>2 DEF FirstRecv, Facts
    <2> QED
      BY <2>1, <2>2, <2>3 DEF RecvClient, RecvServer
  <1>5. \A j \in Endpoint : Busy(j) => Busy(j)'
    BY <1>1 DEF RecvClient, RecvServer, FirstRecv, FirstRecvRefused, Submit, Refuse, Busy
  <1>6. ASSUME NEW h \in Handle, NEW i \in Endpoint, connections'[h] = i[1], connections[h] = i[1],
               running', Watched(i)
        PROVE  Watched(i)'
    <2>1. \A u \in Thread : pc[u] = "close" => pc'[u] = "close" /\ key'[u] = key[u]
      BY <1>1, <1>3
    <2>2. CASE i[1] # accConn[a]
      <3>1. \A b \in Acceptor : accConn[b] = i[1] /\ Registering(b) =>
                accConn'[b] = accConn[b] /\ Registering(b)' /\ pc'[b] = pc[b]
        BY <1>1, <1>3, <2>2 DEF Registering, Facts
      <3> QED
        BY <1>1, <1>5, <1>6, <2>1, <3>1, StaysWatched
    <2>3. CASE i[1] = accConn[a]
      <3>1. i = <<accConn[a], "client">> \/ i = <<accConn[a], "server">>
        BY <2>3 DEF Endpoint, Side
      <3>2. CASE pc'[a] = "close"
        BY <1>4, <2>3, <3>2 DEF Watched, Registering
      <3>3. CASE pc'[a] = "recvServer"
        <4>1. CASE i = <<accConn[a], "client">>
          BY <1>4, <3>3, <4>1 DEF Watched, Active
        <4>2. CASE i = <<accConn[a], "server">>
          BY <1>4, <3>3, <4>2 DEF Watched, Registering
        <4> QED
          BY <3>1, <4>1, <4>2
      <3>4. CASE pc'[a] = "accept"
        <4>1. CASE i = <<accConn[a], "client">>
          <5>1. Active(i)
            BY <1>2, <1>4, <1>6, <3>4, <4>1 DEF Watched
          <5>2. CASE Busy(i)
            BY <1>5, <5>2 DEF Watched, Active, Busy
          <5>3. CASE ~Busy(i)
            BY <1>1, <2>1, <5>1, <5>3 DEF Watched, Active, Busy
          <5> QED
            BY <5>2, <5>3
        <4>2. CASE i = <<accConn[a], "server">>
          BY <1>4, <3>4, <4>2 DEF Watched, Active
        <4> QED
          BY <3>1, <4>1, <4>2
      <3> QED
        BY <1>4, <3>2, <3>3, <3>4
    <2> QED
      BY <2>2, <2>3
  <1> QED
    BY <1>1, <1>6, ActivityStep

\* The worker passes the IOContext on: to the system, or to CloseConnection.
LEMMA WorkerActivity ==
    ASSUME Watching, ~Recycle, NEW w \in Worker, WorkerThread(w), ~CloseConnection(w)
    PROVE  ActivityInv'
  <1>1. /\ Facts /\ w \in Thread /\ w \notin Acceptor
        /\ UNCHANGED <<ioSock, connections, clientSock, serverSock, accConn, mainPc>>
        /\ task \in [Worker -> Packet \cup {None}]
    BY DEF Watching, WorkerThread, Dequeue, Abandoned, HandleEnd, HandleRead, HandleWrite, Post, Facts,
         SocketInv, TeardownInv, TypeOK, ThreadOK
  <1>2. /\ \A t \in Thread : t # w => pc'[t] = pc[t] /\ key'[t] = key[t]
        /\ pc[w] \in {"wait", "handle"}
        /\ \A v \in Worker : v # w => task'[v] = task[v]
    BY <1>1 DEF WorkerThread, Dequeue, Abandoned, HandleEnd, HandleRead, HandleWrite, Post, Facts
  <1>3. \A j : AtAddress(j) = {j}
    BY DEF AtAddress
  <1>4. ASSUME NEW i \in Endpoint, Busy(i), running'
        PROVE  Busy(i)' \/ (pc'[w] = "close" /\ key'[w] = ioSock[i])
    <2>1. running
      BY <1>1, <1>4 DEF running
    <2>2. CASE Dequeue(w)
      <3>1. PICK p \in port : /\ port' = port \ {p} /\ pending' = pending
                              /\ task' = [task EXCEPT ![w] = p] /\ pc[w] = "wait"
        BY <2>1, <2>2 DEF Dequeue
      <3>2. task[w] = None /\ p # None
        BY <3>1, ConstantsAssumption DEF Watching, SocketInv, TeardownInv, TypeOK, ThreadOK, WinsockOK
      <3>3. task'[w] = p
        BY <1>1, <3>1
      <3>4. \A x \in pending \cup port : x \in pending' \cup port' \/ x = p
        BY <3>1
      <3> QED
        BY <1>2, <1>4, <3>2, <3>3, <3>4 DEF Busy
    <2>3. CASE Abandoned(w)
      BY <2>1, <2>3 DEF Abandoned, running, portOpen
    <2>4. CASE HandleEnd(w)
      <3>1. UNCHANGED <<pending, port>> /\ key'[w] = ioSock[task[w].io] /\ pc'[w] = "close"
        BY <1>1, <1>3, <2>4 DEF HandleEnd, Facts
      <3> QED
        BY <1>2, <1>4, <3>1 DEF Busy
    <2>5. CASE HandleRead(w) \/ HandleWrite(w)
      <3>1. PICK kind, h : Post(w, task[w].io, kind, h)
        BY <1>3, <2>5 DEF HandleRead, HandleWrite
      <3>2. port' = port /\ pending \subseteq pending'
        BY <3>1 DEF Post, Submit, Refuse
      <3>3. \/ pc'[w] = "close" /\ key'[w] = ioSock[task[w].io]
            \/ \E x \in pending' : x.io = task[w].io
        <4>1. CASE Submit(task[w].io, kind, h)
          <5>1. [io |-> task[w].io, kind |-> kind, ep |-> owner[h]] \in pending'
            BY <4>1 DEF Submit
          <5> QED
            BY <5>1
        <4>2. CASE ~Submit(task[w].io, kind, h)
          BY <1>1, <3>1, <4>2 DEF Post, Facts
        <4> QED
          BY <4>1, <4>2
      <3> QED
        BY <1>2, <1>4, <3>2, <3>3 DEF Busy
    <2> QED
      BY <2>2, <2>3, <2>4, <2>5 DEF WorkerThread
  <1>5. ASSUME NEW h \in Handle, NEW i \in Endpoint, connections'[h] = i[1], connections[h] = i[1],
               running', Watched(i)
        PROVE  Watched(i)'
    <2>1. CASE Busy(i)
      BY <1>1, <1>4, <1>5, <2>1 DEF Watched, Active, Busy
    <2>2. CASE \E t \in Thread : pc[t] = "close" /\ key[t] = ioSock[i]
      BY <1>1, <1>2, <2>2 DEF Watched, Active
    <2>3. CASE \E a \in Acceptor : /\ accConn[a] = i[1] /\ Registering(a)
                                   /\ i[2] = "client" => pc[a] # "recvServer"
      <3>1. \A a \in Acceptor : pc'[a] = pc[a] /\ accConn'[a] = accConn[a]
        BY <1>1, <1>2 DEF Facts
      <3> QED
        BY <2>3, <3>1 DEF Watched, Registering
    <2> QED
      BY <1>5, <2>1, <2>2, <2>3 DEF Watched, Active, Busy
  <1> QED
    BY <1>1, <1>5, ActivityStep

\* Steps of others: threads stay where they are.
LEMMA OtherActivity ==
    ASSUME Watching, UNCHANGED <<ioSock, clientSock, serverSock, pc, key, task, accConn>>,
           \A h \in Handle : connections'[h] # None => connections'[h] = connections[h],
           \A j \in Endpoint : Busy(j) => Busy(j)'
    PROVE  ActivityInv'
  <1>1. ASSUME NEW h \in Handle, NEW i \in Endpoint, connections'[h] = i[1], connections[h] = i[1],
               running', Watched(i)
        PROVE  Watched(i)'
    BY <1>1, StaysWatched DEF Registering
  <1> QED
    BY <1>1, ActivityStep

LEMMA NextActivity ==
    SocketInv /\ OperationInv /\ ActivityInv /\ ~Recycle /\ [Next]_vars => ActivityInv'
  <1> SUFFICES ASSUME SocketInv, OperationInv, ActivityInv, ~Recycle, [Next]_vars
               PROVE  ActivityInv'
    OBVIOUS
  <1>1. Watching
    <2>1. SocketInv' /\ Facts /\ Facts'
      BY NextSockets, Known, KnownNext DEF SocketInv, TeardownInv
    <2>2. running' => running
      <3>1. CASE \E a \in Acceptor : HandleAccept(a)
        BY <3>1 DEF HandleAccept, Accept, Connected, ConnectFailed, Associate, Insert, RecvClient,
             RecvServer, FirstRecv, FirstRecvRefused, CloseConnection, CloseLookup, CloseClient,
             CloseServer, CleanClient, CleanServer, AcceptorExit, running
      <3>2. CASE \E w \in Worker : WorkerThread(w)
        BY <3>2 DEF WorkerThread, Dequeue, Abandoned, HandleEnd, HandleRead, HandleWrite, Post,
             CloseConnection, CloseLookup, CloseClient, CloseServer, running
      <3>3. CASE Interrupt \/ Shutdown
        BY <3>3 DEF Interrupt, Shutdown, StopRunning, LockConnections, CloseEntry, ClearConnections,
             ClosePort, JoinWorkers, running
      <3>4. CASE Network
        BY <3>4 DEF Network, RecvData, RecvEof, SendDone, IoFailed, Complete, running
      <3>5. CASE UNCHANGED vars
        BY <3>5 DEF running
      <3> QED
        BY <3>1, <3>2, <3>3, <3>4, <3>5 DEF Next
    <2> QED
      BY <2>1, <2>2 DEF Watching
  <1>2. CASE \E a \in Acceptor : HandleAccept(a)
    <2>1. PICK a \in Acceptor : HandleAccept(a)
      BY <1>2
    <2> QED
      BY <1>1, <2>1, AcceptActivity, InsertActivity, RecvActivity, CloseConnectionActivity
         DEF HandleAccept, Thread
  <1>3. CASE \E w \in Worker : WorkerThread(w)
    <2>1. PICK w \in Worker : WorkerThread(w)
      BY <1>3
    <2> QED
      BY <1>1, <2>1, WorkerActivity, CloseConnectionActivity DEF Thread
  <1>4. CASE Interrupt \/ Shutdown \/ UNCHANGED vars
    <2>1. /\ UNCHANGED <<ioSock, clientSock, serverSock, pc, key, task, accConn>>
          /\ \A h \in Handle : connections'[h] # None => connections'[h] = connections[h]
          /\ (\E S : CloseSockets(S)) \/ UNCHANGED <<pending, port>>
      BY <1>4 DEF Interrupt, Shutdown, StopRunning, LockConnections, CloseEntry, ClearConnections,
           ClosePort, JoinWorkers
    <2>2. \A j \in Endpoint : Busy(j) => Busy(j)'
      BY <2>1, CloseSocketsBusy DEF Busy
    <2> QED
      BY <1>1, <2>1, <2>2, OtherActivity
  <1>5. CASE Network
    <2>1. PICK p \in pending : \E s : Complete(p, s)
      BY <1>5 DEF Network, RecvData, RecvEof, SendDone, IoFailed
    <2>2. UNCHANGED <<ioSock, clientSock, serverSock, pc, key, task, accConn, connections>>
      BY <2>1 DEF Complete
    <2>3. \A j \in Endpoint : Busy(j) => Busy(j)'
      <3> SUFFICES ASSUME NEW j \in Endpoint, NEW x \in pending, x.io = j PROVE Busy(j)'
        BY <2>1 DEF Complete, Busy
      <3>1. CASE x # p
        BY <2>1, <3>1 DEF Complete, Busy
      <3>2. CASE x = p
        <4>1. PICK s : Complete(p, s)
          BY <2>1
        <4>2. [io |-> j, status |-> s] \in port'
          BY <3>2, <4>1 DEF Complete
        <4> QED
          BY <4>2 DEF Busy
      <3> QED
        BY <3>1, <3>2
    <2> QED
      BY <1>1, <2>2, <2>3, OtherActivity
  <1> QED
    BY <1>2, <1>3, <1>4, <1>5 DEF Next

\* While the proxy runs, something is under way for both directions of every
\* registered connection, or it is about to be closed (iocp.cpp:93-141, 253-301),
\* for any number of connections and threads, without reuse.
THEOREM NothingForgotten == ~Recycle => (Spec => []NoDirectionForgotten)
  <1> SUFFICES ASSUME ~Recycle PROVE Spec => []NoDirectionForgotten
    OBVIOUS
  <1>1. Init => SocketInv /\ OperationInv /\ ActivityInv
    <2> SUFFICES ASSUME Init PROVE SocketInv /\ OperationInv /\ ActivityInv
      OBVIOUS
    <2>1. SocketInv
      BY InitSockets
    <2>2. OperationInv
      BY <2>1 DEF Init, OperationInv, Exclusive, StartsIdle, Busy, SocketInv
    <2>3. ActivityInv
      BY DEF Init, ActivityInv
    <2> QED
      BY <2>1, <2>2, <2>3
  <1>2. SocketInv /\ OperationInv /\ ActivityInv /\ [Next]_vars
            => (SocketInv /\ OperationInv /\ ActivityInv)'
    BY NextSockets, NextOperations, NextActivity
  <1>3. SocketInv /\ OperationInv /\ ActivityInv => NoDirectionForgotten
    <2> SUFFICES ASSUME SocketInv, ActivityInv, NEW h \in Handle, NEW c, c = connections[h], c # None,
                        running, \A a \in Acceptor : accConn[a] = c => ~Registering(a)
                 PROVE  Active(<<c, "client">>) /\ Active(<<c, "server">>)
      BY DEF NoDirectionForgotten
    <2>1. \A s \in Side : <<c, s>> \in Endpoint
      BY Known DEF Facts, SocketInv, TeardownInv, Endpoint
    <2>2. \A s \in Side : Watched(<<c, s>>)
      BY <2>1 DEF ActivityInv
    <2> QED
      BY <2>2 DEF Watched, Side
  <1> QED
    BY <1>1, <1>2, <1>3, PTL DEF Spec
=============================================================================
