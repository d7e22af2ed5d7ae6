-------------------------- MODULE IOCPManagerProofs --------------------------
(***************************************************************************)
(* Type correctness of the IOCP manager and the exclusive tear-down of a   *)
(* connection, for any number of connections, socket values and threads,   *)
(* and whether or not values and freed memory are reissued; then what      *)
(* becomes of the sockets when values are not reissued.                    *)
(*                                                                         *)
(* The first part takes the actions one by one for TypeOK, the second one  *)
(* for the rest of TeardownInv, the third one for SocketInv.  The tuples   *)
(* of variables are expanded everywhere.                                   *)
(***************************************************************************)
EXTENDS IOCPManager, TLAPS

USE DEF vars, heap, ctxVars, ioVars, accVars, locals, mainVars, sockVars, winsock, traffic, remote

LEMMA InitType == Init => TypeOK
  <1> SUFFICES ASSUME Init PROVE TypeOK
    OBVIOUS
  <1> USE ConstantsAssumption DEF Init
  <1>1. HeapOK
    BY DEF HeapOK
  <1>2. ThreadOK
    BY DEF ThreadOK, Thread, WorkerLabel, AcceptorLabel
  <1>3. AcceptorOK
    BY DEF AcceptorOK, Thread
  <1>4. MainOK
    BY DEF MainOK, MainLabel
  <1>5. WinsockOK
    BY DEF WinsockOK
  <1>6. RemoteOK
    BY DEF RemoteOK
  <1> QED
    BY <1>1, <1>2, <1>3, <1>4, <1>5, <1>6 DEF TypeOK

LEMMA CloseSocketsType ==
    ASSUME WinsockOK, NEW S, CloseSockets(S)
    PROVE  WinsockOK'
  BY DEF WinsockOK, CloseSockets, Overlapped, Packet

LEMMA CloseLookupType ==
    ASSUME TypeOK, NEW t \in Thread, CloseLookup(t)
    PROVE  TypeOK'
  <1> USE ConstantsAssumption DEF TypeOK
  <1>1. HeapOK'
    BY DEF CloseLookup, HeapOK
  <1>2. ThreadOK'
    BY DEF CloseLookup, ThreadOK, HeapOK, AfterClose, Find, Thread, WorkerLabel, AcceptorLabel
  <1>3. AcceptorOK'
    BY DEF CloseLookup, AcceptorOK, ThreadOK, Thread, AfterClose
  <1>4. MainOK'
    BY DEF CloseLookup, MainOK, mutexFree
  <1>5. WinsockOK' /\ RemoteOK'
    BY DEF CloseLookup, WinsockOK, RemoteOK
  <1> QED
    BY <1>1, <1>2, <1>3, <1>4, <1>5

LEMMA CloseClientType ==
    ASSUME TypeOK, NEW t \in Thread, CloseClient(t)
    PROVE  TypeOK'
  <1> USE ConstantsAssumption DEF TypeOK
  <1>1. HeapOK'
    BY DEF CloseClient, HeapOK
  <1>2. ThreadOK'
    BY DEF CloseClient, ThreadOK, HeapOK, AfterClose, Find, Thread, WorkerLabel, AcceptorLabel
  <1>3. AcceptorOK'
    BY DEF CloseClient, AcceptorOK, ThreadOK, Thread, AfterClose
  <1>4. MainOK'
    BY DEF CloseClient, MainOK, mutexFree
  <1>5. WinsockOK' /\ RemoteOK'
    BY CloseSocketsType DEF CloseClient, WinsockOK, RemoteOK
  <1> QED
    BY <1>1, <1>2, <1>3, <1>4, <1>5

LEMMA CloseServerType ==
    ASSUME TypeOK, NEW t \in Thread, CloseServer(t)
    PROVE  TypeOK'
  <1> USE ConstantsAssumption DEF TypeOK
  <1>1. HeapOK'
    BY DEF CloseServer, HeapOK
  <1>2. ThreadOK'
    BY DEF CloseServer, ThreadOK, AfterClose, Thread, WorkerLabel, AcceptorLabel
  <1>3. AcceptorOK'
    BY DEF CloseServer, AcceptorOK, ThreadOK, Thread, AfterClose
  <1>4. MainOK'
    BY DEF CloseServer, MainOK, mutexFree
  <1>5. WinsockOK' /\ RemoteOK'
    BY CloseSocketsType DEF CloseServer, WinsockOK, RemoteOK
  <1> QED
    BY <1>1, <1>2, <1>3, <1>4, <1>5

LEMMA AcceptType ==
    ASSUME TypeOK, NEW a \in Acceptor, Accept(a)
    PROVE  TypeOK'
  <1> USE ConstantsAssumption DEF TypeOK, Accept
  <1>1. HeapOK'
    BY DEF HeapOK
  <1>2. ThreadOK'
    BY DEF ThreadOK, Thread, WorkerLabel, AcceptorLabel
  <1>3. AcceptorOK'
    BY DEF AcceptorOK, ThreadOK, Thread, EndIteration
  <1>4. MainOK'
    BY DEF MainOK, mutexFree
  <1>5. WinsockOK'
    BY DEF WinsockOK, Endpoint, Side
  <1>6. RemoteOK'
    BY DEF RemoteOK
  <1> QED
    BY <1>1, <1>2, <1>3, <1>4, <1>5, <1>6

LEMMA ConnectedType ==
    ASSUME TypeOK, NEW a \in Acceptor, Connected(a)
    PROVE  TypeOK'
  <1> USE ConstantsAssumption DEF TypeOK, Connected
  <1>1. HeapOK'
    BY DEF HeapOK
  <1>2. ThreadOK'
    BY DEF ThreadOK, Thread, WorkerLabel, AcceptorLabel
  <1>3. AcceptorOK'
    BY DEF AcceptorOK, ThreadOK, Thread
  <1>4. MainOK'
    BY DEF MainOK, mutexFree
  <1>5. WinsockOK'
    BY DEF WinsockOK, AcceptorOK, Endpoint, Side
  <1>6. RemoteOK'
    BY DEF RemoteOK
  <1> QED
    BY <1>1, <1>2, <1>3, <1>4, <1>5, <1>6

LEMMA ConnectFailedType ==
    ASSUME TypeOK, NEW a \in Acceptor, ConnectFailed(a)
    PROVE  TypeOK'
  <1> USE ConstantsAssumption DEF TypeOK, ConnectFailed
  <1>1. HeapOK'
    BY DEF HeapOK
  <1>2. ThreadOK'
    BY DEF ThreadOK, Thread, WorkerLabel, AcceptorLabel
  <1>3. AcceptorOK'
    BY DEF AcceptorOK, ThreadOK, Thread, EndIteration
  <1>4. MainOK'
    BY DEF MainOK, mutexFree
  <1>5. WinsockOK'
    BY CloseSocketsType DEF WinsockOK
  <1>6. RemoteOK'
    BY DEF RemoteOK, AcceptorOK
  <1> QED
    BY <1>1, <1>2, <1>3, <1>4, <1>5, <1>6

LEMMA AssociateType ==
    ASSUME TypeOK, NEW a \in Acceptor, Associate(a)
    PROVE  TypeOK'
  <1> USE ConstantsAssumption DEF TypeOK, Associate
  <1>1. HeapOK'
    BY DEF HeapOK
  <1>2. ThreadOK'
    BY DEF ThreadOK, Thread, WorkerLabel, AcceptorLabel
  <1>3. AcceptorOK'
    BY DEF AcceptorOK, ThreadOK, Thread
  <1>4. MainOK'
    BY DEF MainOK, mutexFree
  <1>5. WinsockOK'
    BY DEF WinsockOK
  <1>6. RemoteOK'
    BY DEF RemoteOK, AcceptorOK
  <1> QED
    BY <1>1, <1>2, <1>3, <1>4, <1>5, <1>6

LEMMA InsertType ==
    ASSUME TypeOK, NEW a \in Acceptor, Insert(a)
    PROVE  TypeOK'
  <1> USE ConstantsAssumption DEF TypeOK, Insert
  <1>1. HeapOK'
    BY DEF HeapOK, AcceptorOK, Endpoint, Side
  <1>2. ThreadOK'
    BY DEF ThreadOK, Thread, WorkerLabel, AcceptorLabel
  <1>3. AcceptorOK'
    BY DEF AcceptorOK, ThreadOK, Thread
  <1>4. MainOK'
    BY DEF MainOK, mutexFree
  <1>5. WinsockOK'
    BY DEF WinsockOK
  <1>6. RemoteOK'
    BY DEF RemoteOK
  <1> QED
    BY <1>1, <1>2, <1>3, <1>4, <1>5, <1>6

LEMMA RecvClientType ==
    ASSUME TypeOK, NEW a \in Acceptor, RecvClient(a)
    PROVE  TypeOK'
  <1> USE ConstantsAssumption DEF TypeOK, RecvClient
  <1>1. HeapOK'
    BY DEF HeapOK, AcceptorOK, FirstRecv, FirstRecvRefused, Endpoint, Side
  <1>2. ThreadOK'
    BY DEF ThreadOK, Thread, WorkerLabel, AcceptorLabel, FirstRecv, FirstRecvRefused, AcceptorOK
  <1>3. AcceptorOK'
    BY DEF AcceptorOK, ThreadOK, Thread, FirstRecv, FirstRecvRefused
  <1>4. MainOK'
    BY DEF MainOK, mutexFree, FirstRecv, FirstRecvRefused
  <1>5. WinsockOK'
    BY DEF WinsockOK, FirstRecv, FirstRecvRefused, Submit, Refuse, IsOpen, Overlapped, AcceptorOK, Endpoint, Side
  <1>6. RemoteOK'
    BY DEF RemoteOK, FirstRecv, FirstRecvRefused, Submit, Refuse, IsOpen, WinsockOK, AcceptorOK, Endpoint
  <1> QED
    BY <1>1, <1>2, <1>3, <1>4, <1>5, <1>6

LEMMA RecvServerType ==
    ASSUME TypeOK, NEW a \in Acceptor, RecvServer(a)
    PROVE  TypeOK'
  <1> USE ConstantsAssumption DEF TypeOK, RecvServer
  <1>1. HeapOK'
    BY DEF HeapOK, AcceptorOK, FirstRecv, FirstRecvRefused, Endpoint, Side
  <1>2. ThreadOK'
    BY DEF ThreadOK, Thread, WorkerLabel, AcceptorLabel, FirstRecv, FirstRecvRefused, AcceptorOK
  <1>3. AcceptorOK'
    BY DEF AcceptorOK, ThreadOK, Thread, FirstRecv, FirstRecvRefused, EndIteration
  <1>4. MainOK'
    BY DEF MainOK, mutexFree, FirstRecv, FirstRecvRefused
  <1>5. WinsockOK'
    BY DEF WinsockOK, FirstRecv, FirstRecvRefused, Submit, Refuse, IsOpen, Overlapped, AcceptorOK, Endpoint, Side
  <1>6. RemoteOK'
    BY DEF RemoteOK, FirstRecv, FirstRecvRefused, Submit, Refuse, IsOpen, WinsockOK, AcceptorOK, Endpoint
  <1> QED
    BY <1>1, <1>2, <1>3, <1>4, <1>5, <1>6

LEMMA CleanClientType ==
    ASSUME TypeOK, NEW a \in Acceptor, CleanClient(a)
    PROVE  TypeOK'
  <1> USE ConstantsAssumption DEF TypeOK, CleanClient
  <1>1. HeapOK'
    BY DEF HeapOK
  <1>2. ThreadOK'
    BY DEF ThreadOK, Thread, WorkerLabel, AcceptorLabel
  <1>3. AcceptorOK'
    BY DEF AcceptorOK, ThreadOK, Thread
  <1>4. MainOK'
    BY DEF MainOK, mutexFree
  <1>5. WinsockOK'
    BY CloseSocketsType DEF WinsockOK
  <1>6. RemoteOK'
    BY DEF RemoteOK
  <1> QED
    BY <1>1, <1>2, <1>3, <1>4, <1>5, <1>6

LEMMA CleanServerType ==
    ASSUME TypeOK, NEW a \in Acceptor, CleanServer(a)
    PROVE  TypeOK'
  <1> USE ConstantsAssumption DEF TypeOK, CleanServer
  <1>1. HeapOK'
    BY DEF HeapOK
  <1>2. ThreadOK'
    BY DEF ThreadOK, Thread, WorkerLabel, AcceptorLabel
  <1>3. AcceptorOK'
    BY DEF AcceptorOK, ThreadOK, Thread, EndIteration
  <1>4. MainOK'
    BY DEF MainOK, mutexFree
  <1>5. WinsockOK'
    BY CloseSocketsType DEF WinsockOK
  <1>6. RemoteOK'
    BY DEF RemoteOK
  <1> QED
    BY <1>1, <1>2, <1>3, <1>4, <1>5, <1>6

LEMMA AcceptorExitType ==
    ASSUME TypeOK, NEW a \in Acceptor, AcceptorExit(a)
    PROVE  TypeOK'
  <1> USE ConstantsAssumption DEF TypeOK, AcceptorExit
  <1>1. HeapOK'
    BY DEF HeapOK
  <1>2. ThreadOK'
    BY DEF ThreadOK, Thread, WorkerLabel, AcceptorLabel
  <1>3. AcceptorOK'
    BY DEF AcceptorOK, ThreadOK, Thread
  <1>4. MainOK'
    BY DEF MainOK, mutexFree
  <1>5. WinsockOK'
    BY DEF WinsockOK
  <1>6. RemoteOK'
    BY DEF RemoteOK
  <1> QED
    BY <1>1, <1>2, <1>3, <1>4, <1>5, <1>6

LEMMA DequeueType ==
    ASSUME TypeOK, NEW w \in Worker, Dequeue(w)
    PROVE  TypeOK'
  <1> USE ConstantsAssumption DEF TypeOK, Dequeue
  <1>1. HeapOK'
    BY DEF HeapOK
  <1>2. ThreadOK'
    BY DEF ThreadOK, Thread, WorkerLabel, AcceptorLabel, WinsockOK
  <1>3. AcceptorOK'
    BY DEF AcceptorOK, ThreadOK, Thread
  <1>4. MainOK'
    BY DEF MainOK, mutexFree
  <1>5. WinsockOK'
    BY DEF WinsockOK
  <1>6. RemoteOK'
    BY DEF RemoteOK
  <1> QED
    BY <1>1, <1>2, <1>3, <1>4, <1>5, <1>6

LEMMA AbandonedType ==
    ASSUME TypeOK, NEW w \in Worker, Abandoned(w)
    PROVE  TypeOK'
  <1> USE ConstantsAssumption DEF TypeOK, Abandoned
  <1>1. HeapOK'
    BY DEF HeapOK
  <1>2. ThreadOK'
    BY DEF ThreadOK, Thread, WorkerLabel, AcceptorLabel
  <1>3. AcceptorOK'
    BY DEF AcceptorOK, ThreadOK, Thread
  <1>4. MainOK'
    BY DEF MainOK, mutexFree
  <1>5. WinsockOK'
    BY DEF WinsockOK
  <1>6. RemoteOK'
    BY DEF RemoteOK
  <1> QED
    BY <1>1, <1>2, <1>3, <1>4, <1>5, <1>6

LEMMA HandleEndType ==
    ASSUME TypeOK, NEW w \in Worker, HandleEnd(w)
    PROVE  TypeOK'
  <1> USE ConstantsAssumption DEF TypeOK, HandleEnd
  <1>1. HeapOK'
    BY DEF HeapOK
  <1>2. ThreadOK'
    BY DEF ThreadOK, Thread, WorkerLabel, AcceptorLabel, HeapOK, AtAddress, Packet
  <1>3. AcceptorOK'
    BY DEF AcceptorOK, ThreadOK, Thread
  <1>4. MainOK'
    BY DEF MainOK, mutexFree
  <1>5. WinsockOK'
    BY DEF WinsockOK
  <1>6. RemoteOK'
    BY DEF RemoteOK
  <1> QED
    BY <1>1, <1>2, <1>3, <1>4, <1>5, <1>6

LEMMA AddressType ==
    ASSUME TypeOK, NEW w \in Worker, pc[w] = "handle", NEW i \in AtAddress(task[w].io)
    PROVE  i \in Endpoint
  BY ConstantsAssumption DEF TypeOK, ThreadOK, Thread, AtAddress, Packet

LEMMA PostType ==
    ASSUME TypeOK, NEW w \in Worker, pc[w] = "handle", NEW i \in Endpoint,
           NEW kind \in {"READ", "WRITE"}, NEW h \in Handle \cup {None},
           Post(w, i, kind, h), buffer' \in [Endpoint -> Chunk \cup {None}]
    PROVE  TypeOK'
  <1> USE ConstantsAssumption DEF TypeOK, Post
  <1>1. HeapOK'
    BY DEF HeapOK
  <1>2. ThreadOK'
    BY DEF ThreadOK, HeapOK, Thread, WorkerLabel, AcceptorLabel
  <1>3. AcceptorOK'
    BY DEF AcceptorOK, ThreadOK, Thread
  <1>4. MainOK'
    BY DEF MainOK, mutexFree
  <1>5. WinsockOK'
    BY DEF WinsockOK, Submit, Refuse, IsOpen, Overlapped
  <1>6. RemoteOK'
    BY DEF RemoteOK, WinsockOK, Submit, Refuse, IsOpen, Endpoint
  <1> QED
    BY <1>1, <1>2, <1>3, <1>4, <1>5, <1>6

LEMMA HandleReadType ==
    ASSUME TypeOK, NEW w \in Worker, HandleRead(w)
    PROVE  TypeOK'
  BY AddressType, PostType DEF HandleRead, TypeOK, HeapOK

LEMMA HandleWriteType ==
    ASSUME TypeOK, NEW w \in Worker, HandleWrite(w)
    PROVE  TypeOK'
  BY AddressType, PostType DEF HandleWrite, TypeOK, HeapOK

LEMMA InterruptType ==
    ASSUME TypeOK, Interrupt
    PROVE  TypeOK'
  <1> USE ConstantsAssumption DEF TypeOK, Interrupt
  <1>1. HeapOK'
    BY DEF HeapOK
  <1>2. ThreadOK'
    BY DEF ThreadOK
  <1>3. AcceptorOK'
    BY DEF AcceptorOK
  <1>4. MainOK'
    BY DEF MainOK, mutexFree, MainLabel
  <1>5. WinsockOK'
    BY DEF WinsockOK
  <1>6. RemoteOK'
    BY DEF RemoteOK
  <1> QED
    BY <1>1, <1>2, <1>3, <1>4, <1>5, <1>6

LEMMA StopRunningType ==
    ASSUME TypeOK, StopRunning
    PROVE  TypeOK'
  <1> USE ConstantsAssumption DEF TypeOK, StopRunning
  <1>1. HeapOK'
    BY DEF HeapOK
  <1>2. ThreadOK'
    BY DEF ThreadOK
  <1>3. AcceptorOK'
    BY DEF AcceptorOK
  <1>4. MainOK'
    BY DEF MainOK, mutexFree, MainLabel
  <1>5. WinsockOK'
    BY DEF WinsockOK
  <1>6. RemoteOK'
    BY DEF RemoteOK
  <1> QED
    BY <1>1, <1>2, <1>3, <1>4, <1>5, <1>6

LEMMA LockConnectionsType ==
    ASSUME TypeOK, LockConnections
    PROVE  TypeOK'
  <1> USE ConstantsAssumption DEF TypeOK, LockConnections
  <1>1. HeapOK'
    BY DEF HeapOK
  <1>2. ThreadOK'
    BY DEF ThreadOK
  <1>3. AcceptorOK'
    BY DEF AcceptorOK
  <1>4. MainOK'
    BY DEF MainOK, mutexFree, MainLabel
  <1>5. WinsockOK'
    BY DEF WinsockOK
  <1>6. RemoteOK'
    BY DEF RemoteOK
  <1> QED
    BY <1>1, <1>2, <1>3, <1>4, <1>5, <1>6

LEMMA CloseEntryType ==
    ASSUME TypeOK, CloseEntry
    PROVE  TypeOK'
  <1> USE ConstantsAssumption DEF TypeOK, CloseEntry
  <1>1. HeapOK'
    BY DEF HeapOK
  <1>2. ThreadOK'
    BY DEF ThreadOK
  <1>3. AcceptorOK'
    BY DEF AcceptorOK
  <1>4. MainOK'
    BY DEF MainOK, mutexFree, MainLabel
  <1>5. WinsockOK'
    BY CloseSocketsType DEF WinsockOK
  <1>6. RemoteOK'
    BY DEF RemoteOK
  <1> QED
    BY <1>1, <1>2, <1>3, <1>4, <1>5, <1>6

LEMMA ClearConnectionsType ==
    ASSUME TypeOK, ClearConnections
    PROVE  TypeOK'
  <1> USE ConstantsAssumption DEF TypeOK, ClearConnections
  <1>1. HeapOK'
    BY DEF HeapOK
  <1>2. ThreadOK'
    BY DEF ThreadOK
  <1>3. AcceptorOK'
    BY DEF AcceptorOK
  <1>4. MainOK'
    BY DEF MainOK, mutexFree, MainLabel
  <1>5. WinsockOK'
    BY DEF WinsockOK
  <1>6. RemoteOK'
    BY DEF RemoteOK
  <1> QED
    BY <1>1, <1>2, <1>3, <1>4, <1>5, <1>6

LEMMA ClosePortType ==
    ASSUME TypeOK, ClosePort
    PROVE  TypeOK'
  <1> USE ConstantsAssumption DEF TypeOK, ClosePort
  <1>1. HeapOK'
    BY DEF HeapOK
  <1>2. ThreadOK'
    BY DEF ThreadOK
  <1>3. AcceptorOK'
    BY DEF AcceptorOK
  <1>4. MainOK'
    BY DEF MainOK, mutexFree, MainLabel
  <1>5. WinsockOK'
    BY DEF WinsockOK
  <1>6. RemoteOK'
    BY DEF RemoteOK
  <1> QED
    BY <1>1, <1>2, <1>3, <1>4, <1>5, <1>6

LEMMA JoinWorkersType ==
    ASSUME TypeOK, JoinWorkers
    PROVE  TypeOK'
  <1> USE ConstantsAssumption DEF TypeOK, JoinWorkers
  <1>1. HeapOK'
    BY DEF HeapOK
  <1>2. ThreadOK'
    BY DEF ThreadOK
  <1>3. AcceptorOK'
    BY DEF AcceptorOK
  <1>4. MainOK'
    BY DEF MainOK, mutexFree, MainLabel
  <1>5. WinsockOK'
    BY DEF WinsockOK
  <1>6. RemoteOK'
    BY DEF RemoteOK
  <1> QED
    BY <1>1, <1>2, <1>3, <1>4, <1>5, <1>6

LEMMA RecvDataType ==
    ASSUME TypeOK, NEW p \in pending, RecvData(p)
    PROVE  TypeOK'
  <1> USE ConstantsAssumption DEF TypeOK, RecvData
  <1>1. HeapOK'
    BY DEF HeapOK, Complete, WinsockOK, RemoteOK, Overlapped, Chunk
  <1>2. ThreadOK'
    BY DEF ThreadOK, Complete
  <1>3. AcceptorOK'
    BY DEF AcceptorOK, Complete
  <1>4. MainOK'
    BY DEF MainOK, Complete, mutexFree
  <1>5. WinsockOK'
    BY DEF WinsockOK, Complete, Overlapped, Packet
  <1>6. RemoteOK'
    BY DEF RemoteOK, Complete, WinsockOK, Overlapped
  <1> QED
    BY <1>1, <1>2, <1>3, <1>4, <1>5, <1>6

LEMMA RecvEofType ==
    ASSUME TypeOK, NEW p \in pending, RecvEof(p)
    PROVE  TypeOK'
  <1> USE ConstantsAssumption DEF TypeOK, RecvEof
  <1>1. HeapOK'
    BY DEF HeapOK, Complete
  <1>2. ThreadOK'
    BY DEF ThreadOK, Complete
  <1>3. AcceptorOK'
    BY DEF AcceptorOK, Complete
  <1>4. MainOK'
    BY DEF MainOK, Complete, mutexFree
  <1>5. WinsockOK'
    BY DEF WinsockOK, Complete, Overlapped, Packet
  <1>6. RemoteOK'
    BY DEF RemoteOK, Complete, WinsockOK, Overlapped
  <1> QED
    BY <1>1, <1>2, <1>3, <1>4, <1>5, <1>6

LEMMA SendDoneType ==
    ASSUME TypeOK, NEW p \in pending, SendDone(p)
    PROVE  TypeOK'
  <1> USE ConstantsAssumption DEF TypeOK, SendDone
  <1>1. HeapOK'
    BY DEF HeapOK, Complete
  <1>2. ThreadOK'
    BY DEF ThreadOK, Complete
  <1>3. AcceptorOK'
    BY DEF AcceptorOK, Complete
  <1>4. MainOK'
    BY DEF MainOK, Complete, mutexFree
  <1>5. WinsockOK'
    BY DEF WinsockOK, Complete, Overlapped, Packet
  <1>6. RemoteOK'
    BY DEF RemoteOK, Complete, WinsockOK, HeapOK, Overlapped
  <1> QED
    BY <1>1, <1>2, <1>3, <1>4, <1>5, <1>6

LEMMA IoFailedType ==
    ASSUME TypeOK, NEW p \in pending, IoFailed(p)
    PROVE  TypeOK'
  <1> USE ConstantsAssumption DEF TypeOK, IoFailed
  <1>1. HeapOK'
    BY DEF HeapOK, Complete
  <1>2. ThreadOK'
    BY DEF ThreadOK, Complete
  <1>3. AcceptorOK'
    BY DEF AcceptorOK, Complete
  <1>4. MainOK'
    BY DEF MainOK, Complete, mutexFree
  <1>5. WinsockOK'
    BY DEF WinsockOK, Complete, Overlapped, Packet
  <1>6. RemoteOK'
    BY DEF RemoteOK, Complete, WinsockOK, Overlapped, Endpoint
  <1> QED
    BY <1>1, <1>2, <1>3, <1>4, <1>5, <1>6

-----------------------------------------------------------------------------
(***************************************************************************)
(* Type correctness of the specification.                                  *)
(***************************************************************************)
LEMMA NextType == TypeOK /\ [Next]_vars => TypeOK'
  <1> SUFFICES ASSUME TypeOK, [Next]_vars PROVE TypeOK'
    OBVIOUS
  <1>1. ASSUME NEW a \in Acceptor, HandleAccept(a) PROVE TypeOK'
    BY <1>1, AcceptType, ConnectedType, ConnectFailedType, AssociateType, InsertType,
       RecvClientType, RecvServerType, CleanClientType, CleanServerType, AcceptorExitType,
       CloseLookupType, CloseClientType, CloseServerType
       DEF HandleAccept, CloseConnection, Thread
  <1>2. ASSUME NEW w \in Worker, WorkerThread(w) PROVE TypeOK'
    BY <1>2, DequeueType, AbandonedType, HandleEndType, HandleReadType, HandleWriteType,
       CloseLookupType, CloseClientType, CloseServerType
       DEF WorkerThread, CloseConnection, Thread
  <1>3. CASE Interrupt
    BY <1>3, InterruptType
  <1>4. CASE Shutdown
    BY <1>4, StopRunningType, LockConnectionsType, CloseEntryType, ClearConnectionsType,
       ClosePortType, JoinWorkersType DEF Shutdown
  <1>5. CASE Network
    BY <1>5, RecvDataType, RecvEofType, SendDoneType, IoFailedType DEF Network
  <1>6. CASE UNCHANGED vars
    BY <1>6 DEF TypeOK, HeapOK, ThreadOK, AcceptorOK, MainOK, WinsockOK, RemoteOK, mutexFree
  <1> QED
    BY <1>1, <1>2, <1>3, <1>4, <1>5, <1>6 DEF Next

\* Every reachable state is well typed, the locals in use at each program
\* counter included, for any number of connections, handles and threads.
THEOREM TypeCorrect == Spec => []TypeOK
  BY InitType, NextType, PTL DEF Spec

-----------------------------------------------------------------------------
(***************************************************************************)
(* A connection is torn down once.  TornDownOnce is not inductive: it      *)
(* needs to know that the keys of a context are the two that               *)
(* CloseConnection erases, and that a context about to be entered in       *)
(* connections_ was in no thread's hands before.                           *)
(***************************************************************************)
PreInsert == {"connect", "associate", "insert"}

LEMMA InitTeardown == Init => TeardownInv
  <1> SUFFICES ASSUME Init PROVE TeardownInv
    OBVIOUS
  <1> QED
    BY InitType, ConstantsAssumption
       DEF Init, TeardownInv, TornDownOnce, KeysAreSockets, AcceptedOnce, Untouched, Thread

\* A step that leaves the map, the contexts and the threads' references alone,
\* and starts neither a tear-down nor a registration.
LEMMA TeardownFrame ==
    ASSUME TeardownInv, TypeOK', UNCHANGED <<connections, ref, ctxVars, accConn, accepted>>,
           \A t \in Thread : pc'[t] = "closeClient" => pc[t] = "closeClient",
           \A a \in Acceptor : pc'[a] \in PreInsert => pc[a] \in PreInsert
    PROVE  TeardownInv'
  BY DEF TeardownInv, TornDownOnce, KeysAreSockets, AcceptedOnce, Untouched, PreInsert

\* The same for a step that ends an iteration of the accept loop.
LEMMA TeardownEndIteration ==
    ASSUME TeardownInv, TypeOK', UNCHANGED <<connections, ref, ctxVars, accepted>>,
           NEW a \in Acceptor, EndIteration(a), pc' = [pc EXCEPT ![a] = "accept"]
    PROVE  TeardownInv'
  BY ConstantsAssumption
     DEF TeardownInv, TypeOK, AcceptorOK, ThreadOK, TornDownOnce, KeysAreSockets, AcceptedOnce,
         Untouched, EndIteration, Thread

LEMMA AcceptTeardown ==
    ASSUME TeardownInv, TypeOK', NEW a \in Acceptor, Accept(a)
    PROVE  TeardownInv'
  <1> USE ConstantsAssumption DEF TeardownInv, TypeOK, ThreadOK, AcceptorOK, Thread, Accept
  <1>1. TornDownOnce'
    BY DEF TornDownOnce
  <1>2. KeysAreSockets'
    BY DEF KeysAreSockets
  <1>3. AcceptedOnce'
    BY DEF AcceptedOnce, Untouched
  <1> QED
    BY <1>1, <1>2, <1>3

LEMMA InsertTeardown ==
    ASSUME TeardownInv, TypeOK', NEW a \in Acceptor, Insert(a)
    PROVE  TeardownInv'
  <1> DEFINE c == accConn[a]
  <1> USE ConstantsAssumption DEF TeardownInv, Insert
  <1>1. /\ c \in Conn
        /\ c \in accepted
        /\ Untouched(c)
        /\ \A b \in Acceptor \ {a} : accConn[b] # c
    BY DEF AcceptedOnce, TypeOK, AcceptorOK, ThreadOK
  <1>2. TornDownOnce'
    BY <1>1 DEF TornDownOnce, Untouched, TypeOK, HeapOK, ThreadOK, Thread
  <1>3. KeysAreSockets'
    BY <1>1 DEF KeysAreSockets, Untouched, Entered, TypeOK, HeapOK
  <1>4. AcceptedOnce'
    BY <1>1 DEF AcceptedOnce, Untouched, TypeOK, HeapOK, ThreadOK, Thread
  <1> QED
    BY <1>2, <1>3, <1>4

\* Erased covers every key of the context found.
LEMMA ErasedAll ==
    ASSUME TypeOK, KeysAreSockets, NEW h \in Handle, connections[h] # None,
           NEW g \in Handle, connections[g] = connections[h]
    PROVE  g \in Erased(h)
  BY ConstantsAssumption DEF KeysAreSockets, Erased, Find

LEMMA CloseLookupTeardown ==
    ASSUME TeardownInv, TypeOK', NEW t \in Thread, CloseLookup(t)
    PROVE  TeardownInv'
  <1> USE ConstantsAssumption DEF TeardownInv
  <1>1. CASE Find(key[t]) = None
    <2>1. UNCHANGED <<connections, ref, ctxVars, accConn, accepted>>
      BY <1>1 DEF CloseLookup
    <2>2. pc' = [pc EXCEPT ![t] = AfterClose(t)]
      BY <1>1 DEF CloseLookup
    <2> QED
      BY <2>1, <2>2, TeardownFrame DEF TypeOK, ThreadOK, AfterClose, PreInsert, Thread
  <1>2. CASE Find(key[t]) # None
    <2> DEFINE c == Find(key[t])
    <2>1. /\ key[t] \in Handle
          /\ connections[key[t]] = c
          /\ c \in Conn
      BY <1>2 DEF Find, TypeOK, HeapOK, ThreadOK
    <2>2. \A h \in Handle : connections'[h] = connections[h] \/ connections'[h] = None
      BY <1>2 DEF CloseLookup, TypeOK, HeapOK
    <2>3. \A h \in Handle : connections'[h] # c
      BY <1>2, <2>1, ErasedAll DEF CloseLookup, TypeOK, HeapOK
    <2>4. /\ ref' = [ref EXCEPT ![t] = c]
          /\ pc' = [pc EXCEPT ![t] = "closeClient"]
          /\ UNCHANGED <<ctxVars, accConn, accepted>>
      BY <1>2 DEF CloseLookup
    <2>5. /\ ~closing[c]
          /\ c \in accepted
          /\ \A u \in Thread : ref[u] # c
          /\ \A a \in Acceptor : pc[a] \in PreInsert => accConn[a] # c
      BY <2>1 DEF KeysAreSockets, AcceptedOnce, Untouched, TornDownOnce, PreInsert
    <2>6. TornDownOnce'
      BY <2>1, <2>2, <2>3, <2>4, <2>5 DEF TornDownOnce, TypeOK, ThreadOK
    <2>7. KeysAreSockets'
      BY <2>2, <2>4 DEF KeysAreSockets
    <2>8. AcceptedOnce'
      BY <2>1, <2>2, <2>4, <2>5 DEF AcceptedOnce, Untouched, TypeOK, ThreadOK, PreInsert, Thread
    <2> QED
      BY <2>6, <2>7, <2>8
  <1> QED
    BY <1>1, <1>2

LEMMA CloseClientTeardown ==
    ASSUME TeardownInv, TypeOK', NEW t \in Thread, CloseClient(t)
    PROVE  TeardownInv'
  <1> DEFINE c == ref[t]
  <1> USE ConstantsAssumption DEF TeardownInv
  <1>1. /\ c \in Conn
        /\ ~closing[c]
        /\ c \in accepted
        /\ \A h \in Handle : connections[h] # c
        /\ \A u \in Thread : ref[u] = c => u = t
        /\ \A a \in Acceptor : pc[a] \in PreInsert => accConn[a] # c
    BY DEF CloseClient, TypeOK, ThreadOK, TornDownOnce, AcceptedOnce, Untouched, PreInsert
  <1>2. /\ UNCHANGED <<connections, ref, serverSock, accConn, accepted>>
        /\ pc' = [pc EXCEPT ![t] = "closeServer"]
        /\ closing' = [closing EXCEPT ![c] = TRUE]
        /\ clientSock' = [clientSock EXCEPT ![c] = None]
    BY <1>1 DEF CloseClient
  <1>3. TornDownOnce'
    BY <1>1, <1>2 DEF TornDownOnce, TypeOK, ThreadOK, HeapOK
  <1>4. KeysAreSockets'
    BY <1>1, <1>2 DEF KeysAreSockets, TypeOK, HeapOK
  <1>5. AcceptedOnce'
    BY <1>1, <1>2 DEF AcceptedOnce, Untouched, TypeOK, ThreadOK, HeapOK, PreInsert, Thread
  <1> QED
    BY <1>3, <1>4, <1>5

LEMMA CloseServerTeardown ==
    ASSUME TeardownInv, TypeOK', NEW t \in Thread, CloseServer(t)
    PROVE  TeardownInv'
  <1> USE ConstantsAssumption DEF TeardownInv, CloseServer
  <1>1. ref[t] \in Conn /\ \A h \in Handle : connections[h] # ref[t]
    BY DEF TypeOK, ThreadOK, TornDownOnce
  <1>2. TornDownOnce'
    BY <1>1 DEF TornDownOnce, TypeOK, ThreadOK, AfterClose
  <1>3. KeysAreSockets'
    BY <1>1 DEF KeysAreSockets, TypeOK, HeapOK
  <1>4. AcceptedOnce'
    BY <1>1 DEF AcceptedOnce, Untouched, TypeOK, ThreadOK, AfterClose, Thread
  <1> QED
    BY <1>2, <1>3, <1>4

LEMMA CloseConnectionTeardown ==
    ASSUME TeardownInv, TypeOK', NEW t \in Thread, CloseConnection(t)
    PROVE  TeardownInv'
  BY CloseLookupTeardown, CloseClientTeardown, CloseServerTeardown DEF CloseConnection

LEMMA HandleAcceptTeardown ==
    ASSUME TeardownInv, TypeOK', NEW a \in Acceptor, HandleAccept(a)
    PROVE  TeardownInv'
  <1> USE DEF TeardownInv, TypeOK, ThreadOK, Thread, PreInsert
  <1>1. CASE Accept(a)
    BY <1>1, AcceptTeardown
  <1>2. CASE Connected(a)
    BY <1>2, TeardownFrame DEF Connected
  <1>3. CASE ConnectFailed(a)
    BY <1>3, TeardownEndIteration DEF ConnectFailed
  <1>4. CASE Associate(a)
    BY <1>4, TeardownFrame DEF Associate
  <1>5. CASE Insert(a)
    BY <1>5, InsertTeardown
  <1>6. CASE RecvClient(a)
    BY <1>6, TeardownFrame DEF RecvClient, FirstRecv, FirstRecvRefused
  <1>7. CASE RecvServer(a)
    <2>1. CASE FirstRecv(a, <<accConn[a], "server">>, accServer[a], "accept") /\ EndIteration(a)
      BY <2>1, TeardownEndIteration DEF FirstRecv
    <2>2. CASE FirstRecvRefused(a, <<accConn[a], "server">>, accServer[a])
      BY <2>2, TeardownFrame DEF FirstRecvRefused
    <2> QED
      BY <1>7, <2>1, <2>2 DEF RecvServer
  <1>8. CASE CloseConnection(a)
    BY <1>8, CloseConnectionTeardown
  <1>9. CASE CleanClient(a)
    BY <1>9, TeardownFrame DEF CleanClient
  <1>10. CASE CleanServer(a)
    BY <1>10, TeardownEndIteration DEF CleanServer
  <1>11. CASE AcceptorExit(a)
    BY <1>11, TeardownFrame DEF AcceptorExit
  <1> QED
    BY <1>1, <1>2, <1>3, <1>4, <1>5, <1>6, <1>7, <1>8, <1>9, <1>10, <1>11 DEF HandleAccept

LEMMA WorkerThreadTeardown ==
    ASSUME TeardownInv, TypeOK', NEW w \in Worker, WorkerThread(w)
    PROVE  TeardownInv'
  <1> USE DEF TeardownInv, TypeOK, ThreadOK, Thread, PreInsert
  <1>1. CASE Dequeue(w)
    BY <1>1, TeardownFrame DEF Dequeue
  <1>2. CASE Abandoned(w)
    BY <1>2, TeardownFrame DEF Abandoned
  <1>3. CASE HandleEnd(w)
    BY <1>3, TeardownFrame DEF HandleEnd
  <1>4. CASE HandleRead(w) \/ HandleWrite(w)
    BY <1>4, TeardownFrame DEF HandleRead, HandleWrite, Post
  <1>5. CASE CloseConnection(w)
    BY <1>5, CloseConnectionTeardown
  <1> QED
    BY <1>1, <1>2, <1>3, <1>4, <1>5 DEF WorkerThread

LEMMA NextTeardown == TeardownInv /\ [Next]_vars => TeardownInv'
  <1> SUFFICES ASSUME TeardownInv, [Next]_vars PROVE TeardownInv'
    OBVIOUS
  <1>1. TypeOK'
    BY NextType DEF TeardownInv
  <1>2. CASE \E a \in Acceptor : HandleAccept(a)
    BY <1>1, <1>2, HandleAcceptTeardown
  <1>3. CASE \E w \in Worker : WorkerThread(w)
    BY <1>1, <1>3, WorkerThreadTeardown
  <1>4. CASE Interrupt
    BY <1>1, <1>4, TeardownFrame DEF Interrupt
  <1>5. CASE Shutdown
    <2>1. CASE ClearConnections
      <3>1. /\ \A h \in Handle : connections'[h] = None
            /\ UNCHANGED <<ref, ctxVars, accConn, accepted, pc>>
        BY <2>1 DEF ClearConnections
      <3>2. TornDownOnce' /\ KeysAreSockets'
        BY <3>1, ConstantsAssumption
           DEF TeardownInv, TornDownOnce, KeysAreSockets, TypeOK, ThreadOK
      <3>3. AcceptedOnce'
        BY <3>1, ConstantsAssumption
           DEF TeardownInv, AcceptedOnce, Untouched, TypeOK, AcceptorOK
      <3> QED
        BY <1>1, <3>2, <3>3 DEF TeardownInv
    <2>2. CASE ~ClearConnections
      BY <1>1, <1>5, <2>2, TeardownFrame
         DEF Shutdown, StopRunning, LockConnections, CloseEntry, ClosePort, JoinWorkers
    <2> QED
      BY <2>1, <2>2
  <1>6. CASE Network
    BY <1>1, <1>6, TeardownFrame DEF Network, RecvData, RecvEof, SendDone, IoFailed, Complete
  <1>7. CASE UNCHANGED vars
    BY <1>1, <1>7, TeardownFrame
  <1> QED
    BY <1>2, <1>3, <1>4, <1>5, <1>6, <1>7 DEF Next

\* The keys of connections_ are sockets of their contexts and no context is
\* entered, closed or registered twice (iocp.cpp:93-169), for any numbers of
\* threads and sockets and even if socket values are reissued.
THEOREM TeardownInvariant == Spec => []TeardownInv
  BY InitTeardown, NextTeardown, PTL DEF Spec

\* A connection is torn down by one thread, once, however many workers and
\* accept threads run and even if socket values are reissued meanwhile.
THEOREM TearDownIsExclusive == Spec => []TornDownOnce
  <1>1. TeardownInv => TornDownOnce
    BY DEF TeardownInv
  <1> QED
    BY <1>1, TeardownInvariant, PTL

(***************************************************************************)
(* The sockets, when values are not reissued: connections_ holds pairs of  *)
(* open sockets, and each open socket is held by somebody who will close   *)
(* it.                                                                     *)
(***************************************************************************)
\* The accept thread is in RegisterConnection and has entered the context.
Entering == {"recvClient", "recvServer", "close", "closeClient", "closeServer"}

\* h is the socket of endpoint e, or was closed, or is none.
Named(h, e) == h = None \/ h \in spent \/ (owner[h] # None /\ owner[h] = e)

\* A socket value belongs to one endpoint for ever.
SocketsNamed ==
    /\ \A h \in Handle : owner[h] # None => h \notin spent /\ owner[h][1] \in accepted
    /\ \A c \in Conn : Named(clientSock[c], <<c, "client">>) /\ Named(serverSock[c], <<c, "server">>)
    /\ \A a \in Acceptor : /\ Named(accClient[a], <<accConn[a], "client">>)
                           /\ Named(accServer[a], <<accConn[a], "server">>)

\* What an accept thread has in hand at each point of an iteration.
InHand(a) ==
    /\ pc[a] \in {"accept", "exit"} => accConn[a] = None /\ accClient[a] = None
    /\ pc[a] \in {"accept", "exit", "connect"} => accServer[a] = None
    /\ pc[a] \in PreInsert => accClient[a] \notin spent
    /\ pc[a] \in {"associate", "insert"} => accServer[a] \notin spent
    /\ pc[a] \in Entering => clientSock[accConn[a]] \in {accClient[a], None}
    /\ pc[a] = "close" => key[a] = accClient[a]
    /\ pc[a] \in {"closeClient", "closeServer", "cleanClient", "cleanServer"} =>
        \A h \in Handle : connections[h] # accConn[a]
    /\ pc[a] = "cleanServer" => accClient[a] \in spent

\* Both sockets of an entry are entered and, outside of Shutdown's loop, open.
Paired(c) ==
    /\ clientSock[c] # None /\ serverSock[c] # None /\ clientSock[c] # serverSock[c]
    /\ connections[clientSock[c]] = c /\ connections[serverSock[c]] = c
    /\ mutexFree => clientSock[c] \notin spent /\ serverSock[c] \notin spent

\* The open socket h of connection c is held by somebody who will close it.
Held(h, c) ==
    \/ \E a \in Acceptor : /\ accConn[a] = c /\ h \in {accClient[a], accServer[a]}
                           /\ pc[a] \notin {"recvClient", "recvServer"}
    \/ /\ h \in {clientSock[c], serverSock[c]}
       /\ connections[h] = c \/ \E t \in Thread : ref[t] = c

\* Shutdown's loop has closed what it is done with.
AllVisited ==
    \A h \in Handle, s \in Side :
        connections[h] # None /\ <<h, s>> \notin todo => ~IsOpen(SockOf(connections[h], s))

\* CloseConnection closes the client socket first, Shutdown both of an entry.
Closing ==
    /\ \A t \in Thread : pc[t] = "closeServer" => clientSock[ref[t]] = None
    /\ ~mutexFree => AllVisited

\* The inductive invariant.
SocketInv ==
    /\ TeardownInv
    /\ SocketsNamed
    /\ \A a \in Acceptor : InHand(a)
    /\ \A h \in Handle : connections[h] # None => Paired(connections[h])
    /\ \A h \in Handle : owner[h] # None => Held(h, owner[h][1])
    /\ Closing

-----------------------------------------------------------------------------
(***************************************************************************)
(* What TeardownInv says, in the form the proofs below use.                *)
(***************************************************************************)
Facts ==
    /\ None \notin Conn /\ None \notin Handle /\ None \notin Endpoint
    /\ Acceptor \subseteq Thread /\ Worker \subseteq Thread /\ Worker \cap Acceptor = {}
    /\ connections \in [Handle -> Conn \cup {None}]
    /\ clientSock \in [Conn -> Handle \cup {None}]
    /\ serverSock \in [Conn -> Handle \cup {None}]
    /\ pc \in [Thread -> WorkerLabel \cup AcceptorLabel]
    /\ key \in [Thread -> Handle \cup {None}]
    /\ ref \in [Thread -> Conn \cup {None}]
    /\ accConn \in [Acceptor -> Conn \cup {None}]
    /\ accClient \in [Acceptor -> Handle \cup {None}]
    /\ accServer \in [Acceptor -> Handle \cup {None}]
    /\ owner \in [Handle -> Endpoint \cup {None}] /\ spent \subseteq Handle
    /\ accepted \subseteq Conn
    /\ \A a \in Acceptor : pc[a] \notin {"accept", "exit"} =>
            accConn[a] \in Conn /\ accClient[a] \in Handle
    /\ \A a \in Acceptor : pc[a] \notin {"accept", "exit", "connect"} => accServer[a] \in Handle
    /\ \A t \in Thread : ref[t] # None <=> pc[t] \in {"closeClient", "closeServer"}

LEMMA Known ==
    ASSUME TypeOK
    PROVE  Facts
  BY ConstantsAssumption DEF Facts, TypeOK, HeapOK, ThreadOK, AcceptorOK, WinsockOK, RemoteOK, Thread

LEMMA Pairs ==
    ASSUME NEW e \in Endpoint
    PROVE  e[1] \in Conn /\ e = <<e[1], e[2]>>
  BY DEF Endpoint

\* Sockets are opened on fresh values and closed for ever.
Monotone ==
    \A h \in Handle : /\ h \in spent => h \in spent'
                      /\ owner[h] # None => owner'[h] = owner[h] \/ h \in spent'

LEMMA StaysNamed ==
    ASSUME Monotone, TypeOK, NEW h \in Handle \cup {None}, NEW e \in Endpoint, Named(h, e)
    PROVE  Named(h, e)'
  BY Known DEF Monotone, Named, Facts

LEMMA NamesStay ==
    ASSUME SocketsNamed, TypeOK, TypeOK', Monotone,
           \A h \in Handle : owner'[h] # None => h \notin spent' /\ owner'[h][1] \in accepted',
           \A c \in Conn : clientSock'[c] \in {clientSock[c], None}
                           /\ serverSock'[c] \in {serverSock[c], None},
           \A a \in Acceptor :
              /\ accClient'[a] = None \/ (accClient'[a] = accClient[a] /\ accConn'[a] = accConn[a])
              /\ accServer'[a] = None \/ (accServer'[a] = accServer[a] /\ accConn'[a] = accConn[a])
    PROVE  SocketsNamed'
  <1>1. ASSUME NEW c \in Conn
        PROVE  (Named(clientSock[c], <<c, "client">>) /\ Named(serverSock[c], <<c, "server">>))'
    BY <1>1, Known DEF SocketsNamed, Named, Monotone, Facts
  <1>2. ASSUME NEW a \in Acceptor
        PROVE  (/\ Named(accClient[a], <<accConn[a], "client">>)
                /\ Named(accServer[a], <<accConn[a], "server">>))'
    BY <1>2, Known DEF SocketsNamed, Named, Monotone, Facts
  <1> QED
    BY <1>1, <1>2 DEF SocketsNamed

\* closesocket on sockets of connection c.
ClosesOf(c, S) ==
    /\ Monotone
    /\ \A h \in Handle : owner'[h] # None => owner'[h] = owner[h] /\ h \notin S /\ h \notin spent'
    /\ \A h \in Handle : owner[h] # None /\ owner[h][1] # c => owner'[h] = owner[h] /\ h \notin spent'
    /\ \A h \in Handle : h \in spent' => h \in spent \/ h \in S
    /\ \A h \in S : h \in Handle /\ h \notin spent' => h \notin spent /\ owner[h] = None

LEMMA Closes ==
    ASSUME SocketsNamed, TypeOK, NEW c \in Conn, NEW S, CloseSockets(S),
           \A h \in S : Named(h, <<c, "client">>) \/ Named(h, <<c, "server">>)
    PROVE  ClosesOf(c, S)
  <1>1. /\ owner' = [h \in Handle |-> IF h \in S THEN None ELSE owner[h]]
        /\ spent' = spent \cup {h \in Handle : h \in S /\ owner[h] # None}
    BY DEF CloseSockets
  <1> QED
    BY <1>1, Known DEF ClosesOf, Monotone, SocketsNamed, Named, Facts

\* A step that leaves sockets, contexts and accept threads alone.
LEMMA SocketFrame ==
    ASSUME SocketInv, TeardownInv',
           UNCHANGED <<connections, clientSock, serverSock, accConn, accClient, accServer, owner,
                       spent, accepted, ref, todo>>,
           mutexFree' = mutexFree,
           \A t \in Thread : pc'[t] = "closeServer" <=> pc[t] = "closeServer",
           \A a \in Acceptor : pc'[a] = pc[a] /\ key'[a] = key[a]
    PROVE  SocketInv'
  <1>1. SocketsNamed'
    BY DEF SocketInv, SocketsNamed, Named
  <1>2. \A a \in Acceptor : InHand(a)'
    BY DEF SocketInv, InHand
  <1>3. \A h \in Handle : connections'[h] # None => Paired(connections[h])'
    BY DEF SocketInv, Paired
  <1>4. \A h \in Handle : owner'[h] # None => Held(h, owner[h][1])'
    BY DEF SocketInv, Held
  <1>5. Closing'
    BY DEF SocketInv, Closing, AllVisited, IsOpen, SockOf
  <1> QED
    BY <1>1, <1>2, <1>3, <1>4, <1>5 DEF SocketInv

LEMMA AcceptSockets ==
    ASSUME SocketInv, TeardownInv', ~Recycle, NEW a \in Acceptor, Accept(a)
    PROVE  SocketInv'
  <1>1. PICK c \in Conn \ accepted, h \in Handle :
            /\ owner[h] = None /\ h \notin spent
            /\ owner' = [owner EXCEPT ![h] = <<c, "client">>]
            /\ accepted' = accepted \cup {c}
            /\ accConn' = [accConn EXCEPT ![a] = c]
            /\ accClient' = [accClient EXCEPT ![a] = h]
    BY DEF Accept, Allocatable
  <1>2. /\ pc[a] = "accept" /\ pc' = [pc EXCEPT ![a] = "connect"]
        /\ UNCHANGED <<connections, clientSock, serverSock, accServer, spent, ref, key, mainPc, todo>>
        /\ mainPc \in {"run", "stopping"}
    BY DEF Accept
  <1>3. SocketsNamed /\ Closing /\ InHand(a) /\ TypeOK /\ TypeOK' /\ Facts
    BY Known DEF SocketInv, TeardownInv
  <1>4. accConn[a] = None /\ accClient[a] = None /\ accServer[a] = None
    BY <1>2, <1>3 DEF InHand
  <1>5. \A b \in Acceptor : b # a => /\ pc'[b] = pc[b] /\ accConn'[b] = accConn[b]
                                     /\ accClient'[b] = accClient[b]
    BY <1>1, <1>2, <1>3 DEF Facts
  <1>6. accConn'[a] = c /\ accClient'[a] = h /\ accServer'[a] = None /\ pc'[a] = "connect"
        /\ owner'[h] = <<c, "client">>
    BY <1>1, <1>2, <1>3, <1>4 DEF Facts
  <1>7. \A g \in Handle : g # h => owner'[g] = owner[g]
    BY <1>1, <1>3 DEF Facts
  <1>8. Monotone
    BY <1>1, <1>2, <1>7 DEF Monotone
  <1>9. SocketsNamed'
    <2>1. \A g \in Handle : owner'[g] # None => g \notin spent' /\ owner'[g][1] \in accepted'
      BY <1>1, <1>2, <1>3, <1>6, <1>7 DEF SocketsNamed
    <2>2. ASSUME NEW d \in Conn
          PROVE  (Named(clientSock[d], <<d, "client">>) /\ Named(serverSock[d], <<d, "server">>))'
      BY <1>2, <1>3, <1>8, <2>2 DEF SocketsNamed, Named, Monotone, Facts
    <2>3. ASSUME NEW b \in Acceptor
          PROVE  (/\ Named(accClient[b], <<accConn[b], "client">>)
                  /\ Named(accServer[b], <<accConn[b], "server">>))'
      <3>1. CASE b = a
        <4>1. <<c, "client">> \in Endpoint /\ None \notin Endpoint
          BY <1>1, <1>3 DEF Endpoint, Side, Facts
        <4> QED
          BY <1>6, <3>1, <4>1 DEF Named
      <3>2. CASE b # a
        BY <1>2, <1>3, <1>5, <1>8, <2>3, <3>2 DEF SocketsNamed, Named, Monotone, Facts
      <3> QED
        BY <3>1, <3>2
    <2> QED
      BY <2>1, <2>2, <2>3 DEF SocketsNamed
  <1>10. ASSUME NEW b \in Acceptor PROVE InHand(b)'
    <2>1. CASE b = a
      BY <1>1, <1>2, <1>6, <2>1 DEF InHand, PreInsert, Entering
    <2>2. CASE b # a
      <3>1. InHand(b)
        BY DEF SocketInv
      <3> QED
        BY <1>2, <1>5, <2>2, <3>1 DEF InHand
    <2> QED
      BY <2>1, <2>2
  <1>11. \A g \in Handle : connections'[g] # None => Paired(connections[g])'
    BY <1>2 DEF SocketInv, Paired, mutexFree
  <1>12. ASSUME NEW g \in Handle, owner'[g] # None PROVE Held(g, owner[g][1])'
    <2>1. CASE g = h
      BY <1>6, <2>1 DEF Held
    <2>2. CASE g # h
      <3>1. owner'[g] = owner[g] /\ Held(g, owner[g][1])
        BY <1>7, <1>12, <2>2 DEF SocketInv
      <3>2. owner[g][1] \in Conn
        BY <1>7, <1>12, <1>3, <2>2, Pairs DEF Facts
      <3>3. \A b \in Acceptor : accConn[b] = owner[g][1] => b # a
        BY <1>3, <1>4, <3>2 DEF Facts
      <3> QED
        BY <1>2, <1>5, <3>1, <3>3 DEF Held
    <2> QED
      BY <2>1, <2>2
  <1>13. Closing'
    <2>1. \A t \in Thread : pc'[t] = "closeServer" => pc[t] = "closeServer"
      BY <1>2, <1>3 DEF Facts
    <2>2. mutexFree'
      BY <1>2 DEF mutexFree
    <2> QED
      BY <1>2, <1>3, <2>1, <2>2 DEF Closing
  <1> QED
    BY <1>9, <1>10, <1>11, <1>12, <1>13 DEF SocketInv

LEMMA ConnectedSockets ==
    ASSUME SocketInv, TeardownInv', ~Recycle, NEW a \in Acceptor, Connected(a)
    PROVE  SocketInv'
  <1>1. PICK h \in Handle :
            /\ owner[h] = None /\ h \notin spent
            /\ owner' = [owner EXCEPT ![h] = <<accConn[a], "server">>]
            /\ accServer' = [accServer EXCEPT ![a] = h]
    BY DEF Connected, Allocatable
  <1>2. /\ pc[a] = "connect" /\ pc' = [pc EXCEPT ![a] = "associate"]
        /\ UNCHANGED <<connections, clientSock, serverSock, accConn, accClient, accepted, spent, ref,
                       key, mainPc, todo>>
    BY DEF Connected
  <1>3. SocketsNamed /\ Closing /\ InHand(a) /\ TypeOK /\ TypeOK' /\ Facts
    BY Known DEF SocketInv, TeardownInv
  <1>4. PICK c \in accepted : accConn[a] = c
    BY <1>2, <1>3 DEF SocketInv, TeardownInv, AcceptedOnce, Facts
  <1>5. accServer[a] = None /\ accClient[a] # h /\ \A g \in Handle : connections[g] # c
    BY <1>1, <1>2, <1>3, <1>4 DEF InHand, SocketsNamed, Named, Facts, SocketInv, TeardownInv,
         AcceptedOnce, Untouched, PreInsert
  <1>6. \A b \in Acceptor : b # a => pc'[b] = pc[b] /\ accServer'[b] = accServer[b]
    BY <1>1, <1>2, <1>3 DEF Facts
  <1>7. /\ accServer'[a] = h /\ pc'[a] = "associate" /\ owner'[h] = <<c, "server">>
        /\ owner'[h] # None
    <2>1. <<c, "server">> \in Endpoint
      BY <1>3, <1>4 DEF Endpoint, Side, Facts
    <2> QED
      BY <1>1, <1>2, <1>3, <1>4, <2>1 DEF Facts
  <1>8. \A g \in Handle : g # h => owner'[g] = owner[g]
    BY <1>1, <1>3 DEF Facts
  <1>9. Monotone
    BY <1>1, <1>2, <1>8 DEF Monotone
  <1>10. SocketsNamed'
    <2>1. \A g \in Handle : owner'[g] # None => g \notin spent' /\ owner'[g][1] \in accepted'
      BY <1>1, <1>2, <1>3, <1>4, <1>7, <1>8 DEF SocketsNamed
    <2>2. ASSUME NEW d \in Conn
          PROVE  (Named(clientSock[d], <<d, "client">>) /\ Named(serverSock[d], <<d, "server">>))'
      BY <1>2, <1>3, <1>9, <2>2 DEF SocketsNamed, Named, Monotone, Facts
    <2>3. ASSUME NEW b \in Acceptor
          PROVE  Named(accClient[b], <<accConn[b], "client">>)'
      BY <1>2, <1>3, <1>9, <2>3 DEF SocketsNamed, Named, Monotone, Facts
    <2>4. ASSUME NEW b \in Acceptor
          PROVE  Named(accServer[b], <<accConn[b], "server">>)'
      <3>1. CASE b = a
        BY <1>2, <1>4, <1>7, <3>1 DEF Named
      <3>2. CASE b # a
        BY <1>2, <1>3, <1>6, <1>9, <2>4, <3>2 DEF SocketsNamed, Named, Monotone, Facts
      <3> QED
        BY <3>1, <3>2
    <2> QED
      BY <2>1, <2>2, <2>3, <2>4 DEF SocketsNamed
  <1>11. ASSUME NEW b \in Acceptor PROVE InHand(b)'
    <2>1. CASE b = a
      BY <1>1, <1>2, <1>3, <1>7, <2>1 DEF InHand, PreInsert, Entering
    <2>2. CASE b # a
      <3>1. InHand(b)
        BY DEF SocketInv
      <3> QED
        BY <1>2, <1>6, <2>2, <3>1 DEF InHand
    <2> QED
      BY <2>1, <2>2
  <1>12. \A g \in Handle : connections'[g] # None => Paired(connections[g])'
    BY <1>2 DEF SocketInv, Paired, mutexFree
  <1>13. ASSUME NEW g \in Handle, owner'[g] # None PROVE Held(g, owner[g][1])'
    <2>1. CASE g = h
      BY <1>2, <1>4, <1>7, <2>1 DEF Held
    <2>2. CASE g # h
      <3>1. owner'[g] = owner[g] /\ Held(g, owner[g][1])
        BY <1>8, <1>13, <2>2 DEF SocketInv
      <3>2. g # None
        BY <1>3 DEF Facts
      <3> QED
        BY <1>2, <1>5, <1>6, <1>7, <3>1, <3>2 DEF Held
    <2> QED
      BY <2>1, <2>2
  <1>14. Closing'
    <2>1. \A t \in Thread : pc'[t] = "closeServer" => pc[t] = "closeServer"
      BY <1>2, <1>3 DEF Facts
    <2>2. connections[h] = None
      <3>1. h \in {clientSock[connections[h]], serverSock[connections[h]]} \/ connections[h] = None
        BY DEF SocketInv, TeardownInv, KeysAreSockets
      <3>2. connections[h] \in Conn \cup {None}
        BY <1>3 DEF Facts
      <3> QED
        BY <1>1, <1>3, <3>1, <3>2 DEF SocketsNamed, Named, Facts
    <2>3. ASSUME AllVisited PROVE AllVisited'
      <3> SUFFICES ASSUME NEW g \in Handle, NEW s \in Side,
                          connections[g] # None, <<g, s>> \notin todo
                   PROVE  ~IsOpen(SockOf(connections[g], s))'
        BY <1>2 DEF AllVisited
      <3>1. PICK d \in Conn : d = connections[g]
        BY <1>3 DEF Facts
      <3>2. SockOf(d, s) # h
        BY <1>1, <1>3 DEF SocketsNamed, Named, SockOf, Facts
      <3>3. ~IsOpen(SockOf(d, s))
        BY <2>3, <3>1 DEF AllVisited
      <3>4. SockOf(d, s) \in Handle \cup {None} /\ UNCHANGED SockOf(d, s)
        BY <1>2, <1>3 DEF SockOf, Facts
      <3> QED
        BY <1>2, <1>8, <3>1, <3>2, <3>3, <3>4 DEF IsOpen
    <2> QED
      BY <1>2, <1>3, <2>1, <2>3 DEF Closing, mutexFree
  <1> QED
    BY <1>10, <1>11, <1>12, <1>13, <1>14 DEF SocketInv

\* Steps that change nothing but the label of an accept thread.
LEMMA LabelSockets ==
    ASSUME SocketInv, TeardownInv', NEW a \in Acceptor, Associate(a) \/ AcceptorExit(a)
    PROVE  SocketInv'
  <1>1. /\ UNCHANGED <<connections, clientSock, serverSock, accConn, accClient, accServer, owner,
                       spent, accepted, ref, key, mainPc, todo>>
        /\ \/ pc[a] = "associate" /\ pc' = [pc EXCEPT ![a] = "insert"]
           \/ pc[a] = "associate" /\ pc' = [pc EXCEPT ![a] = "cleanClient"]
           \/ pc[a] = "accept" /\ pc' = [pc EXCEPT ![a] = "exit"]
    BY DEF Associate, AcceptorExit
  <1>2. Facts
    BY Known DEF SocketInv, TeardownInv
  <1>3. /\ \A t \in Thread : t # a => pc'[t] = pc[t]
        /\ \/ pc[a] = "associate" /\ pc'[a] \in {"insert", "cleanClient"}
           \/ pc[a] = "accept" /\ pc'[a] = "exit"
    <2>1. a \in Thread /\ pc \in [Thread -> WorkerLabel \cup AcceptorLabel]
      BY <1>2 DEF Facts
    <2> QED
      BY <1>1, <2>1
  <1>4. pc[a] = "associate" => \A h \in Handle : connections[h] # accConn[a]
    BY DEF SocketInv, TeardownInv, AcceptedOnce, Untouched
  <1>5. SocketsNamed'
    BY <1>1 DEF SocketInv, SocketsNamed, Named
  <1>6. ASSUME NEW b \in Acceptor PROVE InHand(b)'
    <2>1. InHand(b)
      BY DEF SocketInv
    <2>2. CASE b = a
      BY <1>1, <1>3, <1>4, <2>1, <2>2 DEF InHand, PreInsert, Entering
    <2>3. CASE b # a
      BY <1>1, <1>2, <1>3, <2>1, <2>3 DEF InHand, Facts
    <2> QED
      BY <2>2, <2>3
  <1>7. \A h \in Handle : connections'[h] # None => Paired(connections[h])'
    BY <1>1 DEF SocketInv, Paired, mutexFree
  <1>8. \A h \in Handle : owner'[h] # None => Held(h, owner[h][1])'
    BY <1>1, <1>2, <1>3 DEF SocketInv, Held, Facts
  <1>9. Closing'
    BY <1>1, <1>2, <1>3 DEF SocketInv, Closing, Facts, mutexFree, AllVisited, IsOpen, SockOf
  <1> QED
    BY <1>5, <1>6, <1>7, <1>8, <1>9 DEF SocketInv

LEMMA InsertSockets ==
    ASSUME SocketInv, TeardownInv', NEW a \in Acceptor, Insert(a)
    PROVE  SocketInv'
  <1>1. PICK c, h, g : c = accConn[a] /\ h = accClient[a] /\ g = accServer[a]
    OBVIOUS
  <1>2. SocketsNamed /\ Closing /\ InHand(a) /\ TypeOK /\ TypeOK' /\ Facts
    BY Known DEF SocketInv, TeardownInv
  <1>3. /\ pc[a] = "insert" /\ pc' = [pc EXCEPT ![a] = "recvClient"] /\ mutexFree
        /\ UNCHANGED <<accConn, accClient, accServer, owner, spent, accepted, ref, key, mainPc, todo>>
    BY DEF Insert
  <1>4. /\ clientSock' = [clientSock EXCEPT ![c] = h]
        /\ serverSock' = [serverSock EXCEPT ![c] = g]
        /\ connections' = [f \in Handle |-> IF f \in {h, g} THEN c ELSE connections[f]]
    BY <1>1 DEF Insert, Entered
  <1>5. /\ c \in Conn /\ h \in Handle /\ g \in Handle
        /\ h \notin spent /\ g \notin spent
        /\ \A f \in Handle : connections[f] # c
        /\ \A t \in Thread : ref[t] # c
        /\ \A b \in Acceptor : accConn[b] = c => b = a
    BY <1>1, <1>2, <1>3 DEF Facts, InHand, SocketInv, TeardownInv, AcceptedOnce, Untouched, PreInsert
  <1>6. owner[h] = <<c, "client">> /\ owner[g] = <<c, "server">> /\ h # g /\ h # None /\ g # None
        /\ owner[h] # None /\ owner[g] # None
    BY <1>1, <1>2, <1>5 DEF SocketsNamed, Named, Facts
  <1>7. /\ clientSock'[c] = h /\ serverSock'[c] = g /\ connections'[h] = c /\ connections'[g] = c
        /\ \A d \in Conn : d # c => clientSock'[d] = clientSock[d] /\ serverSock'[d] = serverSock[d]
        /\ \A f \in Handle : f \notin {h, g} => connections'[f] = connections[f]
    BY <1>2, <1>4, <1>5 DEF Facts
  <1>8. \A t \in Thread : t # a => pc'[t] = pc[t]
    BY <1>2, <1>3 DEF Facts
  <1>9. pc'[a] = "recvClient"
    BY <1>2, <1>3 DEF Facts
  <1>10. SocketsNamed'
    <2>1. ASSUME NEW d \in Conn
          PROVE  (Named(clientSock[d], <<d, "client">>) /\ Named(serverSock[d], <<d, "server">>))'
      <3>1. CASE d = c
        BY <1>3, <1>6, <1>7, <3>1, <1>2, <1>5 DEF Named
      <3>2. CASE d # c
        BY <1>2, <1>3, <1>7, <2>1, <3>2 DEF SocketsNamed, Named
      <3> QED
        BY <3>1, <3>2
    <2> QED
      BY <1>2, <1>3, <2>1 DEF SocketsNamed, Named
  <1>11. ASSUME NEW b \in Acceptor PROVE InHand(b)'
    <2>1. InHand(b)
      BY DEF SocketInv
    <2>2. CASE b = a
      BY <1>1, <1>3, <1>7, <1>9, <2>2 DEF InHand, PreInsert, Entering
    <2>3. CASE b # a
      <3>1. /\ accConn[b] # c /\ pc'[b] = pc[b]
            /\ pc[b] \notin {"accept", "exit"} => accConn[b] \in Conn
        BY <1>2, <1>5, <1>8, <2>3 DEF Facts
      <3>2. pc[b] \in Entering => clientSock'[accConn[b]] = clientSock[accConn[b]]
        BY <1>7, <3>1 DEF Entering
      <3>3. (\A f \in Handle : connections[f] # accConn[b])
               => \A f \in Handle : connections'[f] # accConn[b]
        BY <1>4, <3>1
      <3> QED
        BY <1>3, <2>1, <3>1, <3>2, <3>3 DEF InHand
    <2> QED
      BY <2>2, <2>3
  <1>12. ASSUME NEW f \in Handle, connections'[f] # None PROVE Paired(connections[f])'
    <2>1. CASE connections'[f] = c
      BY <1>3, <1>5, <1>6, <1>7, <2>1 DEF Paired
    <2>2. CASE connections'[f] # c
      <3>1. PICK d \in Conn : d # c /\ connections'[f] = d /\ connections[f] = d
        BY <1>2, <1>4, <1>12, <2>2 DEF Facts
      <3>2. Paired(d)
        BY <1>2, <3>1 DEF SocketInv, Facts
      <3>3. clientSock[d] \in Handle /\ serverSock[d] \in Handle
        BY <1>2, <3>1, <3>2 DEF Paired, Facts
      <3>4. clientSock[d] \notin {h, g} /\ serverSock[d] \notin {h, g}
        <4>1. owner[clientSock[d]] = <<d, "client">> /\ owner[serverSock[d]] = <<d, "server">>
          BY <1>2, <1>3, <3>1, <3>2 DEF Paired, SocketsNamed, Named
        <4> QED
          BY <1>6, <3>1, <4>1
      <3> QED
        BY <1>3, <1>7, <3>1, <3>2, <3>3, <3>4 DEF Paired, mutexFree
    <2> QED
      BY <2>1, <2>2
  <1>13. ASSUME NEW f \in Handle, owner'[f] # None PROVE Held(f, owner[f][1])'
    <2>1. owner[f] # None /\ owner'[f] = owner[f]
      BY <1>3, <1>13
    <2>2. owner[f][1] \in Conn
      BY <1>2, <2>1, Pairs DEF Facts
    <2>3. Held(f, owner[f][1])
      BY <2>1 DEF SocketInv
    <2>4. CASE owner[f][1] = c
      BY <1>1, <1>3, <1>5, <1>7, <1>2, <2>1, <2>3, <2>4, <1>9 DEF Held, Facts
    <2>5. CASE owner[f][1] # c
      <3>1. f \notin {h, g}
        BY <1>6, <2>5
      <3>2. \A b \in Acceptor : accConn[b] = owner[f][1] => b # a /\ pc'[b] = pc[b]
        BY <1>1, <1>2, <1>8, <2>5 DEF Facts
      <3> QED
        BY <1>3, <1>7, <2>1, <2>2, <2>3, <2>5, <3>1, <3>2 DEF Held
    <2> QED
      BY <2>4, <2>5
  <1>14. Closing'
    <2>1. ASSUME NEW t \in Thread, pc'[t] = "closeServer" PROVE clientSock'[ref'[t]] = None
      <3>1. t # a /\ pc[t] = "closeServer" /\ ref[t] \in Conn /\ ref[t] # c
        BY <1>2, <1>5, <1>8, <1>9, <2>1 DEF Facts
      <3> QED
        BY <1>2, <1>3, <1>7, <3>1 DEF Closing
    <2> QED
      BY <1>3, <2>1 DEF Closing, mutexFree
  <1> QED
    BY <1>10, <1>11, <1>12, <1>13, <1>14 DEF SocketInv

\* The first WSARecv of either direction, and the end of RegisterConnection.
LEMMA RecvSockets ==
    ASSUME SocketInv, TeardownInv', NEW a \in Acceptor, RecvClient(a) \/ RecvServer(a)
    PROVE  SocketInv'
  <1>1. UNCHANGED <<connections, clientSock, serverSock, owner, spent, accepted, ref, mainPc, todo>>
    BY DEF RecvClient, RecvServer, FirstRecv, FirstRecvRefused
  <1>2. SocketsNamed /\ Closing /\ InHand(a) /\ TypeOK /\ TypeOK' /\ Facts
    BY Known DEF SocketInv, TeardownInv
  <1>3. \/ /\ pc[a] = "recvClient" /\ pc' = [pc EXCEPT ![a] = "recvServer"]
           /\ UNCHANGED <<accConn, accClient, accServer, key>>
        \/ /\ pc[a] \in {"recvClient", "recvServer"} /\ pc' = [pc EXCEPT ![a] = "close"]
           /\ key' = [key EXCEPT ![a] = accClient[a]]
           /\ UNCHANGED <<accConn, accClient, accServer>>
        \/ /\ pc[a] = "recvServer" /\ pc' = [pc EXCEPT ![a] = "accept"]
           /\ UNCHANGED key /\ EndIteration(a)
    BY DEF RecvClient, RecvServer, FirstRecv, FirstRecvRefused
  <1>4. \A t \in Thread : t # a => pc'[t] = pc[t] /\ key'[t] = key[t]
    BY <1>2, <1>3 DEF Facts
  <1>5. \A b \in Acceptor : b # a => /\ accConn'[b] = accConn[b] /\ accClient'[b] = accClient[b]
                                     /\ accServer'[b] = accServer[b]
    BY <1>2, <1>3 DEF Facts, EndIteration
  <1>6. \/ /\ pc'[a] = "recvServer" \/ (pc'[a] = "close" /\ key'[a] = accClient[a])
           /\ UNCHANGED <<accConn, accClient, accServer>>
        \/ pc'[a] = "accept" /\ accConn'[a] = None /\ accClient'[a] = None /\ accServer'[a] = None
    BY <1>2, <1>3 DEF Facts, EndIteration
  <1>7. pc[a] \in {"recvClient", "recvServer"}
    BY <1>3
  <1>8. SocketsNamed'
    <2>1. \A h \in Handle : owner'[h] # None => h \notin spent' /\ owner'[h][1] \in accepted'
      BY <1>1, <1>2 DEF SocketsNamed
    <2>2. \A c \in Conn : Named(clientSock[c], <<c, "client">>)' /\ Named(serverSock[c], <<c, "server">>)'
      BY <1>1, <1>2 DEF SocketsNamed, Named
    <2>3. ASSUME NEW b \in Acceptor
          PROVE  Named(accClient[b], <<accConn[b], "client">>)' /\ Named(accServer[b], <<accConn[b], "server">>)'
      <3>1. CASE accConn'[b] = accConn[b] /\ accClient'[b] = accClient[b] /\ accServer'[b] = accServer[b]
        BY <1>1, <1>2, <3>1 DEF SocketsNamed, Named
      <3>2. CASE accClient'[b] = None /\ accServer'[b] = None
        BY <3>2 DEF Named
      <3> QED
        BY <1>5, <1>6, <3>1, <3>2
    <2> QED
      BY <2>1, <2>2, <2>3 DEF SocketsNamed
  <1>9. ASSUME NEW b \in Acceptor PROVE InHand(b)'
    <2>1. InHand(b)
      BY DEF SocketInv
    <2>2. CASE b = a
      BY <1>1, <1>6, <1>7, <2>1, <2>2 DEF InHand, PreInsert, Entering
    <2>3. CASE b # a
      BY <1>1, <1>2, <1>4, <1>5, <2>1, <2>3 DEF InHand, Facts
    <2> QED
      BY <2>2, <2>3
  <1>10. \A h \in Handle : connections'[h] # None => Paired(connections[h])'
    BY <1>1 DEF SocketInv, Paired, mutexFree
  <1>11. ASSUME NEW h \in Handle, owner'[h] # None PROVE Held(h, owner[h][1])'
    <2>1. Held(h, owner[h][1])
      BY <1>1, <1>11 DEF SocketInv
    <2>2. \A b \in Acceptor : pc[b] \notin {"recvClient", "recvServer"} => b # a /\ pc'[b] = pc[b]
      BY <1>2, <1>4, <1>7 DEF Facts
    <2> QED
      BY <1>1, <1>5, <2>1, <2>2 DEF Held
  <1>12. Closing'
    <2>1. \A t \in Thread : pc'[t] = "closeServer" => pc[t] = "closeServer"
      BY <1>4, <1>6
    <2> QED
      BY <1>1, <1>2, <2>1 DEF Closing, mutexFree, AllVisited, IsOpen, SockOf
  <1> QED
    BY <1>8, <1>9, <1>10, <1>11, <1>12 DEF SocketInv

-----------------------------------------------------------------------------
(***************************************************************************)
(* Closing.                                                                *)
(***************************************************************************)

\* CloseConnection finds nothing, or erases the pair it found.
LEMMA CloseLookupSockets ==
    ASSUME SocketInv, TeardownInv', NEW t \in Thread, CloseLookup(t)
    PROVE  SocketInv'
  <1>1. /\ UNCHANGED <<clientSock, serverSock, owner, spent, accepted, accConn, accClient, accServer,
                       mainPc, todo>>
        /\ pc[t] = "close" /\ mutexFree
    BY DEF CloseLookup
  <1>2. SocketsNamed /\ Closing /\ TypeOK /\ TypeOK' /\ Facts
    BY Known DEF SocketInv, TeardownInv
  <1>3. SocketsNamed'
    BY <1>1, <1>2 DEF SocketsNamed, Named
  <1>4. \A u \in Thread : u # t => pc'[u] = pc[u] /\ key'[u] = key[u] /\ ref'[u] = ref[u]
    BY <1>2 DEF CloseLookup, Facts
  <1>5. ref[t] = None
    BY <1>1, <1>2 DEF Facts
  <1>6. mutexFree'
    BY <1>1 DEF mutexFree
  <1>7. t \in Acceptor => key[t] = accClient[t] /\ accConn[t] \in Conn /\ accClient[t] \in Handle
    BY <1>1, <1>2 DEF SocketInv, InHand, Facts
  <1>8. CASE Find(key[t]) = None
    <2>1. UNCHANGED <<connections, ref>> /\ pc'[t] = AfterClose(t)
      BY <1>2, <1>8 DEF CloseLookup, Facts
    <2>2. pc'[t] \in {"cleanClient", "wait", "exit"} /\ (t \in Acceptor => pc'[t] = "cleanClient")
      BY <2>1 DEF AfterClose
    <2>3. ASSUME NEW b \in Acceptor PROVE InHand(b)'
      <3>1. InHand(b)
        BY DEF SocketInv
      <3>2. CASE b = t
        <4>1. connections[accClient[b]] = None
          BY <1>2, <1>7, <1>8, <3>2 DEF Find, Facts
        <4>2. ASSUME NEW h \in Handle, connections[h] = accConn[b] PROVE FALSE
          <5>1. Paired(accConn[b])
            BY <1>2, <1>7, <3>2, <4>2 DEF SocketInv, Facts
          <5>2. clientSock[accConn[b]] = accClient[b]
            BY <1>1, <3>1, <3>2, <5>1 DEF InHand, Entering, Paired
          <5> QED
            BY <1>2, <1>7, <3>2, <4>1, <5>1, <5>2 DEF Paired, Facts
        <4> QED
          BY <1>1, <2>1, <2>2, <3>1, <3>2, <4>2 DEF InHand, PreInsert, Entering
      <3>3. CASE b # t
        BY <1>1, <1>2, <1>4, <2>1, <3>1, <3>3 DEF InHand, Facts
      <3> QED
        BY <3>2, <3>3
    <2>4. \A h \in Handle : connections'[h] # None => Paired(connections[h])'
      BY <1>1, <2>1 DEF SocketInv, Paired, mutexFree
    <2>5. ASSUME NEW h \in Handle, owner'[h] # None PROVE Held(h, owner[h][1])'
      <3>1. Held(h, owner[h][1])
        BY <1>1, <2>5 DEF SocketInv
      <3>2. \A b \in Acceptor : pc[b] \notin {"recvClient", "recvServer"} =>
                pc'[b] \notin {"recvClient", "recvServer"}
        BY <1>2, <1>4, <2>2 DEF Facts
      <3> QED
        BY <1>1, <2>1, <3>1, <3>2 DEF Held
    <2>6. Closing'
      BY <1>1, <1>2, <1>4, <1>6, <2>1, <2>2 DEF Closing
    <2> QED
      BY <1>3, <2>3, <2>4, <2>5, <2>6 DEF SocketInv
  <1>9. CASE Find(key[t]) # None
    <2>1. PICK c \in Conn : c = Find(key[t]) /\ c = connections[key[t]] /\ key[t] \in Handle
      BY <1>2, <1>9 DEF Find, Facts
    <2>2. /\ connections' = [h \in Handle |-> IF h \in Erased(key[t]) THEN None ELSE connections[h]]
          /\ ref'[t] = c /\ pc'[t] = "closeClient"
      BY <1>2, <1>9, <2>1 DEF CloseLookup, Facts
    <2>3. Paired(c)
      BY <2>1, <1>2 DEF SocketInv, Facts
    <2>4. key[t] \in {clientSock[c], serverSock[c]}
      BY <2>1, <1>2 DEF SocketInv, TeardownInv, KeysAreSockets, Facts
    <2>5. Erased(key[t]) = {clientSock[c], serverSock[c]}
      BY <2>1, <2>3, <2>4 DEF Erased, Paired
    <2>6. /\ \A h \in Handle : connections[h] = c => h \in {clientSock[c], serverSock[c]}
          /\ \A h \in Handle : h \in {clientSock[c], serverSock[c]} => connections[h] = c
      <3>1. \A h \in Handle : connections[h] = c => h \in {clientSock[c], serverSock[c]}
        BY <1>2, <2>1 DEF SocketInv, TeardownInv, KeysAreSockets, Facts
      <3> QED
        BY <2>3, <3>1 DEF Paired
    <2>7. \A h \in Handle : /\ connections[h] = c => connections'[h] = None
                            /\ connections[h] # c => connections'[h] = connections[h]
      BY <2>2, <2>5, <2>6
    <2>8. ASSUME NEW b \in Acceptor PROVE InHand(b)'
      <3>1. InHand(b)
        BY DEF SocketInv
      <3>2. CASE b = t
        <4>1. owner[key[t]] \in {<<c, "client">>, <<c, "server">>} /\ key[t] \notin spent
          BY <1>1, <1>2, <2>3, <2>4 DEF Paired, SocketsNamed, Named
        <4>2. accConn[b] = c
          BY <1>2, <1>7, <3>2, <4>1 DEF SocketsNamed, Named, Facts
        <4>3. \A h \in Handle : connections'[h] # accConn'[b]
          BY <1>1, <1>2, <2>1, <2>7, <4>2 DEF Facts
        <4> QED
          BY <1>1, <2>2, <3>1, <3>2, <4>3 DEF InHand, PreInsert, Entering
      <3>3. CASE b # t
        <4>1. pc[b] \in {"closeClient", "closeServer", "cleanClient", "cleanServer"} =>
                  accConn[b] \in Conn
          BY <1>2 DEF Facts
        <4>2. (\A h \in Handle : connections[h] # accConn[b]) /\ accConn[b] \in Conn =>
                  \A h \in Handle : connections'[h] # accConn[b]
          BY <1>2, <2>7 DEF Facts
        <4>3. pc'[b] = pc[b] /\ key'[b] = key[b]
          BY <1>2, <1>4, <3>3 DEF Facts
        <4> QED
          BY <1>1, <3>1, <4>1, <4>2, <4>3 DEF InHand
      <3> QED
        BY <3>2, <3>3
    <2>9. ASSUME NEW h \in Handle, connections'[h] # None PROVE Paired(connections[h])'
      <3>1. PICK d \in Conn : d # c /\ connections'[h] = d /\ connections[h] = d
        BY <1>2, <2>7, <2>9 DEF Facts
      <3>2. Paired(d) /\ clientSock[d] \in Handle /\ serverSock[d] \in Handle
        BY <1>2, <3>1 DEF SocketInv, Facts, Paired
      <3> QED
        BY <1>1, <2>7, <3>1, <3>2 DEF Paired, mutexFree
    <2>10. ASSUME NEW h \in Handle, owner'[h] # None PROVE Held(h, owner[h][1])'
      <3>1. Held(h, owner[h][1])
        BY <1>1, <2>10 DEF SocketInv
      <3>2. \A b \in Acceptor : pc[b] \notin {"recvClient", "recvServer"} =>
                pc'[b] \notin {"recvClient", "recvServer"}
        BY <1>2, <1>4, <2>2 DEF Facts
      <3>3. \A d : (\E u \in Thread : ref[u] = d) /\ d # None => \E u \in Thread : ref'[u] = d
        BY <1>4, <1>5
      <3>4. owner[h][1] \in Conn /\ owner[h][1] # None
        BY <1>1, <1>2, <2>10, Pairs DEF Facts
      <3>5. connections[h] = owner[h][1] => connections'[h] = owner[h][1] \/ ref'[t] = owner[h][1]
        BY <2>2, <2>7
      <3> QED
        BY <1>1, <3>1, <3>2, <3>3, <3>4, <3>5 DEF Held
    <2>11. Closing'
      BY <1>1, <1>2, <1>4, <1>6, <2>2 DEF Closing
    <2> QED
      BY <1>3, <2>8, <2>9, <2>10, <2>11 DEF SocketInv
  <1> QED
    BY <1>8, <1>9

\* Sockets of a connection without entries are closed: what is true of the
\* others stays true.
LEMMA ClosedAside ==
    ASSUME SocketInv, TypeOK', NEW c \in Conn, NEW S, ClosesOf(c, S),
           \A h \in Handle : connections[h] # c,
           UNCHANGED <<connections, accepted, mainPc, todo>>,
           \A d \in Conn : clientSock'[d] = clientSock[d] \/ (d = c /\ clientSock'[d] = None),
           \A d \in Conn : serverSock'[d] = serverSock[d] \/ (d = c /\ serverSock'[d] = None),
           \A a \in Acceptor :
              /\ accClient'[a] = None \/ (accClient'[a] = accClient[a] /\ accConn'[a] = accConn[a])
              /\ accServer'[a] = None \/ (accServer'[a] = accServer[a] /\ accConn'[a] = accConn[a])
    PROVE  /\ SocketsNamed'
           /\ \A h \in Handle : connections'[h] # None => Paired(connections[h])'
           /\ ~mutexFree' => AllVisited'
           /\ \A a \in Acceptor : accConn[a] # c =>
                /\ accClient[a] \notin spent => accClient[a] \notin spent'
                /\ accServer[a] \notin spent => accServer[a] \notin spent'
  <1>1. SocketsNamed /\ Closing /\ TypeOK /\ Facts /\ Monotone
    BY Known DEF SocketInv, TeardownInv, ClosesOf
  <1>2. \A h \in Handle : owner'[h] # None => h \notin spent' /\ owner'[h][1] \in accepted'
    BY <1>1 DEF SocketsNamed, ClosesOf
  <1>3. SocketsNamed'
    BY <1>1, <1>2, NamesStay
  <1>4. ASSUME NEW h \in Handle, connections'[h] # None PROVE Paired(connections[h])'
    <2>1. PICK d \in Conn : d # c /\ connections'[h] = d /\ connections[h] = d
      BY <1>1, <1>4 DEF Facts
    <2>2. Paired(d) /\ clientSock[d] \in Handle /\ serverSock[d] \in Handle
      BY <1>1, <2>1 DEF SocketInv, Facts, Paired
    <2>3. clientSock'[d] = clientSock[d] /\ serverSock'[d] = serverSock[d]
      BY <2>1
    <2>4. mutexFree => /\ owner[clientSock[d]] = <<d, "client">> /\ owner[clientSock[d]] # None
                       /\ owner[serverSock[d]] = <<d, "server">> /\ owner[serverSock[d]] # None
      BY <1>1, <2>1, <2>2 DEF Paired, SocketsNamed, Named, Facts
    <2>5. mutexFree => clientSock[d] \notin spent' /\ serverSock[d] \notin spent'
      BY <2>1, <2>2, <2>4 DEF ClosesOf
    <2> QED
      BY <2>1, <2>2, <2>3, <2>5 DEF Paired, mutexFree
  <1>5. ~mutexFree' => AllVisited'
    <2> SUFFICES ASSUME AllVisited, NEW h \in Handle, NEW s \in Side,
                        connections[h] # None, <<h, s>> \notin todo
                 PROVE  ~IsOpen(SockOf(connections[h], s))'
      BY <1>1 DEF Closing, mutexFree, AllVisited
    <2>1. PICK d \in Conn : d = connections[h] /\ d # c
      BY <1>1 DEF Facts
    <2>2. ~IsOpen(SockOf(d, s)) /\ SockOf(d, s) \in Handle \cup {None}
      BY <1>1, <2>1 DEF AllVisited, SockOf, Facts
    <2>3. UNCHANGED SockOf(d, s)
      BY <2>1 DEF SockOf
    <2> QED
      BY <2>1, <2>2, <2>3 DEF IsOpen, ClosesOf
  <1>6. ASSUME NEW a \in Acceptor, accConn[a] # c
        PROVE  /\ accClient[a] \notin spent => accClient[a] \notin spent'
               /\ accServer[a] \notin spent => accServer[a] \notin spent'
    BY <1>1, <1>6, ConstantsAssumption DEF SocketsNamed, Named, ClosesOf, Facts, TypeOK, WinsockOK
  <1> QED
    BY <1>3, <1>4, <1>5, <1>6

\* CloseConnection closes the client socket.
LEMMA CloseClientSockets ==
    ASSUME SocketInv, TeardownInv', NEW t \in Thread, CloseClient(t)
    PROVE  SocketInv'
  <1>1. SocketsNamed /\ Closing /\ TypeOK /\ TypeOK' /\ Facts
    BY Known DEF SocketInv, TeardownInv
  <1>2. PICK c \in Conn : c = ref[t]
    BY <1>1 DEF CloseClient, Facts
  <1>3. ~closing[c] /\ \A h \in Handle : connections[h] # c
    BY <1>1, <1>2 DEF SocketInv, TeardownInv, TornDownOnce, CloseClient, Facts
  <1>4. /\ CloseSockets({clientSock[c]})
        /\ clientSock' = [clientSock EXCEPT ![c] = None]
        /\ pc' = [pc EXCEPT ![t] = "closeServer"]
        /\ UNCHANGED <<connections, serverSock, accConn, accClient, accServer, accepted, ref, key,
                       mainPc, todo>>
    BY <1>2, <1>3 DEF CloseClient
  <1>5. pc[t] = "closeClient"
    BY DEF CloseClient
  <1>6. ClosesOf(c, {clientSock[c]})
    BY <1>1, <1>4, Closes DEF SocketsNamed
  <1>7. /\ clientSock'[c] = None
        /\ \A d \in Conn : d # c => clientSock'[d] = clientSock[d]
        /\ \A u \in Thread : u # t => pc'[u] = pc[u]
        /\ pc'[t] = "closeServer"
    BY <1>1, <1>4 DEF Facts
  <1>8. /\ SocketsNamed'
        /\ \A h \in Handle : connections'[h] # None => Paired(connections[h])'
        /\ ~mutexFree' => AllVisited'
        /\ \A a \in Acceptor : accConn[a] # c =>
             /\ accClient[a] \notin spent => accClient[a] \notin spent'
             /\ accServer[a] \notin spent => accServer[a] \notin spent'
    BY <1>1, <1>3, <1>4, <1>6, <1>7, ClosedAside
  <1>9. ASSUME NEW b \in Acceptor PROVE InHand(b)'
    <2>1. InHand(b) /\ (pc[b] \in PreInsert => accConn[b] # c)
      BY <1>1, <1>2 DEF SocketInv, TeardownInv, AcceptedOnce, Untouched, PreInsert
    <2>2. pc[b] \in Entering => clientSock'[accConn[b]] \in {accClient[b], None}
      BY <1>1, <1>7, <2>1 DEF InHand, Entering, Facts
    <2>3. accClient[b] \in spent => accClient[b] \in spent'
      BY <1>1, <1>6 DEF ClosesOf, Monotone, Facts
    <2>4. CASE b = t
      BY <1>4, <1>5, <1>7, <2>1, <2>2, <2>4 DEF InHand, PreInsert, Entering
    <2>5. CASE b # t
      <3>1. pc'[b] = pc[b]
        BY <1>1, <1>7, <2>5 DEF Facts
      <3> QED
        BY <1>4, <1>8, <2>1, <2>2, <2>3, <3>1 DEF InHand, PreInsert
    <2> QED
      BY <2>4, <2>5
  <1>10. ASSUME NEW h \in Handle, owner'[h] # None PROVE Held(h, owner[h][1])'
    <2>1. owner'[h] = owner[h] /\ h # clientSock[c] /\ Held(h, owner[h][1])
      BY <1>6, <1>10 DEF ClosesOf, SocketInv
    <2>2. \A b \in Acceptor : pc[b] \notin {"recvClient", "recvServer"} =>
              pc'[b] \notin {"recvClient", "recvServer"}
      BY <1>1, <1>7 DEF Facts
    <2>3. owner[h][1] \in Conn
      BY <1>1, <1>10, <2>1, Pairs DEF Facts
    <2>4. h \in {clientSock[owner[h][1]], serverSock[owner[h][1]]} =>
              h \in {clientSock'[owner[h][1]], serverSock'[owner[h][1]]}
      BY <1>4, <1>7, <2>1, <2>3
    <2> QED
      BY <1>4, <2>1, <2>2, <2>4 DEF Held
  <1>11. Closing'
    <2>1. ASSUME NEW u \in Thread, pc'[u] = "closeServer" PROVE clientSock'[ref'[u]] = None
      <3>1. CASE u = t
        BY <1>2, <1>4, <1>7, <3>1
      <3>2. CASE u # t
        BY <1>1, <1>4, <1>7, <2>1, <3>2 DEF Closing, Facts
      <3> QED
        BY <3>1, <3>2
    <2> QED
      BY <1>8, <2>1 DEF Closing
  <1> QED
    BY <1>8, <1>9, <1>10, <1>11 DEF SocketInv

\* CloseConnection closes the server socket and returns.
LEMMA CloseServerSockets ==
    ASSUME SocketInv, TeardownInv', NEW t \in Thread, CloseServer(t)
    PROVE  SocketInv'
  <1>1. SocketsNamed /\ Closing /\ TypeOK /\ TypeOK' /\ Facts
    BY Known DEF SocketInv, TeardownInv
  <1>2. PICK c \in Conn : c = ref[t]
    BY <1>1 DEF CloseServer, Facts
  <1>3. clientSock[c] = None /\ \A h \in Handle : connections[h] # c
    BY <1>1, <1>2 DEF SocketInv, TeardownInv, TornDownOnce, CloseServer, Closing, Facts
  <1>4. /\ CloseSockets({serverSock[c]})
        /\ serverSock' = [serverSock EXCEPT ![c] = None]
        /\ pc' = [pc EXCEPT ![t] = AfterClose(t)]
        /\ ref' = [ref EXCEPT ![t] = None]
        /\ UNCHANGED <<connections, clientSock, accConn, accClient, accServer, accepted, key,
                       mainPc, todo>>
    BY <1>2 DEF CloseServer
  <1>5. pc[t] = "closeServer"
    BY DEF CloseServer
  <1>6. ClosesOf(c, {serverSock[c]})
    BY <1>1, <1>4, Closes DEF SocketsNamed
  <1>7. /\ serverSock'[c] = None
        /\ \A d \in Conn : d # c => serverSock'[d] = serverSock[d]
        /\ \A u \in Thread : u # t => pc'[u] = pc[u] /\ ref'[u] = ref[u]
        /\ pc'[t] = AfterClose(t)
    BY <1>1, <1>4 DEF Facts
  <1>8. /\ SocketsNamed'
        /\ \A h \in Handle : connections'[h] # None => Paired(connections[h])'
        /\ ~mutexFree' => AllVisited'
        /\ \A a \in Acceptor : accConn[a] # c =>
             /\ accClient[a] \notin spent => accClient[a] \notin spent'
             /\ accServer[a] \notin spent => accServer[a] \notin spent'
    BY <1>1, <1>3, <1>4, <1>6, <1>7, ClosedAside
  <1>9. pc'[t] \in {"cleanClient", "wait", "exit"} /\ (t \in Acceptor => pc'[t] = "cleanClient")
    BY <1>7 DEF AfterClose
  <1>10. ASSUME NEW b \in Acceptor PROVE InHand(b)'
    <2>1. InHand(b) /\ (pc[b] \in PreInsert => accConn[b] # c)
      BY <1>1, <1>2 DEF SocketInv, TeardownInv, AcceptedOnce, Untouched, PreInsert
    <2>2. accClient[b] \in spent => accClient[b] \in spent'
      BY <1>1, <1>6 DEF ClosesOf, Monotone, Facts
    <2>3. CASE b = t
      BY <1>4, <1>5, <1>9, <2>1, <2>3 DEF InHand, PreInsert, Entering
    <2>4. CASE b # t
      <3>1. pc'[b] = pc[b]
        BY <1>1, <1>7, <2>4 DEF Facts
      <3> QED
        BY <1>4, <1>8, <2>1, <2>2, <3>1 DEF InHand, PreInsert
    <2> QED
      BY <2>3, <2>4
  <1>11. ASSUME NEW h \in Handle, owner'[h] # None PROVE Held(h, owner[h][1])'
    <2>1. owner'[h] = owner[h] /\ h # serverSock[c] /\ Held(h, owner[h][1])
      BY <1>6, <1>11 DEF ClosesOf, SocketInv
    <2>2. \A b \in Acceptor : pc[b] \notin {"recvClient", "recvServer"} =>
              pc'[b] \notin {"recvClient", "recvServer"}
      BY <1>1, <1>7, <1>9 DEF Facts
    <2>3. owner[h][1] \in Conn /\ h # None
      BY <1>1, <1>11, <2>1, Pairs DEF Facts
    <2>4. CASE owner[h][1] = c
      BY <1>3, <1>4, <2>1, <2>2, <2>3, <2>4 DEF Held
    <2>5. CASE owner[h][1] # c
      <3>1. (\E u \in Thread : ref[u] = owner[h][1]) => \E u \in Thread : ref'[u] = owner[h][1]
        BY <1>2, <1>7, <2>5
      <3>2. serverSock'[owner[h][1]] = serverSock[owner[h][1]]
        BY <1>7, <2>3, <2>5
      <3> QED
        BY <1>4, <2>1, <2>2, <3>1, <3>2 DEF Held
    <2> QED
      BY <2>4, <2>5
  <1>12. Closing'
    <2>1. ASSUME NEW u \in Thread, pc'[u] = "closeServer" PROVE clientSock'[ref'[u]] = None
      BY <1>1, <1>4, <1>7, <1>9, <2>1 DEF Closing
    <2> QED
      BY <1>8, <2>1 DEF Closing
  <1> QED
    BY <1>8, <1>10, <1>11, <1>12 DEF SocketInv

\* HandleAccept closes the client socket of its iteration, which may be closed.
LEMMA CleanClientSockets ==
    ASSUME SocketInv, TeardownInv', NEW a \in Acceptor, CleanClient(a)
    PROVE  SocketInv'
  <1>1. SocketsNamed /\ Closing /\ InHand(a) /\ TypeOK /\ TypeOK' /\ Facts
    BY Known DEF SocketInv, TeardownInv
  <1>2. PICK c \in Conn : c = accConn[a]
    BY <1>1 DEF CleanClient, Facts
  <1>3. /\ pc[a] = "cleanClient" /\ accClient[a] \in Handle
        /\ \A h \in Handle : connections[h] # c
        /\ \A b \in Acceptor : accConn[b] = c => b = a
    BY <1>1, <1>2 DEF CleanClient, InHand, Facts, SocketInv, TeardownInv, AcceptedOnce
  <1>4. /\ CloseSockets({accClient[a]})
        /\ pc' = [pc EXCEPT ![a] = "cleanServer"]
        /\ UNCHANGED <<connections, clientSock, serverSock, accConn, accClient, accServer, accepted,
                       ref, key, mainPc, todo>>
    BY DEF CleanClient
  <1>5. Named(accClient[a], <<c, "client">>)
    BY <1>1, <1>2 DEF SocketsNamed
  <1>6. ClosesOf(c, {accClient[a]})
    BY <1>1, <1>4, <1>5, Closes
  <1>7. pc'[a] = "cleanServer" /\ \A t \in Thread : t # a => pc'[t] = pc[t]
    BY <1>1, <1>4 DEF Facts
  <1>8. /\ SocketsNamed'
        /\ \A h \in Handle : connections'[h] # None => Paired(connections[h])'
        /\ ~mutexFree' => AllVisited'
        /\ \A b \in Acceptor : accConn[b] # c =>
             /\ accClient[b] \notin spent => accClient[b] \notin spent'
             /\ accServer[b] \notin spent => accServer[b] \notin spent'
    BY <1>1, <1>3, <1>4, <1>6, ClosedAside
  <1>9. accClient[a] \in spent'
    BY <1>1, <1>3, <1>5, <1>6 DEF ClosesOf, Named, Facts
  <1>10. ASSUME NEW b \in Acceptor PROVE InHand(b)'
    <2>1. InHand(b)
      BY DEF SocketInv
    <2>2. CASE b = a
      BY <1>2, <1>3, <1>4, <1>7, <1>9, <2>1, <2>2 DEF InHand, PreInsert, Entering
    <2>3. CASE b # a
      <3>1. pc'[b] = pc[b] /\ accConn[b] # c
        BY <1>1, <1>3, <1>7, <2>3 DEF Facts
      <3>2. accClient[b] \in spent => accClient[b] \in spent'
        BY <1>1, <1>6 DEF ClosesOf, Monotone, Facts
      <3> QED
        BY <1>4, <1>8, <2>1, <3>1, <3>2 DEF InHand, PreInsert
    <2> QED
      BY <2>2, <2>3
  <1>11. ASSUME NEW h \in Handle, owner'[h] # None PROVE Held(h, owner[h][1])'
    <2>1. owner'[h] = owner[h] /\ Held(h, owner[h][1])
      BY <1>6, <1>11 DEF ClosesOf, SocketInv
    <2>2. \A b \in Acceptor : pc[b] \notin {"recvClient", "recvServer"} =>
              pc'[b] \notin {"recvClient", "recvServer"}
      BY <1>1, <1>7 DEF Facts
    <2> QED
      BY <1>4, <2>1, <2>2 DEF Held
  <1>12. Closing'
    <2>1. \A t \in Thread : pc'[t] = "closeServer" => pc[t] = "closeServer"
      BY <1>7
    <2> QED
      BY <1>1, <1>4, <1>8, <2>1 DEF Closing
  <1> QED
    BY <1>8, <1>10, <1>11, <1>12 DEF SocketInv

\* HandleAccept closes the last socket of its iteration, and ends it.
LEMMA EndSockets ==
    ASSUME SocketInv, TeardownInv', NEW a \in Acceptor, ConnectFailed(a) \/ CleanServer(a)
    PROVE  SocketInv'
  <1>1. SocketsNamed /\ Closing /\ InHand(a) /\ TypeOK /\ TypeOK' /\ Facts
    BY Known DEF SocketInv, TeardownInv
  <1>2. PICK c \in Conn : c = accConn[a]
    BY <1>1 DEF ConnectFailed, CleanServer, Facts
  <1>3. PICK g \in Handle : g = IF pc[a] = "connect" THEN accClient[a] ELSE accServer[a]
    BY <1>1 DEF ConnectFailed, CleanServer, Facts
  <1>4. /\ pc[a] \in {"connect", "cleanServer"}
        /\ \A h \in Handle : connections[h] # c
        /\ \A b \in Acceptor : accConn[b] = c => b = a
    BY <1>1, <1>2 DEF ConnectFailed, CleanServer, InHand, Facts, SocketInv, TeardownInv,
         AcceptedOnce, Untouched, PreInsert
  <1>5. /\ CloseSockets({g})
        /\ pc' = [pc EXCEPT ![a] = "accept"] /\ EndIteration(a)
        /\ UNCHANGED <<connections, clientSock, serverSock, accepted, ref, key, mainPc, todo>>
    BY <1>3 DEF ConnectFailed, CleanServer
  <1>6. Named(g, <<c, "client">>) \/ Named(g, <<c, "server">>)
    BY <1>1, <1>2, <1>3 DEF SocketsNamed
  <1>7. ClosesOf(c, {g})
    BY <1>1, <1>5, <1>6, Closes
  <1>8. /\ pc'[a] = "accept" /\ accConn'[a] = None /\ accClient'[a] = None /\ accServer'[a] = None
        /\ \A t \in Thread : t # a => pc'[t] = pc[t]
        /\ \A b \in Acceptor : b # a => /\ accConn'[b] = accConn[b] /\ accClient'[b] = accClient[b]
                                        /\ accServer'[b] = accServer[b]
    BY <1>1, <1>5 DEF Facts, EndIteration
  <1>9. \A b \in Acceptor :
            /\ accClient'[b] = None \/ (accClient'[b] = accClient[b] /\ accConn'[b] = accConn[b])
            /\ accServer'[b] = None \/ (accServer'[b] = accServer[b] /\ accConn'[b] = accConn[b])
    BY <1>8
  <1>10. /\ SocketsNamed'
         /\ \A h \in Handle : connections'[h] # None => Paired(connections[h])'
         /\ ~mutexFree' => AllVisited'
         /\ \A b \in Acceptor : accConn[b] # c =>
              /\ accClient[b] \notin spent => accClient[b] \notin spent'
              /\ accServer[b] \notin spent => accServer[b] \notin spent'
    BY <1>1, <1>4, <1>5, <1>7, <1>9, ClosedAside
  <1>11. ASSUME NEW b \in Acceptor PROVE InHand(b)'
    <2>1. InHand(b)
      BY DEF SocketInv
    <2>2. CASE b = a
      BY <1>8, <2>2 DEF InHand, PreInsert, Entering
    <2>3. CASE b # a
      <3>1. pc'[b] = pc[b] /\ accConn[b] # c
        BY <1>1, <1>4, <1>8, <2>3 DEF Facts
      <3>2. accClient[b] \in spent => accClient[b] \in spent'
        BY <1>1, <1>7 DEF ClosesOf, Monotone, Facts
      <3> QED
        BY <1>5, <1>8, <1>10, <2>1, <2>3, <3>1, <3>2 DEF InHand, PreInsert
    <2> QED
      BY <2>2, <2>3
  <1>12. ASSUME NEW h \in Handle, owner'[h] # None PROVE Held(h, owner[h][1])'
    <2>1. owner'[h] = owner[h] /\ h # g /\ h \notin spent /\ Held(h, owner[h][1])
      BY <1>1, <1>7, <1>12 DEF ClosesOf, SocketInv, Monotone
    <2>2. h # None
      BY <1>1 DEF Facts
    <2>3. h \notin {accClient[a], accServer[a]}
      BY <1>1, <1>3, <1>4, <2>1, <2>2 DEF InHand
    <2>4. \A b \in Acceptor : b # a => pc'[b] = pc[b]
      BY <1>1, <1>8 DEF Facts
    <2> QED
      BY <1>5, <1>8, <2>1, <2>3, <2>4 DEF Held
  <1>13. Closing'
    <2>1. \A t \in Thread : pc'[t] = "closeServer" => pc[t] = "closeServer"
      BY <1>8
    <2> QED
      BY <1>1, <1>5, <1>10, <2>1 DEF Closing
  <1> QED
    BY <1>10, <1>11, <1>12, <1>13 DEF SocketInv

LEMMA HandleAcceptSockets ==
    ASSUME SocketInv, ~Recycle, TeardownInv', NEW a \in Acceptor, HandleAccept(a)
    PROVE  SocketInv'
  BY AcceptSockets, ConnectedSockets, LabelSockets, InsertSockets, RecvSockets, CloseLookupSockets,
     CloseClientSockets, CloseServerSockets, CleanClientSockets, EndSockets
     DEF HandleAccept, CloseConnection, Thread

LEMMA WorkerThreadSockets ==
    ASSUME SocketInv, TeardownInv', NEW w \in Worker, WorkerThread(w)
    PROVE  SocketInv'
  <1>1. CASE CloseConnection(w)
    BY <1>1, CloseLookupSockets, CloseClientSockets, CloseServerSockets DEF CloseConnection, Thread
  <1>2. CASE ~CloseConnection(w)
    <2>1. /\ UNCHANGED <<connections, clientSock, serverSock, accConn, accClient, accServer, owner,
                         spent, accepted, ref, todo, mainPc>>
          /\ \/ pc[w] \in {"wait", "handle"} /\ pc' = [pc EXCEPT ![w] = "handle"]
             \/ pc[w] \in {"wait", "handle"} /\ pc' = [pc EXCEPT ![w] = "exit"]
             \/ pc[w] \in {"wait", "handle"} /\ pc' = [pc EXCEPT ![w] = "wait"]
             \/ pc[w] \in {"wait", "handle"} /\ pc' = [pc EXCEPT ![w] = "close"]
          /\ UNCHANGED key \/ \E h : key' = [key EXCEPT ![w] = h]
      BY <1>2 DEF WorkerThread, Dequeue, Abandoned, HandleEnd, HandleRead, HandleWrite, Post
    <2>2. Facts
      BY Known DEF SocketInv, TeardownInv
    <2>3. w \in Thread /\ pc \in [Thread -> WorkerLabel \cup AcceptorLabel] /\ w \notin Acceptor
      BY <2>2 DEF Facts
    <2>4. \A t \in Thread : pc'[t] = "closeServer" <=> pc[t] = "closeServer"
      BY <2>1, <2>3
    <2>5. \A a \in Acceptor : pc'[a] = pc[a] /\ key'[a] = key[a]
      BY <2>1, <2>2, <2>3 DEF Facts
    <2> QED
      BY <2>1, <2>4, <2>5, SocketFrame DEF mutexFree
  <1> QED
    BY <1>1, <1>2

\* Shutdown closes the sockets of every entry, then drops the entries.
LEMMA ShutdownSockets ==
    ASSUME SocketInv, TeardownInv', Shutdown
    PROVE  SocketInv'
  <1>1. SocketsNamed /\ Closing /\ TypeOK /\ TypeOK' /\ Facts
    BY Known DEF SocketInv, TeardownInv
  <1>2. UNCHANGED <<clientSock, serverSock, accConn, accClient, accServer, accepted, ref, pc, key>>
    BY DEF Shutdown, StopRunning, LockConnections, CloseEntry, ClearConnections, ClosePort, JoinWorkers
  <1>3. CASE StopRunning \/ ClosePort \/ JoinWorkers
    BY <1>3, SocketFrame DEF StopRunning, ClosePort, JoinWorkers, mutexFree
  <1>4. CASE LockConnections
    <2>1. /\ UNCHANGED <<connections, owner, spent>> /\ ~mutexFree'
          /\ todo' = {h \in Handle : connections[h] # None} \X Side
      BY <1>4 DEF LockConnections, mutexFree
    <2>2. SocketsNamed' /\ \A a \in Acceptor : InHand(a)'
      BY <1>2, <2>1 DEF SocketInv, SocketsNamed, Named, InHand
    <2>3. /\ \A h \in Handle : connections'[h] # None => Paired(connections[h])'
          /\ \A h \in Handle : owner'[h] # None => Held(h, owner[h][1])'
      BY <1>2, <2>1 DEF SocketInv, Paired, Held
    <2>4. Closing'
      <3>1. AllVisited'
        BY <2>1 DEF AllVisited
      <3> QED
        BY <1>1, <1>2, <3>1 DEF Closing
    <2> QED
      BY <2>2, <2>3, <2>4 DEF SocketInv
  <1>5. CASE CloseEntry
    <2>1. PICK h \in Handle, s \in Side :
            /\ <<h, s>> \in todo
            /\ todo' = todo \ {<<h, s>>}
            /\ CloseSockets({SockOf(connections[h], s)})
      BY <1>5 DEF CloseEntry
    <2>2. UNCHANGED <<connections, mainPc>> /\ ~mutexFree /\ ~mutexFree'
      BY <1>5 DEF CloseEntry, mutexFree
    <2>3. PICK c \in Conn : c = connections[h]
      BY <1>1, <2>1 DEF TypeOK, MainOK, Facts
    <2>4. ClosesOf(c, {SockOf(c, s)})
      BY <1>1, <2>1, <2>3, Closes DEF SocketsNamed, SockOf
    <2>5. \A g \in Handle : owner'[g] # None => g \notin spent' /\ owner'[g][1] \in accepted'
      BY <1>1, <1>2, <2>4 DEF SocketsNamed, ClosesOf
    <2>6. SocketsNamed'
      BY <1>1, <1>2, <2>4, <2>5, NamesStay DEF ClosesOf
    <2>7. ASSUME NEW a \in Acceptor PROVE InHand(a)'
      <3>1. InHand(a) /\ (pc[a] \in PreInsert => accConn[a] # c)
        BY <1>1, <2>3 DEF SocketInv, TeardownInv, AcceptedOnce, Untouched, PreInsert
      <3>2. accClient[a] \in spent => accClient[a] \in spent'
        BY <1>1, <2>4 DEF ClosesOf, Monotone, Facts
      <3>3. accConn[a] # c => /\ accClient[a] \notin spent => accClient[a] \notin spent'
                              /\ accServer[a] \notin spent => accServer[a] \notin spent'
        BY <1>1, <2>4, ConstantsAssumption DEF SocketsNamed, Named, ClosesOf, Facts, TypeOK, WinsockOK
      <3> QED
        BY <1>2, <2>2, <3>1, <3>2, <3>3 DEF InHand, PreInsert
    <2>8. \A g \in Handle : connections'[g] # None => Paired(connections[g])'
      BY <1>2, <2>2 DEF SocketInv, Paired
    <2>9. ASSUME NEW g \in Handle, owner'[g] # None PROVE Held(g, owner[g][1])'
      <3>1. owner'[g] = owner[g] /\ Held(g, owner[g][1])
        BY <2>4, <2>9 DEF ClosesOf, SocketInv
      <3> QED
        BY <1>2, <2>2, <3>1 DEF Held
    <2>10. Closing'
      <3>1. ASSUME NEW g \in Handle, NEW r \in Side, connections'[g] # None, <<g, r>> \notin todo'
            PROVE  ~IsOpen(SockOf(connections[g], r))'
        <4>1. PICK d \in Conn : d = connections[g] /\ d = connections'[g]
          BY <1>1, <2>2, <3>1 DEF Facts
        <4>2. UNCHANGED SockOf(d, r) /\ SockOf(d, r) \in Handle \cup {None}
          BY <1>1, <1>2 DEF SockOf, Facts
        <4>3. CASE <<g, r>> \notin todo
          <5>1. ~IsOpen(SockOf(d, r))
            BY <1>1, <2>2, <3>1, <4>1, <4>3 DEF Closing, AllVisited
          <5> QED
            BY <2>4, <4>1, <4>2, <5>1 DEF IsOpen, ClosesOf
        <4>4. CASE g = h /\ r = s
          BY <2>3, <2>4, <4>1, <4>2, <4>4 DEF IsOpen, ClosesOf
        <4> QED
          BY <2>1, <3>1, <4>3, <4>4
      <3>2. AllVisited'
        BY <3>1 DEF AllVisited
      <3> QED
        BY <1>1, <1>2, <2>2, <3>2 DEF Closing
    <2> QED
      BY <2>6, <2>7, <2>8, <2>9, <2>10 DEF SocketInv
  <1>6. CASE ClearConnections
    <2>1. /\ \A h \in Handle : connections'[h] = None
          /\ UNCHANGED <<owner, spent>> /\ mutexFree' /\ ~mutexFree /\ todo = {}
      BY <1>6 DEF ClearConnections, mutexFree
    <2>2. SocketsNamed'
      BY <1>1, <1>2, <2>1 DEF SocketsNamed, Named
    <2>3. ASSUME NEW a \in Acceptor PROVE InHand(a)'
      <3>1. InHand(a)
        BY DEF SocketInv
      <3>2. pc[a] \in {"closeClient", "closeServer", "cleanClient", "cleanServer"} => accConn[a] # None
        BY <1>1 DEF Facts
      <3> QED
        BY <1>2, <2>1, <3>1, <3>2 DEF InHand
    <2>4. ASSUME NEW h \in Handle, owner'[h] # None PROVE Held(h, owner[h][1])'
      <3>0. connections[h] = None
        <4> SUFFICES ASSUME connections[h] # None PROVE FALSE
          OBVIOUS
        <4>1. PICK c \in Conn : c = connections[h] /\ h \in {clientSock[c], serverSock[c]}
          BY <1>1 DEF SocketInv, TeardownInv, KeysAreSockets, Facts
        <4>2. h \in {SockOf(c, "client"), SockOf(c, "server")}
          BY <4>1 DEF SockOf
        <4>3. ~IsOpen(h)
          BY <1>1, <2>1, <4>1, <4>2 DEF Closing, AllVisited, Side
        <4> QED
          BY <1>1, <2>1, <2>4, <4>3 DEF IsOpen, Facts
      <3>1. owner[h] # None /\ Held(h, owner[h][1]) /\ connections[h] = None
        BY <2>1, <2>4, <3>0 DEF SocketInv
      <3>2. owner[h][1] # None
        BY <1>1, <3>1, Pairs DEF Facts
      <3> QED
        BY <1>2, <2>1, <3>1, <3>2 DEF Held
    <2>5. Closing'
      BY <1>1, <1>2, <2>1 DEF Closing
    <2> QED
      BY <2>1, <2>2, <2>3, <2>4, <2>5 DEF SocketInv
  <1> QED
    BY <1>3, <1>4, <1>5, <1>6 DEF Shutdown

LEMMA NextSockets == SocketInv /\ ~Recycle /\ [Next]_vars => SocketInv'
  <1> SUFFICES ASSUME SocketInv, ~Recycle, [Next]_vars PROVE SocketInv'
    OBVIOUS
  <1>1. TeardownInv'
    BY NextTeardown DEF SocketInv
  <1>2. CASE \E a \in Acceptor : HandleAccept(a)
    BY <1>1, <1>2, HandleAcceptSockets
  <1>3. CASE \E w \in Worker : WorkerThread(w)
    BY <1>1, <1>3, WorkerThreadSockets
  <1>4. CASE Interrupt
    BY <1>1, <1>4, SocketFrame DEF Interrupt, mutexFree
  <1>5. CASE Shutdown
    BY <1>1, <1>5, ShutdownSockets
  <1>6. CASE Network
    BY <1>1, <1>6, SocketFrame DEF Network, RecvData, RecvEof, SendDone, IoFailed, Complete, mutexFree
  <1>7. CASE UNCHANGED vars
    BY <1>1, <1>7, SocketFrame DEF mutexFree
  <1> QED
    BY <1>2, <1>3, <1>4, <1>5, <1>6, <1>7 DEF Next

LEMMA InitSockets == Init => SocketInv
  <1> SUFFICES ASSUME Init PROVE SocketInv
    OBVIOUS
  <1>1. TeardownInv /\ Facts
    BY InitTeardown, Known DEF TeardownInv
  <1>2. /\ \A h \in Handle : connections[h] = None /\ owner[h] = None
        /\ \A c \in Conn : clientSock[c] = None /\ serverSock[c] = None
        /\ \A a \in Acceptor : accConn[a] = None /\ accClient[a] = None /\ accServer[a] = None
        /\ \A a \in Acceptor : pc[a] = "accept"
        /\ \A t \in Thread : pc[t] # "closeServer"
        /\ mutexFree
    BY <1>1 DEF Init, mutexFree, Facts
  <1> QED
    BY <1>1, <1>2 DEF SocketInv, SocketsNamed, Named, InHand, PreInsert, Entering, Closing

LEMMA SocketsInvariant == ~Recycle => (Spec => []SocketInv)
  <1> SUFFICES ASSUME ~Recycle PROVE Spec => []SocketInv
    OBVIOUS
  <1>1. SocketInv /\ [Next]_vars => SocketInv'
    BY NextSockets
  <1> QED
    BY <1>1, InitSockets, PTL DEF Spec

\* connections_ holds a connection under both its sockets or not at all, and an
\* entry never outlives its sockets (iocp.cpp:93-169), for any number of
\* connections and threads, as long as socket values are not reissued.
THEOREM EntriesArePairs == ~Recycle => (Spec => []EntriesPaired)
  <1>1. SocketInv => EntriesPaired
    <2> SUFFICES ASSUME SocketInv, NEW h \in Handle, NEW c, c = connections[h], c # None
                 PROVE  /\ clientSock[c] # serverSock[c]
                        /\ {g \in Handle : connections[g] = c} = {clientSock[c], serverSock[c]}
                        /\ mutexFree => /\ owner[clientSock[c]] = <<c, "client">>
                                        /\ owner[serverSock[c]] = <<c, "server">>
      BY DEF EntriesPaired
    <2>1. Facts /\ Paired(c) /\ SocketsNamed
      BY Known DEF SocketInv, TeardownInv
    <2>2. c \in Conn /\ clientSock[c] \in Handle /\ serverSock[c] \in Handle
      BY <2>1 DEF Facts, Paired
    <2>3. \A g \in Handle : connections[g] = c => g \in {clientSock[c], serverSock[c]}
      BY DEF SocketInv, TeardownInv, KeysAreSockets
    <2>4. {g \in Handle : connections[g] = c} = {clientSock[c], serverSock[c]}
      BY <2>1, <2>2, <2>3 DEF Paired
    <2> QED
      BY <2>1, <2>2, <2>4 DEF Paired, SocketsNamed, Named
  <1> QED
    BY <1>1, SocketsInvariant, PTL

\* Each open socket is in connections_, or in the hands of an accept thread or
\* of a thread in CloseConnection (iocp.cpp:144-169, 326-352), for any number of
\* connections and threads, as long as socket values are not reissued.
THEOREM NothingIsLost == ~Recycle => (Spec => []NoSocketLost)
  <1>1. SocketInv => NoSocketLost
    BY DEF SocketInv, Held, NoSocketLost
  <1> QED
    BY <1>1, SocketsInvariant, PTL
=============================================================================
