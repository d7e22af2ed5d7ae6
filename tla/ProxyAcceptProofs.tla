-------------------------- MODULE ProxyAcceptProofs --------------------------
(***************************************************************************)
(* The accept thread of an HTTP or SOCKS5 proxy and Stop never disagree    *)
(* about which sockets are open, for any number of clients.                *)
(***************************************************************************)
EXTENDS ProxyAccept, TLAPS

\* A socket that accept has just returned is open and has no entry.
InHand == pc = "insert" => cur \in open \ connections

\* Inductive together: InHand makes Insert enter an open socket.
Inv == TypeOK /\ EntriesAreOpen /\ ClosedOnce /\ InHand

LEMMA InitInv == Init => Inv
  BY ClientsAssumption DEF Init, Inv, TypeOK, EntriesAreOpen, ClosedOnce, InHand

LEMMA NextInv == Inv /\ [Next]_vars => Inv'
  <1> SUFFICES ASSUME Inv, [Next]_vars PROVE Inv'
    OBVIOUS
  <1> USE ClientsAssumption DEF Inv, TypeOK, EntriesAreOpen, ClosedOnce, InHand
  <1>1. CASE Loop
    BY <1>1 DEF Loop
  <1>2. CASE Accept
    <2>1. PICK c \in Client \ accepted :
            accepted' = accepted \cup {c} /\ open' = open \cup {c} /\ cur' = c
      BY <1>2 DEF Accept
    <2>2. /\ c # None /\ c \notin open /\ pc = "accept" /\ pc' = "insert"
          /\ UNCHANGED <<running, listening, connections, mainPc, io>>
      BY <1>2, <2>1 DEF Accept
    <2>3. TypeOK'
      BY <2>1, <2>2
    <2>4. EntriesAreOpen'
      BY <2>1, <2>2
    <2>5. ClosedOnce'
      BY <2>1, <2>2
    <2>6. InHand'
      <3>1. cur' \in open' /\ cur' \notin connections'
        BY <2>1, <2>2
      <3> QED
        BY <3>1
    <2> QED
      BY <2>3, <2>4, <2>5, <2>6
  <1>3. CASE AcceptFailed
    BY <1>3 DEF AcceptFailed
  <1>4. CASE Insert
    BY <1>4 DEF Insert
  <1>5. CASE Recv
    BY <1>5 DEF Recv
  <1>6. CASE RecvRefused
    BY <1>6 DEF RecvRefused
  <1>7. CASE Lookup
    BY <1>7 DEF Lookup
  <1>8. CASE CloseSocket
    BY <1>8 DEF CloseSocket
  <1>9. CASE Interrupt
    BY <1>9 DEF Interrupt
  <1>10. CASE StopRunning
    BY <1>10 DEF StopRunning
  <1>11. CASE StopListening
    BY <1>11 DEF StopListening
  <1>12. CASE CloseAll
    BY <1>12 DEF CloseAll
  <1>13. CASE Destroy
    BY <1>13 DEF Destroy
  <1>14. ASSUME NEW c \in Client, Arrive(c) PROVE Inv'
    BY <1>14 DEF Arrive
  <1>15. CASE UNCHANGED vars
    BY <1>15 DEF vars
  <1> QED
    BY <1>1, <1>2, <1>3, <1>4, <1>5, <1>6, <1>7, <1>8, <1>9, <1>10, <1>11, <1>12, <1>13,
       <1>14, <1>15 DEF Next, AcceptLoop, Stop

-----------------------------------------------------------------------------
\* Every state is well typed: among others, the accept thread has a client in
\* hand exactly between accept and its next test (http_proxy.cpp:98-143).
THEOREM TypeCorrect == Spec => []TypeOK
  <1>1. Inv => TypeOK
    BY DEF Inv
  <1> QED
    BY InitInv, NextInv, <1>1, PTL DEF Spec

\* connections_ holds the clients whose socket is open, but for the one the
\* accept thread has in hand (http_proxy.cpp:43-52, 116-119, 446-469).
THEOREM EntriesMatchSockets == Spec => []EntriesAreOpen
  <1>1. Inv => EntriesAreOpen
    BY DEF Inv
  <1> QED
    BY InitInv, NextInv, <1>1, PTL DEF Spec

\* No socket is closed both by Stop and by CloseConnection.
THEOREM NeverClosedTwice == Spec => []ClosedOnce
  <1>1. Inv => ClosedOnce
    BY DEF Inv
  <1> QED
    BY InitInv, NextInv, <1>1, PTL DEF Spec
=============================================================================
