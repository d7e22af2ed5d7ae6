------------------------- MODULE Socks5HandshakeProofs -------------------------
(***************************************************************************)
(* The handshake keeps in step with the stream of every client, and gives  *)
(* the right replies in time, whatever the lengths of its messages, the    *)
(* size of the buffer and the way TCP cuts the stream.                     *)
(***************************************************************************)
EXTENDS Socks5Handshake, TLAPS

\* The numbers among the variables, and what a segment may be.
Numbers ==
    /\ client \in Clients
    /\ taken \in Nat /\ offset \in Nat /\ bufferLen \in Nat /\ relayed \in Nat
    /\ state \in {"METHOD_SELECTION", "REQUEST", "RELAYING"}
    /\ overflown => ~open

Inv == Numbers /\ InStep

LEMMA Lengths ==
    ASSUME Numbers
    PROVE  /\ GreetingLen(client) \in Nat
           /\ RequestLen(client) \in Nat
           /\ Supported => HeaderLen = RequestLen(client)
  <1> DEFINE c == client
  <1>1. /\ c.methods \in Nat /\ c.domainLen \in Nat
        /\ c.address \in {"ipv4", "domain", "ipv6", "other"}
    BY ClientsAssumption DEF Numbers, ClientType
  <1>2. GreetingLen(c) \in Nat
    BY <1>1 DEF GreetingLen
  <1>3. CASE c.address = "ipv4"
    BY <1>2, <1>3 DEF RequestLen, HeaderLen
  <1>4. CASE c.address = "domain"
    BY <1>1, <1>2, <1>4 DEF RequestLen, HeaderLen
  <1>5. CASE c.address \in {"ipv6", "other"}
    BY <1>1, <1>2, <1>5 DEF RequestLen, Supported
  <1> QED
    BY <1>1, <1>3, <1>4, <1>5

LEMMA InitInv == Init => Inv
  BY DEF Init, Inv, Numbers, InStep

LEMMA NextInv == Inv /\ [Next]_vars => Inv'
  <1> SUFFICES ASSUME Inv, [Next]_vars PROVE Inv'
    OBVIOUS
  <1> DEFINE G == GreetingLen(client)
             R == RequestLen(client)
  <1>1. G \in Nat /\ R \in Nat /\ (Supported => HeaderLen = R)
    BY Lengths DEF Inv
  <1>2. CASE UNCHANGED vars
    BY <1>2 DEF vars, Inv, Numbers, InStep
  <1>3. ASSUME NEW n \in 1..StreamLen, Segment(n),
               Overflow(n) \/ HandleMethodSelection(n) \/ HandleConnectRequest(n) \/ Relay(n)
        PROVE  Inv'
    <2>1. /\ n \in Nat /\ client' = client /\ taken' = taken + n /\ taken' \in Nat
          /\ GreetingLen(client)' = G /\ RequestLen(client)' = R
          /\ open /\ ~overflown
      BY <1>3 DEF Segment, Inv, Numbers
    <2>2. ASSUME Wait(n), state # "RELAYING" PROVE Inv'
      BY <2>1, <2>2, <1>1 DEF Wait, Inv, Numbers, InStep
    <2>3. ASSUME NEW reply, Reject(n, reply), state # "RELAYING" PROVE Inv'
      BY <2>1, <2>3, <1>1 DEF Reject, Inv, Numbers, InStep
    <2>4. CASE Overflow(n)
      BY <2>1, <2>4, <1>1 DEF Overflow, Inv, Numbers, InStep
    <2>5. CASE Relay(n)
      BY <2>1, <2>5, <1>1 DEF Relay, Inv, Numbers, InStep
    <2>6. CASE HandleMethodSelection(n)
      <3>1. CASE /\ state = "METHOD_SELECTION" /\ GreetingWhole(bufferLen + n)
                 /\ Proceed(n, "AUTH_NONE", G, "REQUEST", TRUE)
        BY <2>1, <3>1, <1>1 DEF GreetingWhole, Proceed, Inv, Numbers, InStep
      <3> QED
        BY <2>2, <2>3, <2>6, <3>1 DEF HandleMethodSelection
    <2>7. CASE HandleConnectRequest(n)
      <3>1. ASSUME NEW registered \in BOOLEAN,
                   state = "REQUEST", Supported, bufferLen + n >= HeaderLen,
                   Proceed(n, "REP_SUCCESS", HeaderLen, "RELAYING", registered)
            PROVE  Inv'
        <4>1. /\ offset' = offset + R /\ bufferLen' = bufferLen + n - R
              /\ state' = "RELAYING" /\ bufferLen + n >= R
              /\ UNCHANGED <<overflown, relayed>>
          BY <3>1, <1>1 DEF Proceed
        <4>2. offset' \in Nat /\ bufferLen' \in Nat
          BY <4>1, <2>1, <1>1 DEF Inv, Numbers
        <4>3. Numbers'
          BY <4>1, <4>2, <2>1 DEF Inv, Numbers
        <4>4. offset' = G + R
          BY <4>1, <3>1 DEF Inv, InStep
        <4>5. offset' + bufferLen' + relayed' = taken'
          BY <4>1, <2>1, <1>1 DEF Inv, Numbers, InStep
        <4> QED
          BY <4>1, <4>3, <4>4, <4>5, <2>1 DEF Inv, InStep
      <3> QED
        BY <2>2, <2>3, <2>7, <3>1 DEF HandleConnectRequest
    <2> QED
      BY <1>3, <2>4, <2>5, <2>6, <2>7
  <1>4. ASSUME NEW n \in 1..StreamLen, HandleHandshake(n) \/ Relay(n)
        PROVE  Segment(n)
    BY <1>4 DEF HandleHandshake, Overflow, HandleMethodSelection, HandleConnectRequest, Relay
  <1> QED
    BY <1>2, <1>3, <1>4 DEF Next, HandleHandshake

-----------------------------------------------------------------------------
(***************************************************************************)
(* The buffer begins where a message of the client begins, and every byte  *)
(* that came is consumed, in the buffer or sent on once                    *)
(* (socks5.cpp:195-232), however TCP cuts the stream.                      *)
(***************************************************************************)
THEOREM KeepsStep == Spec => []InStep
  <1>1. Inv => InStep
    BY DEF Inv
  <1> QED
    BY InitInv, NextInv, <1>1, PTL DEF Spec

-----------------------------------------------------------------------------
(***************************************************************************)
(* The replies, and when they come.                                        *)
(***************************************************************************)

Rejected == ~open /\ ~overflown

\* The reply to a request of the right version that is refused.
RefusalReply ==
    IF Supported THEN "REP_HOST_UNREACHABLE"
    ELSE IF client.connect THEN "REP_ADDRESS_TYPE_NOT_SUPPORTED"
    ELSE "REP_COMMAND_NOT_SUPPORTED"

\* What the client was told, at each state of the handshake.
Said ==
    /\ state = "METHOD_SELECTION" /\ ~Rejected => replies = <<>>
    /\ state = "METHOD_SELECTION" /\ Rejected =>
        \/ ~client.version /\ replies = <<>>
        \/ client.version /\ ~client.none /\ replies = <<"AUTH_NO_ACCEPTABLE">>
    /\ state # "METHOD_SELECTION" => client.version /\ client.none
    /\ state = "REQUEST" /\ ~Rejected => replies = <<"AUTH_NONE">>
    /\ state = "REQUEST" /\ Rejected =>
        \/ ~client.requestVersion /\ replies = <<"AUTH_NONE">>
        \/ client.requestVersion /\ replies = <<"AUTH_NONE", RefusalReply>>
    /\ state = "RELAYING" => Supported /\ replies = <<"AUTH_NONE", "REP_SUCCESS">>

\* A message is never whole in the buffer of an open handshake, but for the
\* requests of less than ten bytes; a client that waits has sent no more.
Timely ==
    /\ state # "METHOD_SELECTION" \/ replies # <<>> => taken >= GreetingLen(client)
    /\ Len(replies) = 2 =>
        /\ taken >= GreetingLen(client) + 10
        /\ Supported => taken >= GreetingLen(client) + RequestLen(client)
    /\ open /\ client.waits =>
        /\ state = "METHOD_SELECTION" => bufferLen < GreetingLen(client)
        /\ state = "REQUEST" => bufferLen < 10 \/ bufferLen < RequestLen(client)
        /\ state = "RELAYING" => bufferLen = 0

Answering == Inv /\ Said /\ Timely

\* A second reply follows the first.
LEMMA AppendToOne == ASSUME NEW x, NEW y PROVE Append(<<x>>, y) = <<x, y>>
  <1> DEFINE s == Append(<<x>>, y)
             two == [i \in 1..2 |-> IF i = 2 THEN y ELSE x]
  <1>1. Len(<<x>>) = 1 /\ <<x>>[1] = x
    OBVIOUS
  <1>2. s = [i \in 1..2 |-> IF i = 2 THEN y ELSE <<x>>[i]]
    BY <1>1
  <1>3. \A i \in 1..2 : (IF i = 2 THEN y ELSE <<x>>[i]) = (IF i = 2 THEN y ELSE x)
    <2>1. \A i \in 1..2 : i = 1 \/ i = 2
      OBVIOUS
    <2> QED
      BY <1>1, <2>1
  <1>4. <<x, y>> = two
    OBVIOUS
  <1> HIDE DEF s
  <1>5. s = two
    BY <1>2, <1>3
  <1> HIDE DEF two
  <1>6. s = <<x, y>>
    BY <1>4, <1>5
  <1> QED
    BY <1>6 DEF s

LEMMA ClientKept ==
    ASSUME client' = client
    PROVE  /\ GreetingLen(client)' = GreetingLen(client) /\ RequestLen(client)' = RequestLen(client)
           /\ Supported' = Supported /\ RefusalReply' = RefusalReply
  BY DEF GreetingLen, RequestLen, Supported, RefusalReply

LEMMA LongEnough == ASSUME Numbers PROVE GreetingLen(client) >= 2
  BY ClientsAssumption DEF Numbers, ClientType, GreetingLen

LEMMA GreetingAnswered ==
    ASSUME Answering, Inv', NEW n \in Nat, HandleMethodSelection(n)
    PROVE  Said' /\ Timely'
  <1> DEFINE G == GreetingLen(client)
             R == RequestLen(client)
  <1>1. /\ client' = client /\ taken' = taken + n /\ open /\ ~overflown
        /\ n <= Sent - taken /\ state = "METHOD_SELECTION" /\ replies = <<>>
    BY DEF HandleMethodSelection, Segment, Answering, Inv, Numbers, Said, Rejected
  <1>2. G \in Nat /\ G >= 2 /\ R \in Nat /\ taken \in Nat /\ bufferLen \in Nat /\ taken = bufferLen
    BY <1>1, Lengths, LongEnough DEF Answering, Inv, Numbers, InStep
  <1>3. GreetingLen(client)' = G /\ RequestLen(client)' = R /\ Supported' = Supported
    BY <1>1, ClientKept
  <1>4. CASE Wait(n) /\ ~(bufferLen + n >= G)
    BY <1>1, <1>2, <1>3, <1>4 DEF Wait, Said, Timely, Rejected
  <1>5. CASE ~client.version /\ Reject(n, <<>>)
    BY <1>1, <1>2, <1>3, <1>5 DEF Reject, Said, Timely, Rejected
  <1>6. CASE /\ client.version /\ ~client.none /\ bufferLen + n >= G
             /\ Reject(n, <<"AUTH_NO_ACCEPTABLE">>)
    <2>1. replies' = <<"AUTH_NO_ACCEPTABLE">>
      BY <1>1, <1>6 DEF Reject
    <2> QED
      BY <1>1, <1>2, <1>3, <1>6, <2>1 DEF Reject, Said, Timely, Rejected
  <1>7. CASE /\ client.version /\ client.none /\ bufferLen + n >= G
             /\ Proceed(n, "AUTH_NONE", G, "REQUEST", TRUE)
    <2>1. replies' = <<"AUTH_NONE">> /\ bufferLen' = bufferLen + n - G /\ state' = "REQUEST"
          /\ open' /\ overflown' = overflown
      BY <1>1, <1>7 DEF Proceed
    <2>2. client.waits => bufferLen' = 0
      BY <1>1, <1>2, <1>7, <2>1 DEF Sent
    <2> QED
      BY <1>1, <1>2, <1>3, <1>7, <2>1, <2>2 DEF Said, Timely, Rejected
  <1>8. bufferLen + n < 2 => ~(bufferLen + n >= G)
    BY <1>2
  <1> HIDE DEF G
  <1>9. GreetingWhole(bufferLen + n) <=> bufferLen + n >= G
    BY DEF GreetingWhole, G
  <1> QED
    BY <1>4, <1>5, <1>6, <1>7, <1>8, <1>9 DEF HandleMethodSelection, G

LEMMA RequestAnswered ==
    ASSUME Answering, Inv', NEW n \in Nat, HandleConnectRequest(n)
    PROVE  Said' /\ Timely'
  <1> DEFINE G == GreetingLen(client)
             R == RequestLen(client)
  <1>1. /\ client' = client /\ taken' = taken + n /\ open /\ ~overflown
        /\ n <= Sent - taken /\ state = "REQUEST" /\ replies = <<"AUTH_NONE">>
        /\ client.version /\ client.none
    BY DEF HandleConnectRequest, Segment, Answering, Inv, Numbers, Said, Rejected
  <1>2. /\ G \in Nat /\ R \in Nat /\ taken \in Nat /\ bufferLen \in Nat
        /\ taken = G + bufferLen /\ (Supported => HeaderLen = R)
    BY <1>1, Lengths DEF Answering, Inv, Numbers, InStep
  <1>3. /\ GreetingLen(client)' = G /\ RequestLen(client)' = R
        /\ Supported' = Supported /\ RefusalReply' = RefusalReply
    BY <1>1, ClientKept
  <1>4. CASE Wait(n) /\ (bufferLen + n < 10 \/ bufferLen + n < R)
    BY <1>1, <1>2, <1>3, <1>4 DEF Wait, Said, Timely, Rejected
  <1>5. CASE /\ bufferLen + n >= 10
             /\ \/ ~Supported /\ Reject(n, Refusal)
                \/ Supported /\ bufferLen + n >= R /\ Reject(n, <<"REP_HOST_UNREACHABLE">>)
    <2>1. CASE ~client.requestVersion
      <3>1. replies' = <<"AUTH_NONE">> /\ Len(replies') = 1
        BY <1>1, <1>5, <2>1 DEF Reject, Refusal, Supported
      <3> QED
        BY <1>1, <1>2, <1>3, <1>5, <2>1, <3>1 DEF Reject, Said, Timely, Rejected
    <2>2. CASE client.requestVersion
      <3>1. replies' = <<"AUTH_NONE", RefusalReply>>
        BY <1>1, <1>5, <2>2 DEF Reject, Refusal, RefusalReply
      <3> QED
        BY <1>1, <1>2, <1>3, <1>5, <2>2, <3>1 DEF Reject, Said, Timely, Rejected
    <2> QED
      BY <2>1, <2>2
  <1>6. ASSUME NEW registered \in BOOLEAN,
               Supported, bufferLen + n >= 10, bufferLen + n >= HeaderLen,
               Proceed(n, "REP_SUCCESS", HeaderLen, "RELAYING", registered)
        PROVE  Said' /\ Timely'
    <2>0. replies' = <<"AUTH_NONE", "REP_SUCCESS">>
      <3>1. replies' = Append(<<"AUTH_NONE">>, "REP_SUCCESS")
        BY <1>1, <1>6 DEF Proceed
      <3>2. Append(<<"AUTH_NONE">>, "REP_SUCCESS") = <<"AUTH_NONE", "REP_SUCCESS">>
        BY AppendToOne
      <3> QED
        BY <3>1, <3>2
    <2>1. /\ bufferLen' = bufferLen + n - R /\ state' = "RELAYING"
          /\ open' = registered /\ overflown' = overflown
      BY <1>2, <1>6 DEF Proceed
    <2>2. Len(replies) = 1 /\ replies # <<>>
      BY <1>1
    <2>3. client.waits => bufferLen' = 0
      BY <1>1, <1>2, <1>6, <2>1, <2>2 DEF Sent
    <2> QED
      BY <1>1, <1>2, <1>3, <1>6, <2>0, <2>1, <2>3 DEF Said, Timely, Rejected
  <1> QED
    BY <1>2, <1>4, <1>5, <1>6 DEF HandleConnectRequest

LEMMA NextAnswering == Answering /\ [Next]_vars => Answering'
  <1> SUFFICES ASSUME Answering, [Next]_vars PROVE Said' /\ Timely'
    BY NextInv DEF Answering
  <1>1. Inv /\ Inv'
    BY NextInv DEF Answering
  <1>2. CASE UNCHANGED vars
    BY <1>2, ClientKept DEF vars, Answering, Said, Timely, Rejected
  <1>3. ASSUME NEW n \in 1..StreamLen, HandleHandshake(n) \/ Relay(n) PROVE Said' /\ Timely'
    <2>1. n \in Nat
      OBVIOUS
    <2>2. CASE Overflow(n)
      <3>1. /\ UNCHANGED <<client, state, replies>> /\ taken' >= taken /\ open /\ ~open' /\ overflown'
        BY <1>1, <2>1, <2>2 DEF Overflow, Segment, Inv, Numbers
      <3> QED
        BY <1>1, <3>1, ClientKept, Lengths DEF Answering, Said, Timely, Rejected, Inv, Numbers
    <2>3. CASE Relay(n)
      <3>1. /\ UNCHANGED <<client, state, replies, bufferLen, open, overflown>> /\ taken' >= taken
            /\ state = "RELAYING"
        BY <1>1, <2>1, <2>3 DEF Relay, Segment, Inv, Numbers
      <3> QED
        BY <1>1, <3>1, ClientKept, Lengths DEF Answering, Said, Timely, Rejected, Inv, Numbers
    <2> QED
      BY <1>1, <1>3, <2>1, <2>2, <2>3, GreetingAnswered, RequestAnswered DEF HandleHandshake
  <1> QED
    BY <1>2, <1>3 DEF Next

LEMMA AlwaysAnswering == Spec => []Answering
  <1>1. Init => Answering
    <2> SUFFICES ASSUME Init PROVE Answering
      OBVIOUS
    <2>1. Inv /\ GreetingLen(client) >= 2
      BY InitInv, LongEnough DEF Inv
    <2>2. Said
      BY DEF Init, Said, Rejected
    <2>3. Timely
      BY <2>1, Lengths DEF Init, Timely, Inv
    <2> QED
      BY <2>1, <2>2, <2>3 DEF Answering
  <1> QED
    BY <1>1, NextAnswering, PTL DEF Spec

-----------------------------------------------------------------------------
Flags == open \in BOOLEAN /\ overflown \in BOOLEAN

LEMMA AlwaysFlags == Spec => []Flags
  <1>1. Init => Flags
    BY DEF Init, Flags
  <1>2. Flags /\ [Next]_vars => Flags'
    BY DEF Flags, Next, vars, HandleHandshake, Overflow, HandleMethodSelection,
         HandleConnectRequest, Relay, Segment, Wait, Reject, Proceed
  <1> QED
    BY <1>1, <1>2, PTL DEF Spec

\* Every reachable state is well typed (socks5.cpp:195-232), for all clients.
THEOREM TypeCorrect == Spec => []TypeOK
  <1>1. Answering /\ Flags => TypeOK
    <2> SUFFICES ASSUME Answering, Flags PROVE TypeOK
      OBVIOUS
    <2>1. RefusalReply \in {"REP_HOST_UNREACHABLE", "REP_COMMAND_NOT_SUPPORTED",
                           "REP_ADDRESS_TYPE_NOT_SUPPORTED"}
      BY DEF RefusalReply
    <2>2. replies \in {<<>>, <<"AUTH_NO_ACCEPTABLE">>, <<"AUTH_NONE">>,
                       <<"AUTH_NONE", RefusalReply>>, <<"AUTH_NONE", "REP_SUCCESS">>}
      BY DEF Answering, Inv, Numbers, Said
    <2>3. replies \in Seq({"AUTH_NONE", "AUTH_NO_ACCEPTABLE", "REP_SUCCESS",
                           "REP_HOST_UNREACHABLE", "REP_COMMAND_NOT_SUPPORTED",
                           "REP_ADDRESS_TYPE_NOT_SUPPORTED"})
      <3>1. ASSUME NEW S, NEW a \in S, NEW b \in S
            PROVE  <<>> \in Seq(S) /\ <<a>> \in Seq(S) /\ <<a, b>> \in Seq(S)
        OBVIOUS
      <3> DEFINE R == {"AUTH_NONE", "AUTH_NO_ACCEPTABLE", "REP_SUCCESS", "REP_HOST_UNREACHABLE",
                       "REP_COMMAND_NOT_SUPPORTED", "REP_ADDRESS_TYPE_NOT_SUPPORTED"}
      <3>2. /\ "AUTH_NONE" \in R /\ "AUTH_NO_ACCEPTABLE" \in R /\ "REP_SUCCESS" \in R
            /\ RefusalReply \in R
        BY <2>1
      <3> HIDE DEF R
      <3>3. replies \in Seq(R)
        BY <2>2, <3>1, <3>2
      <3> QED
        BY <3>3 DEF R
    <2> QED
      BY <2>3 DEF Answering, Inv, Numbers, Flags, TypeOK
  <1> QED
    BY <1>1, AlwaysAnswering, AlwaysFlags, PTL

(***************************************************************************)
(* The replies are those of the protocol (socks5.cpp:236-368), for every   *)
(* client and every way TCP cuts what it sends.                            *)
(***************************************************************************)
THEOREM AnswersRight == Spec => []AnsweredRight
  <1>1. Answering => AnsweredRight
    <2> SUFFICES ASSUME Answering PROVE AnsweredRight
      OBVIOUS
    <2>0. /\ client.address \in {"ipv4", "domain", "ipv6", "other"}
          /\ state \in {"METHOD_SELECTION", "REQUEST", "RELAYING"}
      BY ClientsAssumption DEF Answering, Inv, Numbers, ClientType
    <2>1. CASE state = "METHOD_SELECTION"
      <3>1. CASE replies = <<>> /\ (Rejected => ~client.version)
        <4>1. PICK a \in Answers(client) : Rejected => a = <<>>
          BY <3>1 DEF Answers
        <4> QED
          BY <3>1, <4>1 DEF AnsweredRight, Rejected
      <3>2. CASE client.version /\ ~client.none /\ replies = <<"AUTH_NO_ACCEPTABLE">>
        BY <3>2 DEF AnsweredRight, Answers
      <3> QED
        BY <2>1, <3>1, <3>2 DEF Answering, Said
    <2>2. CASE state = "REQUEST" /\ Rejected
      <3>1. /\ client.version /\ client.none
            /\ \/ ~client.requestVersion /\ replies = <<"AUTH_NONE">>
               \/ client.requestVersion /\ replies = <<"AUTH_NONE", RefusalReply>>
        BY <2>2 DEF Answering, Said
      <3>2. replies \in Answers(client)
        BY <2>0, <3>1 DEF Answers, RefusalReply, Supported
      <3> QED
        BY <3>1, <3>2 DEF AnsweredRight
    <2>3. CASE state = "REQUEST" /\ ~Rejected
      <3>1. replies = <<"AUTH_NONE">> /\ client.version /\ client.none
        BY <2>3 DEF Answering, Said
      <3>2. CASE ~client.requestVersion
        BY <2>3, <3>1, <3>2 DEF AnsweredRight, Rejected, Answers
      <3>3. CASE client.requestVersion
        <4>1. PICK r : <<"AUTH_NONE", r>> \in Answers(client)
          BY <3>1, <3>3 DEF Answers
        <4> QED
          BY <2>3, <3>1, <4>1 DEF AnsweredRight, Rejected
      <3> QED
        BY <3>2, <3>3
    <2>4. CASE state = "RELAYING"
      <3>1. replies = <<"AUTH_NONE", "REP_SUCCESS">> /\ client.version /\ client.none /\ Supported
        BY <2>4 DEF Answering, Said
      <3>2. replies \in Answers(client)
        BY <3>1 DEF Answers, Supported
      <3> QED
        BY <3>1, <3>2 DEF AnsweredRight
    <2> QED
      BY <2>0, <2>1, <2>2, <2>3, <2>4
  <1> QED
    BY <1>1, AlwaysAnswering, PTL

(***************************************************************************)
(* No reply comes before its bytes have come, all of the greeting, ten of  *)
(* a request that is refused and all of one that is tried; and none is     *)
(* late for a client that waits (socks5.cpp:236-368), whatever the lengths *)
(* of the messages and the size of the buffer.                             *)
(***************************************************************************)
THEOREM AnswersInTime == Spec => []AnsweredInTime
  <1>1. Answering => AnsweredInTime
    <2> SUFFICES ASSUME Answering PROVE AnsweredInTime
      OBVIOUS
    <2>1. /\ GreetingLen(client) \in Nat /\ RequestLen(client) \in Nat
          /\ taken \in Nat /\ bufferLen \in Nat
          /\ state \in {"METHOD_SELECTION", "REQUEST", "RELAYING"}
      BY Lengths DEF Answering, Inv, Numbers
    <2>2. replies # <<>> => taken >= GreetingLen(client)
      BY DEF Answering, Timely
    <2>3. ASSUME Len(replies) = 2
          PROVE  /\ taken >= GreetingLen(client) + 10
                 /\ replies[2] \in {"REP_SUCCESS", "REP_HOST_UNREACHABLE"} =>
                        taken >= GreetingLen(client) + RequestLen(client)
      <3>0. Len(<<>>) # 2 /\ Len(<<"AUTH_NO_ACCEPTABLE">>) # 2 /\ Len(<<"AUTH_NONE">>) # 2
        OBVIOUS
      <3>1. \/ replies = <<"AUTH_NONE", "REP_SUCCESS">> /\ Supported
            \/ replies = <<"AUTH_NONE", RefusalReply>>
        BY <2>1, <2>3, <3>0, Zenon DEF Answering, Said
      <3>2. ~Supported => RefusalReply \notin {"REP_SUCCESS", "REP_HOST_UNREACHABLE"}
        BY DEF RefusalReply
      <3>3. ~Supported => replies[2] \notin {"REP_SUCCESS", "REP_HOST_UNREACHABLE"}
        BY <3>1, <3>2
      <3> QED
        BY <2>3, <3>3 DEF Answering, Timely
    <2>4. ASSUME open, client.waits
          PROVE  /\ taken >= GreetingLen(client) => replies # <<>>
                 /\ taken >= GreetingLen(client) + RequestLen(client) /\ RequestLen(client) >= 10
                        => Len(replies) = 2
                 /\ state = "RELAYING" => bufferLen = 0
      <3>1. ~Rejected /\ ~overflown
        BY <2>4 DEF Rejected, Answering, Inv, Numbers
      <3>2. CASE state = "METHOD_SELECTION"
        BY <2>1, <2>4, <3>1, <3>2 DEF Answering, Inv, Numbers, InStep, Timely
      <3>3. CASE state = "REQUEST"
        <4>1. replies = <<"AUTH_NONE">>
          BY <3>1, <3>3 DEF Answering, Said
        <4>2. taken = GreetingLen(client) + bufferLen
          BY <2>1, <3>1, <3>3 DEF Answering, Inv, Numbers, InStep
        <4>3. bufferLen < 10 \/ bufferLen < RequestLen(client)
          BY <2>4, <3>3 DEF Answering, Timely
        <4>4. taken >= GreetingLen(client) + RequestLen(client) => RequestLen(client) < 10
          BY <2>1, <4>2, <4>3
        <4> QED
          BY <2>1, <3>3, <4>1, <4>4
      <3>4. CASE state = "RELAYING"
        <4>1. replies = <<"AUTH_NONE", "REP_SUCCESS">>
          BY <3>4 DEF Answering, Said
        <4>2. replies # <<>> /\ Len(replies) = 2
          BY <4>1
        <4>3. bufferLen = 0
          BY <2>4, <3>4 DEF Answering, Timely
        <4> QED
          BY <4>2, <4>3
      <3> QED
        BY <2>1, <3>2, <3>3, <3>4
    <2> QED
      BY <2>2, <2>3, <2>4 DEF AnsweredInTime
  <1> QED
    BY <1>1, AlwaysAnswering, PTL
=============================================================================
