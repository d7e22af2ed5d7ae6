---------------------------- MODULE Socks5Handshake ----------------------------
(***************************************************************************)
(* The handshake of a SOCKS5 proxy with one client, on the byte stream     *)
(* that TCP hands over in segments: HandleHandshake of socks5.cpp and the  *)
(* functions it calls, as the interface IForwarderCallback has it,         *)
(* OnClientData being called with each segment until the relay starts.     *)
(*                                                                         *)
(* The bytes of the stream are numbered: the greeting, the request and     *)
(* then the payload.  The buffer holds bufferLen of them, after the offset *)
(* ones that were consumed.                                                *)
(***************************************************************************)
EXTENDS Naturals, Sequences

CONSTANTS
    Clients,     \* what clients may send
    BufferSize   \* of the buffer

\* A greeting has two bytes and one for each method; a request has the address
\* between its first four bytes and its last two.
GreetingLen(c) == 2 + c.methods

RequestLen(c) ==
    CASE c.address = "ipv4"   -> 10
      [] c.address = "domain" -> 5 + c.domainLen + 2
      [] c.address = "ipv6"   -> 22
      [] c.address = "other"  -> 4 + c.domainLen + 2

ClientType ==
    [version : BOOLEAN,     \* is the greeting of SOCKS5?
     requestVersion : BOOLEAN,  \* is the request?
     methods : Nat,         \* authentication methods offered
     none : BOOLEAN,        \* is AUTH_NONE among them?
     connect : BOOLEAN,     \* is the command CONNECT?
     address : {"ipv4", "domain", "ipv6", "other"},
     domainLen : Nat,       \* length of a domain, or of another address
     payload : Nat,         \* bytes sent after the request
     waits : BOOLEAN]       \* does it wait for each reply?

ASSUME ClientsAssumption ==
    /\ Clients \subseteq ClientType
    /\ BufferSize \in Nat

VARIABLES
    client,     \* the client and what it sends
    taken,      \* bytes of it that came
    offset, bufferLen,
    state,      \* HandshakeState
    replies,    \* given to send; what it returned is not looked at
    open,       \* is the connection open?
    overflown,  \* was it closed for a segment that did not fit?
    relayed     \* bytes sent on to the target

vars == <<client, taken, offset, bufferLen, state, replies, open, overflown, relayed>>

Init ==
    /\ client \in Clients
    /\ taken = 0
    /\ offset = 0
    /\ bufferLen = 0
    /\ state = "METHOD_SELECTION"
    /\ replies = <<>>
    /\ open = TRUE
    /\ overflown = FALSE
    /\ relayed = 0

-----------------------------------------------------------------------------
StreamLen == GreetingLen(client) + RequestLen(client) + client.payload

\* Bytes the client has sent or may send: some clients wait for a reply before
\* they send the next message.
Sent ==
    IF ~client.waits \/ Len(replies) >= 2 THEN StreamLen
    ELSE IF replies = <<>> THEN GreetingLen(client)
    ELSE GreetingLen(client) + RequestLen(client)

Segment(n) ==
    /\ open
    /\ n \in 1..(Sent - taken)
    /\ taken' = taken + n
    /\ UNCHANGED client

Fits(n) == bufferLen + n < BufferSize

\* The message is not complete: the bytes stay in the buffer.
Wait(n) ==
    /\ bufferLen' = bufferLen + n
    /\ UNCHANGED <<offset, state, replies, open, overflown, relayed>>

\* reply is sent, and the connection is closed.
Reject(n, reply) ==
    /\ replies' = replies \o reply
    /\ bufferLen' = bufferLen + n
    /\ open' = FALSE
    /\ UNCHANGED <<offset, state, overflown, relayed>>

\* Mutant: the segment that was just appended is not counted.
ProceedStale(n, reply, consumed, next, registered) ==
    /\ replies' = Append(replies, reply)
    /\ offset' = offset + consumed
    /\ bufferLen' = bufferLen - consumed
    /\ state' = next
    /\ open' = registered
    /\ UNCHANGED <<overflown, relayed>>

\* reply is sent, and the message is taken from the buffer.  After the request,
\* RegisterConnection closes both sockets when it fails.
Proceed(n, reply, consumed, next, registered) ==
    /\ replies' = Append(replies, reply)
    /\ offset' = offset + consumed
    /\ bufferLen' = bufferLen + n - consumed
    /\ state' = next
    /\ open' = registered
    /\ UNCHANGED <<overflown, relayed>>

\* The segment does not fit: the connection is closed without a reply.
Overflow(n) ==
    /\ state # "RELAYING"
    /\ Segment(n)
    /\ ~Fits(n)
    /\ open' = FALSE
    /\ overflown' = TRUE
    /\ UNCHANGED <<offset, bufferLen, state, replies, relayed>>

\* Mutant: the methods are not waited for.
MethodsComeWhole(avail) == avail >= 2

GreetingWhole(avail) == avail >= GreetingLen(client)

HandleMethodSelection(n) ==
    LET avail == bufferLen + n IN
    /\ state = "METHOD_SELECTION"
    /\ Segment(n)
    /\ Fits(n)
    /\ \/ /\ avail < 2
          /\ Wait(n)
       \/ /\ avail >= 2 /\ ~client.version
          /\ Reject(n, <<>>)
       \/ /\ avail >= 2 /\ client.version /\ ~GreetingWhole(avail)
          /\ Wait(n)
       \/ /\ avail >= 2 /\ client.version /\ GreetingWhole(avail) /\ ~client.none
          /\ Reject(n, <<"AUTH_NO_ACCEPTABLE">>)
       \/ /\ avail >= 2 /\ client.version /\ GreetingWhole(avail) /\ client.none
          /\ Proceed(n, "AUTH_NONE", GreetingLen(client), "REQUEST", TRUE)

\* Mutant: the second byte of the port is forgotten.
HeaderLenShort == IF client.address = "domain" THEN 5 + client.domainLen + 1 ELSE 10

\* The length of the request, which HandleConnectRequest computes when it knows
\* that the address is one it supports.
HeaderLen == IF client.address = "domain" THEN 5 + client.domainLen + 2 ELSE 10

Supported ==
    client.requestVersion /\ client.connect /\ client.address \in {"ipv4", "domain"}

\* Mutant: the command is not looked at.
RefusalAddress ==
    IF client.requestVersion THEN <<"REP_ADDRESS_TYPE_NOT_SUPPORTED">> ELSE <<>>

\* A request of another version is not answered.
Refusal ==
    IF ~client.requestVersion THEN <<>>
    ELSE IF client.connect THEN <<"REP_ADDRESS_TYPE_NOT_SUPPORTED">>
    ELSE <<"REP_COMMAND_NOT_SUPPORTED">>

HandleConnectRequest(n) ==
    LET avail == bufferLen + n IN
    /\ state = "REQUEST"
    /\ Segment(n)
    /\ Fits(n)
    /\ \/ /\ avail < 10
          /\ Wait(n)
       \/ /\ avail >= 10 /\ ~Supported
          /\ Reject(n, Refusal)
       \/ /\ avail >= 10 /\ Supported /\ avail < HeaderLen
          /\ Wait(n)
       \/ /\ avail >= 10 /\ Supported /\ avail >= HeaderLen
          /\ \/ Reject(n, <<"REP_HOST_UNREACHABLE">>)
             \/ \E registered \in BOOLEAN :
                    Proceed(n, "REP_SUCCESS", HeaderLen, "RELAYING", registered)

\* After StartRelay the IOCP manager reads from the client.
Relay(n) ==
    /\ state = "RELAYING"
    /\ Segment(n)
    /\ relayed' = relayed + n
    /\ UNCHANGED <<offset, bufferLen, state, replies, open, overflown>>

HandleHandshake(n) ==
    Overflow(n) \/ HandleMethodSelection(n) \/ HandleConnectRequest(n)

Next == \E n \in 1..StreamLen : HandleHandshake(n) \/ Relay(n)

Spec == Init /\ [][Next]_vars

-----------------------------------------------------------------------------
(***************************************************************************)
(* Properties.                                                             *)
(***************************************************************************)

\* Type invariant.
TypeOK ==
    /\ client \in Clients
    /\ taken \in Nat
    /\ offset \in Nat
    /\ bufferLen \in Nat
    /\ state \in {"METHOD_SELECTION", "REQUEST", "RELAYING"}
    /\ replies \in Seq({"AUTH_NONE", "AUTH_NO_ACCEPTABLE", "REP_SUCCESS",
                        "REP_HOST_UNREACHABLE", "REP_COMMAND_NOT_SUPPORTED",
                        "REP_ADDRESS_TYPE_NOT_SUPPORTED"})
    /\ open \in BOOLEAN
    /\ overflown \in BOOLEAN
    /\ relayed \in Nat

(***************************************************************************)
(* The handshake is in step with the stream: the buffer begins where a     *)
(* message begins, and every byte that came is consumed, in the buffer or  *)
(* sent on, once.                                                          *)
(***************************************************************************)
InStep ==
    /\ state = "METHOD_SELECTION" => offset = 0
    /\ state = "REQUEST" => offset = GreetingLen(client)
    /\ state = "RELAYING" => offset = GreetingLen(client) + RequestLen(client)
    /\ state # "RELAYING" => relayed = 0
    /\ ~overflown => offset + bufferLen + relayed = taken

\* The replies each client should get, by the protocol.
Answers(c) ==
    IF ~c.version THEN {<<>>}
    ELSE IF ~c.none THEN {<<"AUTH_NO_ACCEPTABLE">>}
    ELSE IF ~c.requestVersion THEN {<<"AUTH_NONE">>}
    ELSE {<<"AUTH_NONE", r>> : r \in
            IF ~c.connect THEN {"REP_COMMAND_NOT_SUPPORTED"}
            ELSE IF c.address \in {"ipv6", "other"} THEN {"REP_ADDRESS_TYPE_NOT_SUPPORTED"}
            ELSE {"REP_SUCCESS", "REP_HOST_UNREACHABLE"}}

(***************************************************************************)
(* The replies are those of the protocol however TCP cuts the stream: they *)
(* are the beginning of an answer the client should get, and all of it if  *)
(* the connection was closed, but for an overflow.  A message of another   *)
(* version gets none.                                                      *)
(***************************************************************************)
AnsweredRight ==
    \E a \in Answers(client) :
        /\ Len(replies) <= Len(a) /\ replies = SubSeq(a, 1, Len(replies))
        /\ ~open /\ ~overflown => replies = a

(***************************************************************************)
(* When the replies come.  The one to the greeting comes when all of the   *)
(* greeting has, and that the target was reached or not is said when all   *)
(* of the request has.  A request that is refused is refused after its     *)
(* tenth byte, wherever it ends (socks5.cpp:283-332): twelve bytes before  *)
(* the end of one with an IPv6 address.                                    *)
(*                                                                         *)
(* To a client that waits, the reply comes with the last byte of the       *)
(* message, and what it sends after the request is not held back in the    *)
(* buffer.  Requests shorter than ten bytes, those for a domain of one or  *)
(* two letters, are excepted: socks5.cpp:283 waits for bytes that never    *)
(* come.                                                                   *)
(***************************************************************************)
AnsweredInTime ==
    /\ replies # <<>> => taken >= GreetingLen(client)
    /\ Len(replies) = 2 =>
        /\ taken >= GreetingLen(client) + 10
        /\ replies[2] \in {"REP_SUCCESS", "REP_HOST_UNREACHABLE"} =>
                taken >= GreetingLen(client) + RequestLen(client)
    /\ open /\ client.waits =>
        /\ taken >= GreetingLen(client) => replies # <<>>
        /\ taken >= GreetingLen(client) + RequestLen(client) /\ RequestLen(client) >= 10
            => Len(replies) = 2
        /\ state = "RELAYING" => bufferLen = 0
=============================================================================
