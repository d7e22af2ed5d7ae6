--------------------------- MODULE MCSocks5Handshake ---------------------------
EXTENDS Socks5Handshake

\* Good and bad greetings and requests; a request for a domain of one letter has
\* eight bytes.  What the request holds matters only after a good greeting.
MCClients ==
    {c \in [version : BOOLEAN, requestVersion : BOOLEAN, methods : {1, 2}, none : BOOLEAN, connect : BOOLEAN,
            address : {"ipv4", "domain", "ipv6", "other"}, domainLen : {1, 3, 5}, payload : {2},
            waits : BOOLEAN] :
        /\ c.address \notin {"domain", "other"} => c.domainLen = 3
        /\ ~c.version \/ ~c.none => c.requestVersion /\ c.connect /\ c.address = "ipv4"}
=============================================================================
