------------------------------ MODULE Forwarding ------------------------------
(***************************************************************************)
(* What a transparent forwarder promises about each connection, in terms   *)
(* of its two remote peers only.  A chunk received from one peer is the    *)
(* next one delivered to the other, at most one is in transit in each      *)
(* direction, nothing is lost, duplicated, reordered or delivered to a     *)
(* peer of another connection, and the forwarder closes a connection only  *)
(* if it has ended (a peer closed, or the network failed) or the forwarder *)
(* is being halted.                                                        *)
(***************************************************************************)
EXTENDS Naturals, Sequences

CONSTANTS
    Conn,       \* connections
    MaxChunk    \* bound on the chunks each peer sends

VARIABLES
    open,       \* endpoints whose socket is open
    ended,      \* connections that have ended
    halted,     \* has the forwarder been told to stop?
    received,   \* number of chunks received from each endpoint's peer
    delivered   \* chunks delivered to each endpoint's peer

vars == <<open, ended, halted, received, delivered>>

Side == {"client", "server"}
Endpoint == Conn \X Side
Peer(e) == <<e[1], IF e[2] = "client" THEN "server" ELSE "client">>

InTransit(e) == received[e] - Len(delivered[Peer(e)])

Init ==
    /\ open = {}
    /\ ended = {}
    /\ halted = FALSE
    /\ received = [e \in Endpoint |-> 0]
    /\ delivered = [e \in Endpoint |-> <<>>]

Open(e) ==
    /\ e \notin open
    /\ e[1] \notin ended
    /\ received[e] = 0
    /\ open' = open \cup {e}
    /\ UNCHANGED <<ended, halted, received, delivered>>

Receive(e) ==
    /\ e \in open
    /\ InTransit(e) = 0
    /\ received[e] < MaxChunk
    /\ received' = [received EXCEPT ![e] = @ + 1]
    /\ UNCHANGED <<open, ended, halted, delivered>>

Deliver(e) ==
    /\ Peer(e) \in open
    /\ InTransit(e) = 1
    /\ delivered' = [delivered EXCEPT ![Peer(e)] = Append(@, <<e, received[e]>>)]
    /\ UNCHANGED <<open, ended, halted, received>>

\* The connection ends, or some of its sockets are closed, or both.
Finish(c) ==
    /\ ended' \in {ended, ended \cup {c}}
    /\ \E S \in SUBSET ({c} \X Side) :
        /\ open' = open \ S
        /\ S # {} => c \in ended' \/ halted
    /\ UNCHANGED <<halted, received, delivered>>

Halt ==
    /\ halted' = TRUE
    /\ UNCHANGED <<open, ended, received, delivered>>

Next ==
    \/ \E e \in Endpoint : Open(e) \/ Receive(e) \/ Deliver(e)
    \/ \E c \in Conn : Finish(c)
    \/ Halt

Spec == Init /\ [][Next]_vars
=============================================================================
