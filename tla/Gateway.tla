-------------------------------- MODULE Gateway --------------------------------
(***************************************************************************)
(* Node, NodeClient and the address map of GatewayNode: which game server  *)
(* a notification sent to an address arrives at.                           *)
(*                                                                         *)
(* Each connection of the UDP library gets a GatewayClient on the heap.    *)
(* When SYSTEM logs in at an address, the address is mapped to a raw       *)
(* pointer to the client that asked.  A connection may be lost at any      *)
(* time, and the game server may be back on a new connection before the    *)
(* library gives the old one up; then Tick destroys the client.  Nothing   *)
(* takes its address out of the map.  A later client may be given the same *)
(* memory, and the entry then leads to a client of somebody else.          *)
(*                                                                         *)
(* A pointer is a slot.  Sending through a pointer to a destroyed client   *)
(* is undefined: the process ends, or the message is lost, or a client     *)
(* that has the slot now sends it.  The first is the second followed by a  *)
(* restart, since a message that ends the process is the last to count.    *)
(***************************************************************************)
EXTENDS Naturals

CONSTANTS
    Server,     \* game servers, each with its address
    Slot,       \* places on the heap for clients
    NoClient

ASSUME GatewayAssumption == NoClient \notin Slot

VARIABLES
    conn,              \* conn[g]: the client of g's present connection
    clients,           \* clients_: the slots in use
    clientAddressMap,  \* clientAddressMap_
    hello              \* history: servers that logged SYSTEM in on their
                       \* present connection

gatewayVars == <<conn, clients, clientAddressMap, hello>>

\* The game servers at the other end of what SendTo finds for addresses A.
Reached(A) ==
    {h \in Server : conn[h] # NoClient /\ \E g \in A : clientAddressMap[g] = conn[h]}

\* OnConnectRequest of a server that has no connection (any more).
Connect(g) ==
    /\ conn[g] = NoClient
    /\ \E s \in Slot \ clients :
          /\ clients' = clients \cup {s}
          /\ conn' = [conn EXCEPT ![g] = s]
    /\ UNCHANGED <<clientAddressMap, hello>>

\* The game server goes away; the client is still there.
Disconnect(g) ==
    /\ conn[g] # NoClient
    /\ conn' = [conn EXCEPT ![g] = NoClient]
    /\ hello' = hello \ {g}
    /\ UNCHANGED <<clients, clientAddressMap>>

\* Wrong on purpose: the test of the status is the other way round.
DeadInverted == clients \cap {conn[g] : g \in Server}

\* The clients whose game server is gone.
Dead == clients \ {conn[g] : g \in Server}

\* Tick destroys a client once the library has given its connection up.
Sweep ==
    /\ \E s \in Dead : clients' = clients \ {s}
    /\ UNCHANGED <<conn, clientAddressMap, hello>>

\* Wrong on purpose: an entry that exists is kept.
MapAfterKept(g) ==
    IF clientAddressMap[g] = NoClient
    THEN [clientAddressMap EXCEPT ![g] = conn[g]] ELSE clientAddressMap

\* RegisterClientAddress for the client that logs SYSTEM in.
MapAfter(g) == [clientAddressMap EXCEPT ![g] = conn[g]]

RegisterClientAddress(g) ==
    /\ conn[g] # NoClient
    /\ clientAddressMap' = MapAfter(g)
    /\ hello' = hello \cup {g}
    /\ UNCHANGED <<conn, clients>>

\* The process ends and starts again.
GatewayRestart ==
    /\ conn' = [g \in Server |-> NoClient]
    /\ clients' = {}
    /\ clientAddressMap' = [g \in Server |-> NoClient]
    /\ hello' = {}

GatewayInit ==
    /\ conn = [g \in Server |-> NoClient]
    /\ clients = {}
    /\ clientAddressMap = [g \in Server |-> NoClient]
    /\ hello = {}

LinkStep == Sweep \/ \E g \in Server : Connect(g)

GatewayNext ==
    \/ LinkStep
    \/ \E g \in Server : Disconnect(g) \/ RegisterClientAddress(g)
    \/ GatewayRestart

GatewaySpec == GatewayInit /\ [][GatewayNext]_gatewayVars

(***************************************************************************)
(* Properties                                                              *)
(***************************************************************************)

\* Every variable has its type; two servers never share a client.
GatewayTypeOK ==
    /\ conn \in [Server -> Slot \cup {NoClient}]
    /\ clients \subseteq Slot
    /\ clientAddressMap \in [Server -> Slot \cup {NoClient}]
    /\ hello \subseteq Server
    /\ \A g, h \in Server : conn[g] = conn[h] /\ g # h => conn[g] = NoClient
    /\ \A g \in Server : conn[g] # NoClient => conn[g] \in clients

\* Once a game server has logged SYSTEM in on its present connection, what is
\* sent to its address arrives there and nowhere else, whatever dangling
\* pointers the map holds (RegisterClientAddress, SendTo, Node::Tick).
RoutesRight == \A g \in hello : Reached({g}) = {g}
=============================================================================
