------------------------------ MODULE RelayServer ------------------------------
(***************************************************************************)
(* The packet router of pneuma_db/relay_server.py.  Each connection has a  *)
(* handler coroutine; all share the registration table.  asyncio runs one  *)
(* coroutine at a time and switches only where one really waits: at a      *)
(* receive, and after each frame it has handed to a socket.  The           *)
(* asyncio.Lock is never contended, for no section under it awaits.        *)
(*                                                                         *)
(* A frame counts as received when the server has handed it to a socket    *)
(* that is open.  A socket may break at any time and the server may be     *)
(* slow to see it, so a node can be back on a new connection while the     *)
(* handler of the old one still runs: "reconnect" says how far apart the   *)
(* two are.  DELIVERY_FAIL, PONG, PEERS and STATS change no state of       *)
(* either side and are left out.                                           *)
(***************************************************************************)
EXTENDS Integers, FiniteSets

CONSTANTS
    Node,       \* node ids
    MaxConn,    \* bound: connections accepted
    None        \* no node yet

ASSUME RelayConstants == MaxConn \in Nat /\ None \notin Node

\* Connections are numbered as they are accepted.
Conn == 1..MaxConn
NoConn == 0

VARIABLES
    pc,         \* where the handler of each connection is
    who,        \* the node id its HELLO gave
    open,       \* whether its socket still carries frames
    todo,       \* whom it has yet to send the frame it is sending round
    nodes,      \* _nodes: the connection registered for each node
    active,     \* _stats.active_connections
    present,    \* per connection: nodes it was told of last as being there
    strays,     \* connections sent a packet of a node they were not told of
    lost,       \* handlers whose node another handler has since taken or dropped
    uncounted,  \* handlers that have cleaned up without having been counted
    reconnect   \* how soon a node may come back (rigid)

vars == <<pc, who, open, todo, nodes, active, present, strays, lost, uncounted, reconnect>>

handlerVars == <<pc, todo>>
clientVars == <<present, strays>>
tableVars == <<nodes, active, lost, uncounted>>

\* The handler holds the registration it made, until its finally block.
Serving == {"welcome", "joining", "serve", "cast"}

TypeOK ==
    /\ pc \in [Conn -> {"free", "hello", "leaving", "done"} \cup Serving]
    /\ who \in [Conn -> Node \cup {None}]
    /\ open \in [Conn -> BOOLEAN]
    /\ todo \in [Conn -> SUBSET Node]
    /\ nodes \in [Node -> Conn \cup {NoConn}]
    /\ active \in Int
    /\ present \in [Conn -> SUBSET Node]
    /\ strays \subseteq Conn
    /\ lost \subseteq Conn
    /\ uncounted \subseteq Conn
    /\ reconnect \in {"finished", "unregistered", "anytime"}

Init ==
    /\ pc = [c \in Conn |-> "free"]
    /\ who = [c \in Conn |-> None]
    /\ open = [c \in Conn |-> FALSE]
    /\ todo = [c \in Conn |-> {}]
    /\ nodes = [n \in Node |-> NoConn]
    /\ active = 0
    /\ present = [c \in Conn |-> {}]
    /\ strays = {}
    /\ lost = {}
    /\ uncounted = {}
    /\ reconnect \in {"finished", "unregistered", "anytime"}

Registered == {n \in Node : nodes[n] # NoConn}

\* nodes[m] is looked up for each frame, when it is sent.
Receives(m, c) == nodes[m] = c /\ open[c]

\* Every handler sends a frame round in this way: one target, then it may wait.
SendOne(c, m, after) ==
    /\ m \in todo[c]
    /\ todo' = [todo EXCEPT ![c] = @ \ {m}]
    /\ pc' = IF todo[c] = {m} THEN [pc EXCEPT ![c] = after] ELSE pc

-----------------------------------------------------------------------------
(* The network and the clients *)

\* RelayClient keeps one connection at a time, and opens the next one when its
\* side of the last is gone.
Connect(c, n) ==
    /\ pc[c] = "free" /\ \A d \in 1..(c - 1) : pc[d] # "free"
    /\ \A d \in Conn : who[d] = n =>
          /\ ~ open[d]
          /\ reconnect = "finished" => pc[d] = "done"
          /\ reconnect = "unregistered" => pc[d] \in {"leaving", "done"}
    /\ pc' = [pc EXCEPT ![c] = "hello"]
    /\ who' = [who EXCEPT ![c] = n]
    /\ open' = [open EXCEPT ![c] = TRUE]
    /\ UNCHANGED <<todo, tableVars, clientVars, reconnect>>

Break(c) ==
    /\ open[c]
    /\ open' = [open EXCEPT ![c] = FALSE]
    /\ UNCHANGED <<handlerVars, who, tableVars, clientVars, reconnect>>

-----------------------------------------------------------------------------
(* handle_connection *)

\* The other handlers that serve c's node.
Rivals(c) == {d \in Conn \ {c} : pc[d] \in Serving /\ who[d] = who[c]}

\* A mutant of Unregister: the pop is made only if the entry is this
\* connection's, and the counter goes down with it.
UnregisterMutant(c) ==
    /\ nodes' = [nodes EXCEPT ![who[c]] = IF @ = c THEN NoConn ELSE @]
    /\ active' = IF nodes[who[c]] = c THEN active - 1 ELSE active
    /\ lost' = lost \cup Rivals(c)
    /\ LET left == Registered \ {who[c]}
       IN  /\ todo' = [todo EXCEPT ![c] = left]
           /\ pc' = [pc EXCEPT ![c] = IF left = {} THEN "done" ELSE "leaving"]
    /\ UNCHANGED <<who, open, clientVars, reconnect>>

\* A mutant of Unregister: the registration stays.
UnregisterNoPop(c) ==
    /\ active' = active - 1
    /\ lost' = lost \cup Rivals(c)
    /\ LET left == Registered \ {who[c]}
       IN  /\ todo' = [todo EXCEPT ![c] = left]
           /\ pc' = [pc EXCEPT ![c] = IF left = {} THEN "done" ELSE "leaving"]
    /\ UNCHANGED <<who, open, nodes, clientVars, reconnect>>

\* The finally block: the node is unregistered, whichever connection registered
\* it, and _broadcast_peer_left begins.
Unregister(c) ==
    /\ nodes' = [nodes EXCEPT ![who[c]] = NoConn]
    /\ active' = active - 1
    /\ lost' = lost \cup Rivals(c)
    /\ LET left == Registered \ {who[c]}
       IN  /\ todo' = [todo EXCEPT ![c] = left]
           /\ pc' = [pc EXCEPT ![c] = IF left = {} THEN "done" ELSE "leaving"]
    /\ UNCHANGED <<who, open, clientVars, reconnect>>

\* A mutant of Register: a HELLO without a node id is not turned away.
RegisterMutant(c) ==
    /\ pc[c] = "hello"
    /\ nodes' = [n \in Node \cup {None} |-> IF n = None THEN c ELSE nodes[n]]
    /\ active' = active + 1
    /\ pc' = [pc EXCEPT ![c] = "welcome"]
    /\ UNCHANGED <<who, open, todo, lost, uncounted, clientVars, reconnect>>

\* No HELLO within ten seconds, or the socket closed before one: node_id is
\* still None, and the finally block does nothing.
GiveUp(c) ==
    /\ pc[c] = "hello"
    /\ pc' = [pc EXCEPT ![c] = "done"]
    /\ open' = [open EXCEPT ![c] = FALSE]
    /\ UNCHANGED <<who, todo, tableVars, clientVars, reconnect>>

\* From the HELLO to the WELCOME: nothing waits in between.
Register(c) ==
    /\ pc[c] = "hello"
    /\ nodes' = [nodes EXCEPT ![who[c]] = c]
    /\ active' = active + 1
    /\ lost' = lost \cup Rivals(c)
    /\ pc' = [pc EXCEPT ![c] = "welcome"]
    /\ present' = [present EXCEPT ![c] = Registered \ {who[c]}]
    /\ UNCHANGED <<who, open, todo, strays, uncounted, reconnect>>

\* The HELLO's public key is not hexadecimal: fromhex raises when node_id is set
\* and nothing is registered or counted, and the finally block follows.
RejectKey(c) ==
    /\ pc[c] = "hello"
    /\ Unregister(c)
    /\ uncounted' = uncounted \cup {c}

\* A mutant of JoinBegin: the newcomer is not announced.
JoinBeginMutant(c) ==
    /\ pc[c] = "welcome"
    /\ pc' = [pc EXCEPT ![c] = "serve"]
    /\ UNCHANGED <<who, open, todo, tableVars, clientVars, reconnect>>

\* _broadcast_peer_joined
JoinBegin(c) ==
    /\ pc[c] = "welcome"
    /\ todo' = [todo EXCEPT ![c] = Registered \ {who[c]}]
    /\ pc' = [pc EXCEPT ![c] = IF Registered \ {who[c]} = {} THEN "serve" ELSE "joining"]
    /\ UNCHANGED <<who, open, tableVars, clientVars, reconnect>>

JoinTell(c, m) ==
    /\ pc[c] = "joining"
    /\ SendOne(c, m, "serve")
    /\ present' = [d \in Conn |-> IF Receives(m, d) THEN present[d] \cup {who[c]} ELSE present[d]]
    /\ UNCHANGED <<who, open, tableVars, strays, reconnect>>

\* _forward_packet: a PACKET for m, or one of the targets of a BROADCAST.
Deliver(c, m) ==
    strays' = strays \cup {d \in Conn : /\ Receives(m, d) /\ who[d] # who[c]
                                       /\ who[c] \notin present[d]}

\* The frame may be one that was buffered when the socket broke.
Forward(c, m) ==
    /\ pc[c] = "serve"
    /\ Deliver(c, m)
    /\ UNCHANGED <<handlerVars, who, open, tableVars, present, reconnect>>

CastBegin(c) ==
    /\ pc[c] = "serve"
    /\ Registered \ {who[c]} # {}
    /\ todo' = [todo EXCEPT ![c] = Registered \ {who[c]}]
    /\ pc' = [pc EXCEPT ![c] = "cast"]
    /\ UNCHANGED <<who, open, tableVars, clientVars, reconnect>>

CastOne(c, m) ==
    /\ pc[c] = "cast"
    /\ SendOne(c, m, "serve")
    /\ Deliver(c, m)
    /\ UNCHANGED <<who, open, tableVars, present, reconnect>>

\* The socket is found broken: the WELCOME cannot be sent, or the receive loop
\* ends.
Cleanup(c) ==
    /\ pc[c] \in {"welcome", "serve"} /\ ~ open[c]
    /\ Unregister(c)
    /\ UNCHANGED uncounted

\* A mutant of LeaveTell: the pop comes with the goodbyes instead of before them.
LeaveTellMutant(c, m) ==
    /\ pc[c] = "leaving"
    /\ SendOne(c, m, "done")
    /\ nodes' = [nodes EXCEPT ![who[c]] = NoConn]
    /\ present' = [d \in Conn |-> IF Receives(m, d) THEN present[d] \ {who[c]} ELSE present[d]]
    /\ UNCHANGED <<who, open, active, lost, uncounted, strays, reconnect>>

\* _broadcast_peer_left
LeaveTell(c, m) ==
    /\ pc[c] = "leaving"
    /\ SendOne(c, m, "done")
    /\ present' = [d \in Conn |-> IF Receives(m, d) THEN present[d] \ {who[c]} ELSE present[d]]
    /\ UNCHANGED <<who, open, tableVars, strays, reconnect>>

-----------------------------------------------------------------------------

Next ==
    \/ \E c \in Conn, n \in Node : Connect(c, n)
    \/ \E c \in Conn :
          \/ Break(c)
          \/ GiveUp(c) \/ Register(c) \/ RejectKey(c)
          \/ JoinBegin(c) \/ CastBegin(c) \/ Cleanup(c)
    \/ \E c \in Conn, m \in Node :
          \/ JoinTell(c, m) \/ LeaveTell(c, m)
          \/ Forward(c, m) \/ CastOne(c, m)

Spec == Init /\ [][Next]_vars

-----------------------------------------------------------------------------
(* Properties *)

\* A registration always belongs to a handler that has made it and not yet
\* reached its finally block: no packet is ever handed to the socket of a
\* handler that is gone (relay_server.py:107-113, 139-143).
RegisteredIsServing ==
    \A n \in Node : nodes[n] # NoConn =>
        pc[nodes[n]] \in Serving /\ who[nodes[n]] = n

\* active_connections counts the handlers that have registered and not yet
\* cleaned up, less those that cleaned up without having registered: whatever
\* connections replace one another, nothing else makes it wrong, and nothing
\* ever puts it right again (relay_server.py:101-115, 139-143).
ActiveCounts ==
    active + Cardinality(uncounted) = Cardinality({c \in Conn : pc[c] \in Serving})

\* A handler that serves a node is the one the node is reached by, exactly until
\* another handler of the node registers it or cleans up after it: a node that
\* is back before its old handler has noticed is cut off by that handler's
\* finally block, and stays cut off (relay_server.py:107-113, 139-142).
ServedIsRegistered ==
    \A c \in Conn : pc[c] \in Serving => (nodes[who[c]] = c <=> c \notin lost)

\* When every reconnection waits for the old handler to finish, a client never
\* gets a packet of a node it has not been told of, by WELCOME or PEER_JOINED,
\* or has been told is gone: the joiner announces itself before it is served
\* (relay_server.py:117-131).  What is told is what the server sends; RelayClient
\* acts on PEER_JOINED and only logs WELCOME's list (relay_client.py:94-101).
ToldBeforeHeard == reconnect = "finished" => strays = {}

\* When every reconnection waits for the old handler to finish and no handler is
\* in the middle of anything, each served client has last been told, by the frames
\* the server sent it, of exactly the nodes registered beside it.
PresenceSettles ==
    reconnect = "finished" /\ (\A c \in Conn : pc[c] \in {"free", "serve", "done"}) =>
        \A c \in Conn : pc[c] = "serve" /\ open[c] => present[c] = Registered \ {who[c]}

=============================================================================
