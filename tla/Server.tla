------------------------------- MODULE Server -------------------------------
(***************************************************************************)
(* The connections that HDDcoinServer keeps: how they are accepted, opened,*)
(* registered under the node id of the peer, and closed.  All peers are    *)
(* full nodes.  A connection is closed in two steps: close marks it and    *)
(* waits for the socket, then connection_closed is called back.            *)
(***************************************************************************)
EXTENDS Integers, FiniteSets, Functions

CONSTANTS
    Conn,          \* the connections that are ever made
    PeerOf,        \* the node id at the other end of each
    Outbound,      \* those that start_client opens
    InboundLimit,  \* target_peer_count - target_outbound_peer_count
    Overlap        \* whether a peer may have two connections at a time

VARIABLES
    all_connections,  \* node id -> connection
    connection_by_type, \* the same for the full nodes, the only type here
    stage,            \* of each connection, one of Stages
    old,              \* the connection that a "replacing" one waits for
    closed,           \* "no", "closing" or "done"
    ban,              \* whether closing the connection bans its peer
    banned_peers

lists == <<all_connections, connection_by_type>>
vars == <<all_connections, connection_by_type, stage, old, closed, ban, banned_peers>>

\* "failed": the handshake did; "refused": the limit was reached or replacing failed.
Stages == {"none", "handshake", "replacing", "added", "failed", "refused"}

Listed == Range(all_connections)
Over(c) == stage[c] = "none" \/ closed[c] = "done"
MayConnect(c) == Overlap \/ \A d \in Conn \ {c} : PeerOf[d] = PeerOf[c] => Over(d)

Init ==
    /\ all_connections = [p \in {} |-> {}] /\ connection_by_type = all_connections
    /\ stage = [c \in Conn |-> "none"] /\ old = [c \in Conn |-> c]
    /\ closed = [c \in Conn |-> "no"] /\ ban = [c \in Conn |-> FALSE]
    /\ banned_peers = {}

-----------------------------------------------------------------------------
\* A connection is opened, from outside or by start_client.  The test for a
\* duplicate reads an attribute `host` that connections do not have: it never holds.
incoming_connection(c) ==
    /\ c \notin Outbound /\ stage[c] = "none" /\ MayConnect(c)
    /\ PeerOf[c] \notin banned_peers
    /\ stage' = [stage EXCEPT ![c] = "handshake"]
    /\ UNCHANGED <<lists, old, closed, ban, banned_peers>>

start_client(c) ==
    /\ c \in Outbound /\ stage[c] = "none" /\ MayConnect(c)
    /\ PeerOf[c] \notin banned_peers
    /\ stage' = [stage EXCEPT ![c] = "handshake"]
    /\ UNCHANGED <<lists, old, closed, ban, banned_peers>>

Inbound == {c \in Range(connection_by_type) : c \notin Outbound}

accept_inbound_connections == Cardinality(Inbound) < InboundLimit

\* The handshake fails: a connection of unknown type is closed, and its peer banned
\* (always for an outbound connection, for some errors of an inbound one).
HandshakeFails(c) ==
    /\ stage[c] = "handshake"
    /\ \/ ban' = [ban EXCEPT ![c] = TRUE]
       \/ c \notin Outbound /\ UNCHANGED ban
    /\ stage' = [stage EXCEPT ![c] = "failed"]
    /\ closed' = [closed EXCEPT ![c] = "closing"]
    /\ UNCHANGED <<lists, old, banned_peers>>

\* The limit of inbound connections is reached.
Refuse(c) ==
    /\ stage[c] = "handshake" /\ c \notin Outbound /\ ~ accept_inbound_connections
    /\ stage' = [stage EXCEPT ![c] = "refused"]
    /\ closed' = [closed EXCEPT ![c] = "closing"]
    /\ UNCHANGED <<lists, old, ban, banned_peers>>

With(f, p, c) == [q \in DOMAIN f \cup {p} |-> IF q = p THEN c ELSE f[q]]
Without(f, p) == Restrict(f, DOMAIN f \ {p})

\* connection_added: at once, or after closing the connection that is listed.
connection_added(c) ==
    LET p == PeerOf[c]
    IN  /\ stage[c] = "handshake" /\ (c \in Outbound \/ accept_inbound_connections)
        /\ IF p \in DOMAIN all_connections /\ closed[all_connections[p]] = "no"
           THEN /\ stage' = [stage EXCEPT ![c] = "replacing"]
                /\ old' = [old EXCEPT ![c] = all_connections[p]]
                /\ closed' = [closed EXCEPT ![all_connections[p]] = "closing"]
                /\ UNCHANGED lists
           ELSE /\ stage' = [stage EXCEPT ![c] = "added"]
                /\ all_connections' = With(all_connections, p, c)
                /\ connection_by_type' = With(connection_by_type, p, c)
                /\ UNCHANGED <<old, closed>>
        /\ UNCHANGED <<ban, banned_peers>>

\* close is called for a connection whose handlers run: the peer went away, broke a
\* rule (and is banned), or was silent for long.
close(c) ==
    /\ stage[c] \in {"replacing", "added"} /\ closed[c] = "no"
    /\ closed' = [closed EXCEPT ![c] = "closing"]
    /\ \/ ban' = [ban EXCEPT ![c] = TRUE]
       \/ UNCHANGED ban
    /\ UNCHANGED <<lists, stage, old, banned_peers>>

\* What connection_closed(c) leaves of a list: whatever is there for the peer goes.
Closed(list, c) == Without(list, PeerOf[c])

\* A mutant: the list by type loses no entry.
TypeStays(c) == connection_by_type

ClosedByType(c) ==
    IF stage[c] = "failed" THEN connection_by_type ELSE Closed(connection_by_type, c)

Waiting(c) == {d \in Conn : stage[d] = "replacing" /\ old[d] = c}
Replaced(list, c) ==
    IF Waiting(c) = {} THEN list ELSE With(list, PeerOf[c], CHOOSE d \in Waiting(c) : TRUE)

CloseCallback(c) ==
    /\ closed[c] = "closing"
    /\ banned_peers' = IF ban[c] THEN banned_peers \cup {PeerOf[c]} ELSE banned_peers

\* The socket is closed; connection_closed is called.  A connection that waits for
\* this in connection_added goes on in the same step and is registered.
close_end(c) ==
    /\ CloseCallback(c)
    /\ closed' = [closed EXCEPT ![c] = "done"]
    /\ all_connections' = Replaced(Closed(all_connections, c), c)
    /\ connection_by_type' = Replaced(ClosedByType(c), c)
    /\ stage' = [d \in Conn |-> IF d \in Waiting(c) THEN "added" ELSE stage[d]]
    /\ UNCHANGED <<old, ban>>

\* Closing the socket raises after the callback: the connection that waits is given up
\* and closed itself.
close_raises(c) ==
    LET open == {d \in Waiting(c) : closed[d] = "no"}
    IN  /\ CloseCallback(c)
        /\ closed' = [d \in Conn |-> IF d = c THEN "done" ELSE IF d \in open THEN "closing" ELSE closed[d]]
        /\ ban' = [d \in Conn |-> ban[d] \/ d \in open \cap Outbound]
        /\ stage' = [d \in Conn |-> IF d \in Waiting(c) THEN "refused" ELSE stage[d]]
        /\ all_connections' = Closed(all_connections, c) /\ connection_by_type' = ClosedByType(c)
        /\ UNCHANGED old

\* A ban expires.
Unban(p) ==
    /\ p \in banned_peers
    /\ banned_peers' = banned_peers \ {p}
    /\ UNCHANGED <<lists, stage, old, closed, ban>>

-----------------------------------------------------------------------------
Next ==
    \/ \E c \in Conn : \/ incoming_connection(c) \/ start_client(c) \/ HandshakeFails(c)
                       \/ Refuse(c) \/ connection_added(c) \/ close(c)
                       \/ close_end(c) \/ close_raises(c)
    \/ \E p \in Range(PeerOf) : Unban(p)

Spec == Init /\ [][Next]_vars

-----------------------------------------------------------------------------
\* A node id is listed with a connection to that node; a connection that is given up
\* is closed.
TypeOK ==
    /\ \A p \in DOMAIN all_connections : PeerOf[all_connections[p]] = p
    /\ \A p \in DOMAIN connection_by_type : PeerOf[connection_by_type[p]] = p
    /\ stage \in [Conn -> Stages] /\ old \in [Conn -> Conn] /\ ban \in [Conn -> BOOLEAN]
    /\ closed \in [Conn -> {"no", "closing", "done"}] /\ banned_peers \subseteq Range(PeerOf)
    /\ \A c \in Conn : /\ stage[c] = "replacing" => PeerOf[old[c]] = PeerOf[c]
                       /\ stage[c] \in {"failed", "refused"} => closed[c] # "no"

\* all_connections "keeps track of all connections to and from this node": one that
\* was added and is not being closed is in it.
OpenIsListed == \A c \in Conn : stage[c] = "added" /\ closed[c] = "no" => c \in Listed

\* "... so the connections gets removed from the global list" (close): a closed
\* connection is not in the list, where nothing would remove it any more.
ListedIsOpen == \A c \in Listed : closed[c] # "done"

\* "Limit inbound connections to config's specifications."
InboundBounded == Cardinality(Inbound) <= InboundLimit

\* The two lists agree: a node that is counted against the limits of its type can be
\* sent to and closed, and the other way round (connection_added, connection_closed).
ListsAgree == connection_by_type = all_connections

\* all_connections and connection_by_type hold exactly the connections that were added
\* and are not closed, through failed handshakes, refusals, bans and closes; and no more
\* inbound ones than the configuration allows.
ListsMatch == OpenIsListed /\ ListedIsOpen /\ ListsAgree /\ InboundBounded
=============================================================================
