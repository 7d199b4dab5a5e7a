-------------------------- MODULE SocketTransport --------------------------
(***************************************************************************)
(* The socket transport: nodes dial each other, authenticate connections   *)
(* by hello and hello_ack, keep one registered connection per peer URL and *)
(* relay items (transactions, blocks and peer lists) over it.              *)
(*                                                                         *)
(* Each end of a connection has handlers of its own: lines arrive in their *)
(* order, a data handler that awaits the node keeps the rest of its chunk, *)
(* and the close event comes some time after a socket was destroyed.  What *)
(* the node makes of an item is abstracted: it accepts or refuses it.      *)
(***************************************************************************)
EXTENDS Integers, Sequences

CONSTANTS
  Hosts,
  Urls,           \* socket URLs under which nodes are known
  Owner,          \* URL -> its node
  Advertised,     \* node -> the socketUrl of its hello
  Networks,       \* the cases checked: node -> its chain, network and shared secret
  SocketTTL,      \* DEFAULT_SOCKET_GOSSIP_TTL
  MaxConnections, \* bound: connections ever dialled; what more is dialled fails at once
  MaxTasks,       \* bound: broadcasts and connectToPeers calls
  MaxStops,       \* bound: stops
  NoUrl

ASSUME SocketAssumption ==
  /\ NoUrl \notin Urls
  /\ Owner \in [Urls -> Hosts]
  /\ Advertised \in [Hosts -> Urls]
  /\ Networks \subseteq [Hosts -> Nat]
  /\ \A n \in Hosts : Owner[Advertised[n]] = n
  /\ SocketTTL \in Nat \ {0}
  /\ {MaxConnections, MaxTasks, MaxStops} \subseteq Nat

Connections == 1 .. MaxConnections

VARIABLES
  network,   \* one of Networks
  conn,      \* number -> connection
  dialled,   \* connections dialled so far
  registry,  \* node -> URL -> the number in connectionByPeerUrl, or 0
  tasks,     \* data handlers, broadcasts and connectToPeers calls that wait
  listening, \* the nodes whose server runs
  begun,     \* tasks begun from outside so far
  stops,     \* stops so far
  late       \* history: a hello_ack was handled after the close of its socket

socketVars == <<network, conn, dialled, registry, tasks, listening, begun, stops, late>>

Sides == {"dialer", "listener"}
Other(side) == IF side = "dialer" THEN "listener" ELSE "dialer"

\* A ping and its pong change nothing here (PeerHealth: SocketSays).
Lines == [type : {"hello", "hello_ack", "item"}, ttl : 0 .. SocketTTL]
Line(type) == [type |-> type, ttl |-> 0]
Item(ttl) == [type |-> "item", ttl |-> ttl]

\* One end: its socket, and what attachSocket keeps with it.
EndRecords ==
  [socket : {"absent", "opening", "open", "destroyed", "closed"}, authenticated : BOOLEAN,
   acknowledged : BOOLEAN, peerUrl : Urls \cup {NoUrl}, ready : {"pending", "resolved", "rejected"}]
Absent ==
  [socket |-> "absent", authenticated |-> FALSE, acknowledged |-> FALSE, peerUrl |-> NoUrl, ready |-> "pending"]

\* wires[side] holds the lines on their way to that side.
ConnRecords ==
  [dialer : Hosts, url : Urls, ends : [Sides -> EndRecords], wires : [Sides -> Seq(Lines)]]

NodeAt(c, side) == IF side = "dialer" THEN c.dialer ELSE Owner[c.url]
Same(n, m) == network[n] = network[m]

\* A task of a node: it awaits the node's answer on an item ("node") or goes
\* through URLs ("relay"), where it awaits a dial or not (0); then come the
\* rest of its chunk, when it is the data handler of an end.
TaskRecords ==
  [node : Hosts, stage : {"node", "relay"}, ttl : 0 .. SocketTTL, left : SUBSET Urls,
   dial : 0 .. MaxConnections, from : 0 .. MaxConnections, side : Sides, rest : Seq(Lines)]

SocketTypeOK ==
  /\ network \in Networks
  /\ dialled \in 0 .. MaxConnections
  /\ conn \in [1 .. dialled -> ConnRecords]
  /\ registry \in [Hosts -> [Urls -> 0 .. MaxConnections]]
  /\ tasks \subseteq TaskRecords
  /\ listening \subseteq Hosts
  /\ {begun, stops} \subseteq Nat
  /\ late \in BOOLEAN

SocketInit ==
  /\ network \in Networks
  /\ conn = <<>>
  /\ dialled = 0
  /\ registry = [n \in Hosts |-> [url \in Urls |-> 0]]
  /\ tasks = {}
  /\ listening = Hosts
  /\ begun = 0
  /\ stops = 0
  /\ late = FALSE

-----------------------------------------------------------------------------
(* What the handlers of a connection do: operators on a record w of the      *)
(* connections, the registry and late.                                       *)

World == [conn |-> conn, registry |-> registry, late |-> late]
Becomes(w) == conn' = w.conn /\ registry' = w.registry /\ late' = w.late

IsOpen(c, side) == c.ends[side].socket = "open"

\* A line is written; it is lost when either socket is gone.
Written(c, side, line) ==
  IF IsOpen(c, side) /\ IsOpen(c, Other(side))
  THEN [c EXCEPT !.wires[Other(side)] = Append(@, line)]
  ELSE c

Write(w, i, side, line) == [w EXCEPT !.conn[i] = Written(@, side, line)]

Rejected(ready) == IF ready = "pending" THEN "rejected" ELSE ready

\* A socket is destroyed: with an error, which rejects the dial, or without.
EndDestroyed(end, failed) ==
  [end EXCEPT !.socket = "destroyed", !.ready = IF failed THEN Rejected(@) ELSE @]

Destroyed(c, side, failed) ==
  IF c.ends[side].socket \in {"opening", "open"}
  THEN [c EXCEPT !.ends[side] = EndDestroyed(@, failed), !.wires[side] = <<>>]
  ELSE c

Destroy(w, i, side, failed) == [w EXCEPT !.conn[i] = Destroyed(@, side, failed)]

EndAuthenticated(end, url) ==
  [end EXCEPT !.authenticated = TRUE, !.acknowledged = TRUE, !.peerUrl = url,
              !.ready = IF @ = "pending" THEN "resolved" ELSE @]

\* authenticatePeer, once the proof, the chain and the network are right.
Authenticated(w, i, side) ==
  LET c == w.conn[i]
      url == Advertised[NodeAt(c, Other(side))]
      known == [w EXCEPT !.conn[i].ends[side] = EndAuthenticated(@, url),
                         !.registry[NodeAt(c, side)][url] = i,
                         !.late = @ \/ c.ends[side].socket = "closed"]
  IN IF side = "listener" \/ ~c.ends[side].acknowledged
     THEN Write(known, i, side, Line("hello_ack")) ELSE known

\* Mutants of HandleLine: whatever chain and network the peer is on.
HandleLineOfAny(w, i, side, line) ==
  IF line.type \in {"hello", "hello_ack"} THEN Authenticated(w, i, side) ELSE Destroy(w, i, side, TRUE)

\* handleMessage of all lines but the items of an authenticated peer: nothing
\* in it awaits.
HandleLine(w, i, side, line) ==
  LET c == w.conn[i]
  IN IF /\ line.type \in {"hello", "hello_ack"}
        /\ Same(c.dialer, Owner[c.url])
     THEN Authenticated(w, i, side) ELSE Destroy(w, i, side, TRUE)

-----------------------------------------------------------------------------
(* Events of a socket. *)

\* The server accepts; the dialer's connect event sends its hello.
Connect(i) ==
  LET c == conn[i]
  IN /\ c.ends["dialer"].socket = "opening"
     /\ Owner[c.url] \in listening
     /\ conn' = [conn EXCEPT ![i] =
                   [@ EXCEPT !.ends["dialer"].socket = "open", !.ends["listener"].socket = "open",
                             !.wires["listener"] = <<Line("hello")>>]]
     /\ UNCHANGED <<network, dialled, registry, tasks, listening, begun, stops, late>>

\* A line that needs no await, or an item that comes before the handshake.
Receive(i, side) ==
  LET c == conn[i]
  IN /\ IsOpen(c, side)
     /\ c.wires[side] # <<>>
     /\ Head(c.wires[side]).type # "item" \/ ~c.ends[side].authenticated
     /\ Becomes(HandleLine([World EXCEPT !.conn[i].wires[side] = Tail(@)], i, side, Head(c.wires[side])))
     /\ UNCHANGED <<network, dialled, tasks, listening, begun, stops>>

\* A chunk that begins with an item: its handler awaits the node and keeps
\* what else the chunk holds.
ReceiveItem(i, side) ==
  LET c == conn[i]
      wire == c.wires[side]
  IN /\ IsOpen(c, side)
     /\ wire # <<>>
     /\ Head(wire).type = "item"
     /\ c.ends[side].authenticated
     /\ \E k \in 1 .. Len(wire) :
          /\ conn' = [conn EXCEPT ![i].wires[side] = SubSeq(wire, k + 1, Len(wire))]
          /\ tasks' = tasks \cup
               {[node |-> NodeAt(c, side), stage |-> "node", ttl |-> Head(wire).ttl, left |-> {},
                 dial |-> 0, from |-> i, side |-> side, rest |-> SubSeq(wire, 2, k)]}
     /\ UNCHANGED <<network, dialled, registry, listening, begun, stops, late>>

\* The handshake timer of an end that is not authenticated.
HandshakeTimeout(i, side) ==
  /\ conn[i].ends[side].socket \in {"opening", "open"}
  /\ ~conn[i].ends[side].authenticated
  /\ Becomes(Destroy(World, i, side, TRUE))
  /\ UNCHANGED <<network, dialled, tasks, listening, begun, stops>>

\* The dial fails, or the other end of the socket is gone.
Hangup(i, side) ==
  /\ \/ /\ conn[i].ends[side].socket = "opening"
        /\ Becomes(Destroy(World, i, side, TRUE))
     \/ /\ IsOpen(conn[i], side)
        /\ conn[i].ends[Other(side)].socket \in {"destroyed", "closed"}
        /\ \E failed \in BOOLEAN : Becomes(Destroy(World, i, side, failed))
  /\ UNCHANGED <<network, dialled, tasks, listening, begun, stops>>

\* The close event: a dial without an answer is rejected.
EndClosed(end) == [end EXCEPT !.socket = "closed", !.ready = Rejected(@)]

\* Mutants of Close: the registration stays; a dial is not rejected.
CloseKept(i, side) ==
  /\ conn[i].ends[side].socket = "destroyed"
  /\ conn' = [conn EXCEPT ![i].ends[side] = EndClosed(@)]
  /\ UNCHANGED <<network, dialled, registry, tasks, listening, begun, stops, late>>
CloseSilent(i, side) ==
  LET end == conn[i].ends[side]
  IN /\ end.socket = "destroyed"
     /\ conn' = [conn EXCEPT ![i].ends[side].socket = "closed"]
     /\ registry' = IF end.peerUrl = NoUrl THEN registry
                    ELSE [registry EXCEPT ![NodeAt(conn[i], side)][end.peerUrl] = 0]
     /\ UNCHANGED <<network, dialled, tasks, listening, begun, stops, late>>

\* The close event drops what is registered for the peer's URL, of whichever
\* connection that is.
Close(i, side) ==
  LET end == conn[i].ends[side]
  IN /\ end.socket = "destroyed"
     /\ conn' = [conn EXCEPT ![i].ends[side] = EndClosed(end)]
     /\ registry' = IF end.peerUrl = NoUrl THEN registry
                    ELSE [registry EXCEPT ![NodeAt(conn[i], side)][end.peerUrl] = 0]
     /\ UNCHANGED <<network, dialled, tasks, listening, begun, stops, late>>

-----------------------------------------------------------------------------
(* Tasks. *)

\* The side of connection i that belongs to node n.
SideOf(i, n) == IF conn[i].dialer = n THEN "dialer" ELSE "listener"

\* An item is written to registered connections, or to the one just dialled.
Sent(w, task, numbers) ==
  IF task.ttl = 0 THEN w
  ELSE [w EXCEPT !.conn = [i \in DOMAIN @ |->
          IF i \in numbers THEN Written(@[i], SideOf(i, task.node), Item(task.ttl)) ELSE @[i]]]

\* createConnection and attachSocket.
Dialled(n, url) ==
  [dialer |-> n, url |-> url, wires |-> [side \in Sides |-> <<>>],
   ends |-> [side \in Sides |->
               IF side = "dialer" THEN [Absent EXCEPT !.socket = "opening", !.peerUrl = url] ELSE Absent]]

\* The place of the first item in the rest of a chunk, or the one behind it.
FirstItem(rest) ==
  CHOOSE k \in 1 .. Len(rest) + 1 :
    /\ k = Len(rest) + 1 \/ rest[k].type = "item"
    /\ \A l \in 1 .. k - 1 : rest[l].type # "item"

\* The first lines of the rest of a chunk, one after the other.
Handled(w, task, count) ==
  LET after[k \in 0 .. count] ==
        IF k = 0 THEN w ELSE HandleLine(after[k - 1], task.from, task.side, task.rest[k])
  IN after[count]

\* All is relayed: a data handler goes on with its chunk up to the next item,
\* whatever became of the socket meanwhile.
Finish(w, task, others) ==
  LET k == FirstItem(task.rest)
  IN /\ Becomes(Handled(w, task, k - 1))
     /\ tasks' = IF k > Len(task.rest) THEN others
                 ELSE others \cup {[task EXCEPT !.stage = "node", !.ttl = task.rest[k].ttl, !.left = {}, !.dial = 0,
                                                !.rest = SubSeq(task.rest, k + 1, Len(task.rest))]}
     /\ UNCHANGED <<network, dialled>>

\* connectToPeer of one URL after the other: over what is registered the item
\* goes at once, for the first that is not, the task awaits a dial.
Relay(w, task, others) ==
  LET registered == {url \in task.left : w.registry[task.node][url] # 0}
      numbers(urls) == {w.registry[task.node][url] : url \in urls}
  IN \/ /\ registered = task.left \/ dialled = MaxConnections
        /\ Finish(Sent(w, task, numbers(registered)), task, others)
     \/ /\ dialled < MaxConnections
        /\ \E url \in task.left \ registered, sent \in SUBSET registered :
             /\ conn' = Append(Sent(w, task, numbers(sent)).conn, Dialled(task.node, url))
             /\ tasks' = others \cup
                  {[task EXCEPT !.stage = "relay", !.left = @ \ (sent \cup {url}), !.dial = dialled + 1]}
        /\ dialled' = dialled + 1
        /\ registry' = w.registry
        /\ late' = w.late
        /\ UNCHANGED network

\* getBroadcastPeers: some peers, without those that are excluded.
Targets(n, excluded) == SUBSET {url \in Urls \ excluded : Owner[url] # n}

\* Mutants of SocketBroadcast: one hop too many.
BroadcastFurther(n, ttl) ==
  /\ begun < MaxTasks
  /\ \E targets \in Targets(n, {}) \ {{}} :
       Relay(World, [node |-> n, stage |-> "relay", ttl |-> ttl + 1, left |-> targets, dial |-> 0,
                     from |-> 0, side |-> "dialer", rest |-> <<>>], tasks)
  /\ begun' = begun + 1
  /\ UNCHANGED <<network, listening, stops>>

\* broadcastTransaction, broadcastBlock and broadcastPeers, and (without an
\* item: ttl 0) connectToPeers.
SocketBroadcast(n, ttl) ==
  /\ begun < MaxTasks
  /\ \E targets \in Targets(n, {}) \ {{}} :
       Relay(World, [node |-> n, stage |-> "relay", ttl |-> ttl, left |-> targets, dial |-> 0,
                     from |-> 0, side |-> "dialer", rest |-> <<>>], tasks)
  /\ begun' = begun + 1
  /\ UNCHANGED <<network, listening, stops>>

\* The node accepted the item: it is relayed to others, with one hop less.
Accepted(task) ==
  /\ task.stage = "node"
  /\ \E targets \in Targets(task.node, {conn[task.from].ends[task.side].peerUrl}) :
       Relay(World, [task EXCEPT !.ttl = @ - 1, !.left = IF task.ttl = 1 THEN {} ELSE targets], tasks \ {task})
  /\ UNCHANGED <<network, listening, begun, stops>>

\* The node refused it, be it for having it: the connection goes down.
Refused(task) ==
  /\ task.stage = "node"
  /\ tasks' = tasks \ {task}
  /\ Becomes(Destroy(World, task.from, task.side, TRUE))
  /\ UNCHANGED <<network, dialled, listening, begun, stops>>

\* The dial's promise is settled, and the task goes on.
DialSettled(task) ==
  /\ task.dial # 0
  /\ LET ready == conn[task.dial].ends["dialer"].ready
     IN /\ ready # "pending"
        /\ Relay(Sent(World, task, IF ready = "resolved" THEN {task.dial} ELSE {}),
                 [task EXCEPT !.dial = 0], tasks \ {task})
  /\ UNCHANGED <<network, listening, begun, stops>>

-----------------------------------------------------------------------------
(* stop, and the start of another process. *)

\* All connections of a node get another state of their socket.
Gone(n, socket) ==
  [i \in 1 .. dialled |->
     LET mine(side) == /\ NodeAt(conn[i], side) = n
                       /\ conn[i].ends[side].socket \in {"opening", "open", "destroyed"}
     IN [conn[i] EXCEPT !.ends = [side \in Sides |->
                          IF mine(side) THEN [@[side] EXCEPT !.socket = socket] ELSE @[side]],
                        !.wires = [side \in Sides |-> IF mine(side) THEN <<>> ELSE @[side]]]]

Stop(n) ==
  /\ stops < MaxStops
  /\ n \in listening
  /\ conn' = Gone(n, "destroyed")
  /\ registry' = [registry EXCEPT ![n] = [url \in Urls |-> 0]]
  /\ listening' = listening \ {n}
  /\ stops' = stops + 1
  /\ UNCHANGED <<network, dialled, tasks, begun, late>>

\* A process that crashed has not run anything between the two.
SocketRestart(n) ==
  /\ n \notin listening
  /\ conn' = Gone(n, "closed")
  /\ registry' = [registry EXCEPT ![n] = [url \in Urls |-> 0]]
  /\ tasks' = {task \in tasks : task.node # n}
  /\ listening' = listening \cup {n}
  /\ UNCHANGED <<network, dialled, begun, stops, late>>

-----------------------------------------------------------------------------
SocketNext ==
  \/ \E i \in 1 .. dialled :
       \/ Connect(i)
       \/ \E side \in Sides :
            \/ Receive(i, side) \/ ReceiveItem(i, side) \/ HandshakeTimeout(i, side)
            \/ Hangup(i, side) \/ Close(i, side)
  \/ \E n \in Hosts : (\E ttl \in {0, SocketTTL} : SocketBroadcast(n, ttl)) \/ Stop(n) \/ SocketRestart(n)
  \/ \E task \in tasks :
       Accepted(task) \/ Refused(task) \/ DialSettled(task)

\* Timers fire, sockets that are destroyed close, and settled dials go on;
\* nothing is assumed of the network or of the other node.
SocketFairness ==
  \A i \in Connections :
    /\ WF_socketVars(i <= dialled /\ HandshakeTimeout(i, "dialer"))
    /\ WF_socketVars(i <= dialled /\ Close(i, "dialer"))
    /\ WF_socketVars(\E task \in tasks : task.dial = i /\ DialSettled(task))

SocketSpec == SocketInit /\ [][SocketNext]_socketVars /\ SocketFairness
-----------------------------------------------------------------------------
(* Properties. *)

\* With nodes that dial each other at once, dials that fail next to others of
\* the same URL, refused items, stops and restarts, whose close events come
\* late and in any order: a relay finds registered only a connection to that
\* URL's node, whose handshake it has seen and whose close event is yet to
\* come.  The exception is a hello_ack that waited behind an item until after
\* the close: authenticatePeer registers a socket that no event will drop.
RegisteredIsAlive ==
  \A n \in Hosts, url \in Urls :
    registry[n][url] # 0 =>
      LET c == conn[registry[n][url]]
          side == SideOf(registry[n][url], n)
      IN /\ c.ends[side].authenticated
         /\ NodeAt(c, Other(side)) = Owner[url]
         /\ c.ends[side].socket # "closed" \/ late

\* A dial of connectToPeer is answered (connection.ready) only after the other
\* node authenticated this one too, and neither accepts a peer of another chain
\* or secret.  Where connectToPeer finds the URL registered it returns at once,
\* maybe a connection the peer dialled, registered at its hello, whose
\* hello_ack the peer has not handled yet: of those RegisteredIsAlive says all
\* there is to say.
ReadyIsMutual ==
  \A i \in 1 .. dialled :
    LET c == conn[i]
    IN /\ c.ends["dialer"].ready = "resolved" =>
            c.ends["listener"].authenticated /\ Same(c.dialer, Owner[c.url])
       /\ c.ends["listener"].authenticated => Same(c.dialer, Owner[c.url])

\* No relay and no connectToPeers call waits for ever for a dial, whether the
\* peer never accepts, never answers, hangs up or answers wrongly, or this
\* node stops meanwhile (readyResolve, readyReject).
DialsAreAnswered ==
  \A i \in Connections : (\E task \in tasks : task.dial = i) ~> (\A task \in tasks : task.dial # i)
=============================================================================
