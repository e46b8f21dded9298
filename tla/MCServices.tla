----------------------------- MODULE MCServices ------------------------------
(***************************************************************************)
(* Small scenarios: one client (on a node with a proxy, or alone), one or  *)
(* two services behind the proxy of a fog node, and two or three nodes     *)
(* that talk through the message queue.                                    *)
(***************************************************************************)
EXTENDS Services

MCNodeOf == [a \in App |-> CASE a \in {"client", "guest"} -> "centre" [] a = "tile" -> "edge" [] OTHER -> "fog"]

Nothing == [a \in App |-> "none"]
Plain == [kind |-> Nothing, service |-> Nothing, numericHost |-> FALSE, resolved |-> TRUE,
          serverNode |-> "fog", names |-> 1, samples |-> 4, actuators |-> TRUE, closing |-> {}, stopTime |-> FALSE,
          poweredOnStart |-> FALSE, preemptiveQueueAllocation |-> TRUE, usesQueue |-> {},
          straddling |-> FALSE]
Installed(kinds, services) ==
  [Plain EXCEPT !.kind = kinds @@ Nothing, !.service = services @@ Nothing]

Client(kind) == "client" :> kind
Servers(one, other) == "server" :> one @@ "rival" :> other
OneService == "client" :> "s1" @@ "tile" :> "s1" @@ "server" :> "s1"
TwoServices == OneService @@ "rival" :> "s2"
SharedService == OneService @@ "rival" :> "s1"

Probing == Installed(Client("ProbingClient") @@ Servers("ServerEndpoint", "IotService"), TwoServices)
Shared == Installed(Client("ProbingClient") @@ Servers("IotService", "ServerEndpoint"), SharedService)
Asking == Installed(Client("ClientEndpoint") @@ Servers("IotService", "none"), OneService)
Tile(server) == Installed("tile" :> "IotApplication" @@ "server" :> server, OneService)
LocalTile == Installed("tile" :> "LocalIotApplication", OneService)
TileClient == Installed("tile" :> "ClientEndpoint" @@ "server" :> "ServerEndpoint", OneService)

BothClients ==
  Installed("client" :> "ProbingClient" @@ "tile" :> "ClientEndpoint"
              @@ "server" :> "ServerEndpoint", OneService)

TwoAtOnce ==
  Installed("client" :> "ProbingClient" @@ "guest" :> "ClientEndpoint"
              @@ "server" :> "ServerEndpoint", "guest" :> "s1" @@ OneService)

Queueing == [Plain EXCEPT !.usesQueue = Topic]
StraddlingSetups == {[Queueing EXCEPT !.straddling = TRUE]}

MCSetups ==
  {BothClients, Probing, Shared, [Probing EXCEPT !.names = 2],
   [Asking EXCEPT !.numericHost = TRUE],
   [Asking EXCEPT !.resolved = FALSE],
   [Asking EXCEPT !.serverNode = "edge"],
   [Asking EXCEPT !.closing = {"client"}, !.numericHost = TRUE],
   [Asking EXCEPT !.closing = {"server"}, !.numericHost = TRUE],
   [TileClient EXCEPT !.closing = {"tile"}, !.numericHost = TRUE],
   Tile("IotService"), [Tile("IotService") EXCEPT !.names = 2, !.samples = 2],
   [Tile("IotService") EXCEPT !.actuators = FALSE], [Tile("ServerEndpoint") EXCEPT !.samples = 2], TwoAtOnce,
   [Tile("IotService") EXCEPT !.closing = {"server"}, !.samples = 0],
   [Tile("IotService") EXCEPT !.resolved = FALSE],
   LocalTile, [LocalTile EXCEPT !.poweredOnStart = TRUE], [LocalTile EXCEPT !.stopTime = TRUE]}
  \cup {Queueing, [Queueing EXCEPT !.preemptiveQueueAllocation = FALSE]} \cup StraddlingSetups
=============================================================================
