------------------------------ MODULE DnsClient ------------------------------
(***************************************************************************)
(* The retransmitting DNS client (DnsClientService) of every node, over an *)
(* unreliable network.                                                     *)
(*                                                                         *)
(* A module beside it (the stub resolver of a node, or the resolver of a   *)
(* provider) hands it commands: a question, an id and a pool of servers.   *)
(* It asks the first server, again after every time-out, at most           *)
(* maxAttempts times, then the next one, and reports an error after the    *)
(* last.  Time is the tick of the timer; a datagram may be lost or late.   *)
(*                                                                         *)
(* An error report is composed under an assertion that only accepts good   *)
(* news (DnsClientService.cc:143), so in a build with assertions it stops  *)
(* the simulation.                                                         *)
(***************************************************************************)
EXTENDS Naturals, Sequences, FiniteSets, FiniteSetsExt, BagsExt, SequencesExt

CONSTANTS Client,            \* the clients, and the addresses of their sockets
          ticksForTimeOut, maxAttempts,
          Running            \* no error so far

VARIABLES assertions,        \* whether the build checks assertions
          requestMap,        \* client -> id of a pending request -> its context
          tickTimer,         \* clients whose timer is scheduled
          failedServers,     \* client -> servers reported unreachable
          commands,          \* client -> commands on their way to it
          indications,       \* client -> its answers on their way back
          network,           \* the datagrams in flight
          failed             \* why the simulation stopped, or Running

clientVars == <<requestMap, tickTimer, failedServers>>
wires == <<commands, indications, network>>

ASSUME ClientConstants ==
  ticksForTimeOut \in Nat \ {0} /\ maxAttempts \in Nat \ {0}

eraseNothing(map, k) == map
erase(map, k) == [x \in DOMAIN map \ {k} |-> map[x]]

Beyond(ctx) == Len(ctx.servers) + 1

Command(id, servers, question) == [id |-> id, servers |-> servers, question |-> question]
Query(from, to, id, question) ==
  [kind |-> "query", from |-> from, to |-> to, id |-> id, question |-> question]

RequestContext(command) ==
  [servers |-> command.servers, tick |-> 0, tries |-> 0, selectedAddress |-> 1,
   question |-> command.question]

ClientInit ==
  /\ requestMap = [c \in Client |-> <<>>]
  /\ tickTimer = {}
  /\ failedServers = [c \in Client |-> {}]
  /\ commands = [c \in Client |-> <<>>]
  /\ indications = [c \in Client |-> <<>>]
  /\ network = EmptyBag
  /\ failed = Running

updateOffByOne(ctx, attempts) ==
  IF ctx.tries <= attempts
    THEN ctx
    ELSE [ctx EXCEPT !.selectedAddress = @ + 1, !.tries = 0]

(* The context after a failed attempt; it is beyond its servers when no    *)
(* other is left.                                                          *)
updateWithFailedAttempt(ctx, attempts) ==
  IF ctx.tries < attempts
    THEN ctx
    ELSE [ctx EXCEPT !.selectedAddress = @ + 1,
                     !.tries = IF ctx.selectedAddress < Len(ctx.servers) THEN 0 ELSE @]

shouldContinue(ctx, attempts) ==
  ctx.tries < attempts \/ ctx.selectedAddress < Len(ctx.servers)

(* A context beyond its servers is read out of range: the address found    *)
(* there is nobody's, or none at all and the simulation stops.             *)
OutOfRange(ctx) == ctx.selectedAddress \notin DOMAIN ctx.servers

(* The servers that have failed are skipped.  Whether one was left.        *)
sendRequest(ctx, down) ==
  LET live == {i \in ctx.selectedAddress..Len(ctx.servers) : ctx.servers[i] \notin down}
      next == Min(live)
  IN CASE OutOfRange(ctx) -> [sent |-> TRUE, ctx |-> [ctx EXCEPT !.tries = @ + 1]]
       [] ~OutOfRange(ctx) /\ live = {} ->
            [sent |-> FALSE,
             ctx |-> [ctx EXCEPT !.selectedAddress = Beyond(ctx),
                                 !.tries = IF ctx.selectedAddress < Len(ctx.servers)
                                             THEN 0 ELSE @]]
       [] OTHER ->
            [sent |-> TRUE,
             ctx |-> [ctx EXCEPT !.selectedAddress = next,
                                 !.tries = IF next = ctx.selectedAddress THEN @ + 1 ELSE 1]]

(* The datagram of a request, unless it goes to nobody.                    *)
Datagram(c, id, ctx) ==
  IF OutOfRange(ctx)
    THEN {}
    ELSE {Query(c, ctx.servers[ctx.selectedAddress], id, ctx.question)}

(* An id that is pending already is ignored, its command lost.             *)
handleRequest(c) ==
  LET command == Head(commands[c])
      request == sendRequest(RequestContext(command), failedServers[c])
  IN /\ failed = Running /\ commands[c] # <<>>
     /\ commands' = [commands EXCEPT ![c] = Tail(@)]
     /\ tickTimer' = tickTimer \cup {c}
     /\ IF command.id \in DOMAIN requestMap[c]
          THEN UNCHANGED <<requestMap, network>>
          ELSE /\ requestMap' = [requestMap EXCEPT ![c] = @ @@ command.id :> request.ctx]
               /\ network' = IF request.sent
                               THEN network (+) SetToBag(Datagram(c, command.id, request.ctx))
                               ELSE network
     /\ UNCHANGED <<assertions, failedServers, indications, failed>>

(* What a tick makes of one request.                                       *)
ticked(ctx, down) ==
  LET waiting == [ctx EXCEPT !.tick = @ + 1]
      expired == updateWithFailedAttempt([ctx EXCEPT !.tick = 0], maxAttempts)
  IN IF waiting.tick # ticksForTimeOut
       THEN [state |-> "waiting", ctx |-> waiting]
       ELSE IF ~shouldContinue(ctx, maxAttempts) \/ ~sendRequest(expired, down).sent
              THEN [state |-> "over", ctx |-> expired]
              ELSE [state |-> "sent", ctx |-> sendRequest(expired, down).ctx]

(* Ids in the order of a std::map or std::set.                             *)
InOrder(ids) ==
  CHOOSE f \in [1..Cardinality(ids) -> ids] : \A i, j \in DOMAIN f : i < j => f[i] < f[j]

(* The errors reported for the requests that are over, in the order of ids. *)
reportsForgotten(ids) == <<>>
errorReports(ids) ==
  LET order == InOrder(ids)
  IN [i \in DOMAIN order |-> [id |-> order[i], result |-> "ERROR"]]

(* The timer's next tick is scheduled first, even when nothing is left to  *)
(* wait for.                                                               *)
processRequests(c) ==
  LET after == [id \in DOMAIN requestMap[c] |-> ticked(requestMap[c][id], failedServers[c])]
      InState(s) == {id \in DOMAIN after : after[id].state = s}
      sent == UNION {Datagram(c, id, after[id].ctx) : id \in InState("sent")}
  IN /\ failed = Running /\ c \in tickTimer
     /\ IF assertions /\ InState("over") # {}
          THEN /\ failed' = "assertion"
               /\ UNCHANGED <<assertions, clientVars, wires>>
          ELSE /\ requestMap' = [requestMap EXCEPT ![c] =
                    [id \in DOMAIN after \ InState("over") |-> after[id].ctx]]
               /\ indications' = [indications EXCEPT ![c] = @ \o errorReports(InState("over"))]
               /\ network' = network (+) SetToBag(sent)
               /\ failedServers' = [failedServers EXCEPT ![c] = {}]
               /\ UNCHANGED <<assertions, tickTimer, commands, failed>>

(* A request about to be sent to what lies beyond its servers.             *)
readBeyond(c) ==
  /\ failed = Running
  /\ \/ /\ commands[c] # <<>> /\ Head(commands[c]).servers = <<>>
        /\ Head(commands[c]).id \notin DOMAIN requestMap[c]
     \/ /\ c \in tickTimer
        /\ \E id \in DOMAIN requestMap[c] :
             LET ctx == requestMap[c][id]
             IN ctx.tick + 1 = ticksForTimeOut /\ OutOfRange(ctx) /\ ctx.tries < maxAttempts
  /\ failed' = "undefined"
  /\ UNCHANGED <<assertions, clientVars, wires>>

cancelAlways(c, left) == tickTimer \ {c}
cancelIfIdle(c, left) == IF left = {} THEN tickTimer \ {c} ELSE tickTimer

(* An answer; late, repeated or unknown ones are ignored.                  *)
socketDataArrived(c, answer) ==
  /\ failed = Running /\ BagIn(answer, network)
  /\ answer.to = c /\ answer.kind = "answer"
  /\ network' = network (-) SetToBag({answer})
  /\ IF answer.id \in DOMAIN requestMap[c]
       THEN /\ requestMap' = [requestMap EXCEPT ![c] = erase(@, answer.id)]
            /\ indications' = [indications EXCEPT ![c] =
                 Append(@, [id |-> answer.id, result |-> "OK", answer |-> answer])]
            /\ tickTimer' = cancelIfIdle(c, DOMAIN requestMap[c] \ {answer.id})
       ELSE UNCHANGED <<requestMap, indications, tickTimer>>
  /\ UNCHANGED <<assertions, failedServers, commands, failed>>

(* The host answers that nobody listens at an address.                     *)
socketErrorArrived(c, query) ==
  /\ failed = Running /\ BagIn(query, network)
  /\ query.from = c /\ query.kind = "query"
  /\ network' = network (-) SetToBag({query})
  /\ failedServers' = [failedServers EXCEPT ![c] = @ \cup {query.to}]
  /\ UNCHANGED <<assertions, requestMap, tickTimer, commands, indications, failed>>

(***************************************************************************)
(* Properties                                                              *)
(***************************************************************************)

\* The tick timer runs whenever a request is pending: it is started with the first request and
\* stopped only by the answer to the last one (DnsClientService.cc:57-95, 105), so every pending
\* request meets its time-out.
PendingHaveTimer == \A c \in Client : DOMAIN requestMap[c] # {} => c \in tickTimer

\* A request is tried at most maxAttempts times at a server, and is pending beyond its last server
\* only when every server had been reported unreachable (DnsClientService.h:86, .cc:123).
AttemptsBounded ==
  \A c \in Client : \A id \in DOMAIN requestMap[c] :
    LET ctx == requestMap[c][id]
    IN ctx.tries \in 0..maxAttempts /\ ctx.selectedAddress \in 1..Beyond(ctx)
         /\ ctx.tick \in 0..(ticksForTimeOut - 1)
=============================================================================
