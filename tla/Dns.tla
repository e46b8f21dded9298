--------------------------------- MODULE Dns ---------------------------------
(***************************************************************************)
(* Name resolution end to end: the stub resolver of a node                 *)
(* (StubDnsResolver), the provider's resolver (DnsResolverService), the    *)
(* server of a zone (DnsServiceSimplified) with its registry               *)
(* (DnsRegistryService), and the clients both resolvers send through.      *)
(*                                                                         *)
(* A node asks either the resolver or a server directly ("ispResolver").   *)
(* The resolver answers from its database or asks the name servers it      *)
(* knows at the level it got to, aggregating requests that wait for the    *)
(* same question.                                                          *)
(*                                                                         *)
(* Every request in the code carries one question and the opcode QUERY,    *)
(* and every server is authoritative (the pattern "" matches everything),  *)
(* so the branches for other requests are left out.                        *)
(***************************************************************************)
EXTENDS DnsClient, DnsTree

CONSTANTS MaxLookups,
          ResolverIp, ServerIp,
          Setups             \* the configurations: the names looked up and how many times, the
                             \* address the node asks, the zones of resolver and server, what
                             \* peers register or remove ([verb, zone, record]), and whether
                             \* the build has assertions

User == "user"               \* the client of the node's stub
Resolver == "resolver"       \* the client of the provider's resolver

ASSUME DnsConstants ==
  /\ Client = {User, Resolver} /\ MaxLookups \in Nat
  /\ Running \notin {"assertion", "undefined", "unknown id", "unknown request", "null pointer",
                      "invalid name", "stack overflow"}
  /\ \A s \in Setups :
       /\ s.lookups \in 0..MaxLookups /\ s.names \subseteq Name /\ s.ispResolver \in STRING
       /\ AreZones(s.resolverZones) /\ AreZones(s.serverZones)
       /\ \A r \in s.registrations : r.zone \in Name /\ r.record \in Record

VARIABLES setup,
          pendingRequests,   \* stub: id -> the name looked up
          stubLastId, stubDb,
          answered,          \* stub: id -> the name and what was answered (history)
          resolverDb, resolutions,
          questionMap,       \* question asked -> the resolution that asked
          questionRequests,  \* resolver's requestMap: resolution -> those that wait for it
          lastId, lastQuestionId,
          serverDb,
          served,            \* all the server ever held (history)
          registrations      \* still to come

stubVars == <<setup, pendingRequests, stubLastId, stubDb, answered>>
resolverVars == <<resolverDb, resolutions, questionMap, questionRequests, lastId, lastQuestionId>>
serverVars == <<serverDb, served, registrations>>
vars == <<stubVars, resolverVars, serverVars, assertions, clientVars, wires, failed>>

ispResolver == setup.ispResolver

RecordsOf(db) == UNION {db[n] : n \in DOMAIN db}

ServerInit ==
  /\ serverDb = zoneConfig(setup.serverZones)
  /\ registrations = setup.registrations
  /\ served = RecordsOf(serverDb)

Init ==
  /\ ClientInit
  /\ setup \in Setups /\ assertions = setup.assertions
  /\ resolverDb = zoneConfig(setup.resolverZones)
  /\ ServerInit
  /\ pendingRequests = <<>> /\ stubLastId = 0 /\ stubDb = EmptyTree /\ answered = <<>>
  /\ resolutions = <<>> /\ questionMap = <<>> /\ questionRequests = <<>>
  /\ lastId = 0 /\ lastQuestionId = 0

Stop(why) == failed' = why /\ UNCHANGED <<assertions, clientVars, wires>>

(***************************************************************************)
(* The stub resolver                                                       *)
(***************************************************************************)

(* What the stub would answer by itself: only a node of the last level     *)
(* with children could do it, and there is none in a tree of two levels.   *)
cachedRecords(domain) ==
  LET node == searchRecords(stubDb, domain)
  IN IF node # NoNode /\ Level(node) = "AUTHORITATIVE" /\ HasChildren(stubDb, node)
       THEN {r \in getRecords(stubDb, node) : matchWithWildcard(r, domain)}
       ELSE {}

(* AppBase::resolve and the request it makes of the stub.                  *)
resolve(domain) ==
  LET command == Command(stubLastId, <<ispResolver>>, domain)
  IN /\ failed = Running /\ stubLastId < setup.lookups
     /\ stubLastId' = stubLastId + 1
     /\ IF cachedRecords(domain) # {}
          THEN /\ answered' = answered @@ stubLastId :>
                    [domain |-> domain, records |-> cachedRecords(domain)]
               /\ UNCHANGED <<pendingRequests, commands>>
          ELSE /\ pendingRequests' = pendingRequests @@ stubLastId :> domain
               /\ commands' = [commands EXCEPT ![User] = Append(@, command)]
               /\ UNCHANGED answered
     /\ UNCHANGED <<setup, stubDb, resolverVars, serverVars, assertions, clientVars,
                    indications, network, failed>>

(* The records of a good answer; they are kept under the name asked.       *)
processIndication(indication) ==
  IF indication.result = "OK" /\ indication.answer.returnCode = "NOERROR"
    THEN indication.answer.records ELSE {}

stubHandleResponse ==
  LET indication == Head(indications[User])
      id == indication.id
      records == processIndication(indication)
  IN /\ failed = Running /\ indications[User] # <<>>
     /\ IF id \notin DOMAIN pendingRequests
          THEN Stop("unknown id") /\ UNCHANGED stubVars
          ELSE /\ stubDb' = insertRecords(stubDb, pendingRequests[id], records)
               /\ answered' = answered @@ id :>
                    [domain |-> pendingRequests[id], records |-> records]
               /\ pendingRequests' = erase(pendingRequests, id)
               /\ indications' = [indications EXCEPT ![User] = Tail(@)]
               /\ UNCHANGED <<setup, stubLastId, assertions, clientVars, commands,
                              network, failed>>
     /\ UNCHANGED <<resolverVars, serverVars>>

(***************************************************************************)
(* The provider's resolver.  A work record w carries one resolution (res)  *)
(* through the handlers, with the tables they change, the commands and     *)
(* the answers they send, and the error that ends it all.                  *)
(***************************************************************************)
Resolution(id, query) ==
  [id |-> id, remote |-> query.from, request |-> query.id, asked |-> query.question,
   question |-> query.question, state |-> "INIT", records |-> {}]

hasFinished(res) == res.state \in {"RESOLVED", "NOT_FOUND"}

Work(res, db, questions, requests, lastQuestion) ==
  [res |-> res, db |-> db, questionMap |-> questions, requests |-> requests,
   lastQuestionId |-> lastQuestion, commands |-> <<>>, sent |-> EmptyBag,
   erased |-> FALSE, error |-> Running]

Answer(to, id, question, code, authoritative, records) ==
  [kind |-> "answer", to |-> to, id |-> id, question |-> question, returnCode |-> code,
   isAuthoritative |-> authoritative, records |-> records]

sendResponse(w) ==
  LET code == IF w.res.state = "RESOLVED" THEN "NOERROR" ELSE "NXDOMAIN"
  IN [w EXCEPT !.sent = @ (+) SetToBag({Answer(w.res.remote, w.res.request, w.res.asked,
                                               code, FALSE, w.res.records)})]

makeTransition(w, state) ==
  LET moved == [w EXCEPT !.res.state = state]
  IN IF hasFinished(moved.res) THEN sendResponse(moved) ELSE moved

waitFor(w, id) ==
  [w EXCEPT !.requests = (id :> ({w.res.id} \cup IF id \in DOMAIN @ THEN @[id] ELSE {})) @@ @]

(* The name servers of a zone, or those of its parent that are named       *)
(* after the zone.                                                         *)
ipPool(w, node) ==
  LET source == IF Level(node) = "AUTHORITATIVE" THEN Front(node) ELSE node
      ns == {r \in getRecords(w.db, source) : r.type = "NS" /\
               (Level(node) = "AUTHORITATIVE" => matchesAuthorityDomain(r, w.res.question))}
      order == SetToSeq(ns)
  IN [i \in DOMAIN order |-> order[i].ip]

neverAsked(w, q) == FALSE
alreadyAsked(w, q) == q \in DOMAIN w.questionMap

registerQuestion(w, node) ==
  LET q == getQuestionForLevel(w.res.question, Level(node))
      asked == [waitFor(w, w.res.id) EXCEPT
                  !.questionMap = (q :> w.res.id) @@ @,
                  !.lastQuestionId = @ + 1,
                  !.commands = Append(@, Command(w.lastQuestionId, ipPool(w, node), w.res.question))]
  IN CASE ~QuestionDefined(w.res.question, Level(node)) -> [w EXCEPT !.error = "invalid name"]
       [] QuestionDefined(w.res.question, Level(node)) /\ alreadyAsked(w, q) ->
            waitFor(w, w.questionMap[q])
       [] OTHER ->
            IF Level(node) = "AUTHORITATIVE" /\ getRecords(w.db, Front(node)) = {}
              THEN [w EXCEPT !.error = "null pointer"]
              ELSE IF assertions /\ ipPool(w, node) = <<>>
                     THEN [w EXCEPT !.error = "assertion"]
                     ELSE asked

matchingAliases(w, node) ==
  {r \in getRecords(w.db, node) : r.type = "CNAME" => matchWithWildcard(r, w.res.question)}
matching(w, node) == {r \in getRecords(w.db, node) : matchWithWildcard(r, w.res.question)}

aliases(w, node) == {r \in matching(w, node) : r.type = "CNAME"}

AliasMet(w) ==
  LET node == searchRecords(w.db, w.res.question)
  IN node # NoNode /\ Level(node) = "AUTHORITATIVE" /\ aliases(w, node) # {}

(* An alias changes the question.  The records met before it are kept;     *)
(* aliasFirst: there are none.                                             *)
followAlias(w, aliasFirst) ==
  LET node == searchRecords(w.db, w.res.question)
      before == IF aliasFirst THEN {} ELSE matching(w, node) \ aliases(w, node)
  IN IF AliasMet(w)
       THEN [w EXCEPT !.res.question = (CHOOSE r \in aliases(w, node) : TRUE).contents,
                      !.res.records = @ \cup before]
       ELSE w

(* The calls that aliases nest.  More of them than there are records have  *)
(* come back to a name, and never end.                                     *)
followAliases(w, aliasFirst) ==
  LET last == Cardinality(RecordsOf(w.db))
      after[n \in 0..last] == IF n = 0 THEN w ELSE followAlias(after[n - 1], aliasFirst)
  IN IF AliasMet(after[last]) THEN [w EXCEPT !.error = "stack overflow"] ELSE after[last]

(* The node holds no alias of the question any more.                       *)
processAuthResolution(w, node) ==
  LET found == [w EXCEPT !.res.records = @ \cup matching(w, node)]
  IN CASE found.res.records # {} -> makeTransition(found, "RESOLVED")
       [] found.res.records = {} /\ w.res.state = "INIT" ->
            registerQuestion(makeTransition(w, "AUTH_RESOLUTION"), node)
       [] OTHER -> makeTransition(w, "NOT_FOUND")

(* What follows once the aliases are resolved.                             *)
processName(w) ==
  LET node == searchRecords(w.db, w.res.question)
  IN CASE getRecords(w.db, node) = {} -> makeTransition(w, "NOT_FOUND")
       [] getRecords(w.db, node) # {} /\ Level(node) = "AUTHORITATIVE" ->
            processAuthResolution(w, node)
       [] getRecords(w.db, node) # {} /\ Level(node) = "ROOT" ->
            registerQuestion(makeTransition(w, "TLD_RESOLUTION"), node)
       [] OTHER -> registerQuestion(makeTransition(w, "NS_RESOLUTION"), node)

eraseFinished(w, known) == [w EXCEPT !.erased = hasFinished(w.res) /\ known]

(* A resolution whose first name has no records is answered, but not       *)
(* erased.                                                                 *)
processUnaliased(last, known) ==
  IF last.error # Running THEN last ELSE eraseFinished(processName(last), known)

processResolution(w, aliasFirst) ==
  processUnaliased(followAliases(w, aliasFirst),
                   getRecords(w.db, searchRecords(w.db, w.res.question)) # {})

acceptRequest(query, w) ==
  IF w.error # Running
    THEN Stop(w.error) /\ UNCHANGED resolverVars
    ELSE /\ network' = (network (-) SetToBag({query})) (+) w.sent
         /\ commands' = [commands EXCEPT ![Resolver] = @ \o w.commands]
         /\ lastId' = lastId + 1 /\ lastQuestionId' = w.lastQuestionId
         /\ questionMap' = w.questionMap /\ questionRequests' = w.requests
         /\ resolutions' = IF hasFinished(w.res) THEN resolutions
                                                ELSE resolutions @@ lastId :> w.res
         /\ UNCHANGED <<resolverDb, assertions, clientVars, indications, failed>>

resolverHandleRequest(query, aliasFirst) ==
  /\ failed = Running /\ BagIn(query, network)
  /\ query.kind = "query" /\ query.to = ResolverIp
  /\ acceptRequest(query, processResolution(
                            Work(Resolution(lastId, query), resolverDb, questionMap,
                                 questionRequests, lastQuestionId), aliasFirst))
  /\ UNCHANGED <<stubVars, serverVars>>

(* The answers to the resolutions of a request, each to its own client.    *)
markFailedResolutions(ids, table) ==
  LET answer(id) == Answer(table[id].remote, table[id].request, table[id].asked,
                           "NXDOMAIN", FALSE, table[id].records)
      answers == {answer(id) : id \in ids}
  IN [sent |-> [a \in answers |-> Cardinality({id \in ids : answer(id) = a})],
      resolutions |-> [id \in DOMAIN table \ ids |-> table[id]]]

(* One resolution of a request, unless an earlier one ended it all.        *)
Stored(w, table, id) ==
  [w |-> w, table |-> IF w.erased THEN erase(table, id) ELSE [table EXCEPT ![id] = w.res]]

reprocessOne(all, id, aliasFirst) ==
  IF all.w.error # Running
    THEN all
    ELSE Stored(processResolution([all.w EXCEPT !.res = all.table[id], !.erased = FALSE],
                                  aliasFirst), all.table, id)

(* All the resolutions of a request, one after the other.                  *)
reprocess(ids, table, db, aliasFirst) ==
  LET order == InOrder(ids)
      work == Work(Running, db, questionMap, questionRequests, lastQuestionId)
      after[n \in 0..Len(order)] ==
        IF n = 0 THEN [w |-> work, table |-> table]
                 ELSE reprocessOne(after[n - 1], order[n], aliasFirst)
  IN after[Len(order)]

Consume == indications' = [indications EXCEPT ![Resolver] = Tail(@)]

Release(requests, questions, id, question) ==
  questionRequests' = erase(requests, id) /\ questionMap' = erase(questions, question)

failRequest(marked) ==
  /\ Consume
  /\ network' = network (+) marked.sent /\ resolutions' = marked.resolutions
  /\ UNCHANGED <<resolverDb, commands, lastId, lastQuestionId, assertions, clientVars, failed>>

answerRequest(done, id, answer, db) ==
  IF done.w.error # Running
    THEN Stop(done.w.error) /\ UNCHANGED resolverVars
    ELSE /\ Consume /\ Release(done.w.requests, done.w.questionMap, id, answer.question)
         /\ resolverDb' = db /\ resolutions' = done.table
         /\ lastQuestionId' = done.w.lastQuestionId
         /\ commands' = [commands EXCEPT ![Resolver] = @ \o done.w.commands]
         /\ network' = network (+) done.w.sent
         /\ UNCHANGED <<lastId, assertions, clientVars, failed>>

(* An error leaves the question and its entry where they are; otherwise    *)
(* the entry goes, with the one the resolutions may just have made there,  *)
(* and the question, if it was asked under the full name.                  *)
resolverHandleResponse(aliasFirst) ==
  LET indication == Head(indications[Resolver])
      id == indication.id
      ids == questionRequests[id]
      answer == indication.answer
      good == answer.returnCode = "NOERROR"
      db == insertRecords(resolverDb, answer.question, answer.records)
  IN /\ failed = Running /\ indications[Resolver] # <<>>
     /\ IF id \notin DOMAIN questionRequests
          THEN Stop("unknown request") /\ UNCHANGED resolverVars
        ELSE IF ~(ids \subseteq DOMAIN resolutions)
          THEN Stop("null pointer") /\ UNCHANGED resolverVars
        ELSE IF indication.result = "ERROR"
          THEN /\ failRequest(markFailedResolutions(ids, resolutions))
               /\ UNCHANGED <<questionMap, questionRequests>>
        ELSE IF ~good
          THEN /\ failRequest(markFailedResolutions(ids, resolutions))
               /\ Release(questionRequests, questionMap, id, answer.question)
          ELSE answerRequest(reprocess(ids, resolutions, db, aliasFirst), id, answer, db)
     /\ UNCHANGED <<stubVars, serverVars>>

(***************************************************************************)
(* The server of a zone and its registry                                   *)
(***************************************************************************)

QueryArrives(query) ==
  /\ failed = Running /\ BagIn(query, network)
  /\ query.kind = "query" /\ query.to = ServerIp

(* All the records of the node are sent, whichever name was asked.         *)
handleQuery(query) ==
  LET records == getRecords(serverDb, searchRecords(serverDb, query.question))
      code == IF records = {} THEN "NXDOMAIN" ELSE "NOERROR"
      answer == Answer(query.from, query.id, query.question, code, records # {}, records)
  IN /\ QueryArrives(query)
     /\ network' = (network (-) SetToBag({query})) (+) SetToBag({answer})
     /\ UNCHANGED <<stubVars, resolverVars, serverVars, assertions, clientVars, commands,
                    indications, failed>>

processRequest(request) ==
  /\ failed = Running /\ request \in registrations
  /\ IF request.verb = "DELETE" /\ ~RemovalDefined(serverDb, request.zone)
       THEN Stop("null pointer") /\ UNCHANGED serverVars
       ELSE /\ serverDb' = IF request.verb = "PUT"
                             THEN insertRecord(serverDb, request.zone, request.record)
                             ELSE removeRecord(serverDb, request.zone, request.record)
            /\ served' = served \cup RecordsOf(serverDb')
            /\ registrations' = registrations \ {request}
            /\ UNCHANGED <<assertions, clientVars, wires, failed>>
  /\ UNCHANGED <<stubVars, resolverVars>>

unreachable(c, query) ==
  /\ query.kind = "query" /\ query.to \notin {ResolverIp, ServerIp}
  /\ socketErrorArrived(c, query)

Clients ==
  /\ \E c \in Client : \/ handleRequest(c) \/ processRequests(c) \/ readBeyond(c)
                       \/ \E d \in BagToSet(network) : socketDataArrived(c, d) \/ unreachable(c, d)
  /\ UNCHANGED <<stubVars, resolverVars, serverVars>>

Next ==
  \/ \E domain \in setup.names : resolve(domain)
  \/ stubHandleResponse
  \/ \E d \in BagToSet(network) : \/ \E aliasFirst \in BOOLEAN : resolverHandleRequest(d, aliasFirst)
                                  \/ handleQuery(d)
  \/ \E aliasFirst \in BOOLEAN : resolverHandleResponse(aliasFirst)
  \/ \E request \in registrations : processRequest(request)
  \/ Clients

(***************************************************************************)
(* Properties                                                              *)
(***************************************************************************)
Ids == 0..(MaxLookups - 1)

\* Type correctness; in particular a request is tried at most maxAttempts times at a server and
\* never waits past its time-out (DnsClientService.h:86).
TypeOK ==
  /\ setup \in Setups /\ assertions = setup.assertions
  /\ failed \in {Running, "assertion", "undefined", "unknown id", "unknown request",
                 "null pointer", "invalid name", "stack overflow"}
  /\ AttemptsBounded
  /\ \A c \in Client : failedServers[c] \cap {ResolverIp, ServerIp} = {}
  /\ stubLastId \in 0..MaxLookups /\ DOMAIN pendingRequests \subseteq Ids
  /\ \A id \in DOMAIN pendingRequests : pendingRequests[id] \in setup.names
  /\ \A id \in DOMAIN resolutions : resolutions[id].id = id /\ id < lastId
  /\ lastId \in Nat /\ lastQuestionId \in Nat

\* A lookup the stub waits for is in exactly one place: a command to its client, a pending request
\* there, or an answer on its way back; so no answer finds the stub not waiting (its error for an
\* unknown id, StubDnsResolver.cc:87) and none is lost, whatever the network repeats or delays.
LookupTracked ==
  LET Queued(f) == Cardinality(DOMAIN f[User])
      InCommand == {commands[User][i].id : i \in DOMAIN commands[User]}
      InAnswer == {indications[User][i].id : i \in DOMAIN indications[User]}
  IN /\ DOMAIN pendingRequests = InCommand \cup DOMAIN requestMap[User] \cup InAnswer
     /\ Cardinality(DOMAIN pendingRequests)
          = Queued(commands) + Queued(requestMap) + Queued(indications)
     /\ failed # "unknown id"

(* A name and all that its aliases lead to.                                *)
Meant(domain) ==
  LET AliasesOf(names) ==
        {r.contents : r \in {a \in served : a.type = "CNAME" /\
                                           \E d \in names : matchWithWildcard(a, d)}}
      after[n \in 0..Cardinality(served)] ==
        IF n = 0 THEN {domain} ELSE after[n - 1] \cup AliasesOf(after[n - 1])
  IN after[Cardinality(served)]

(* Whether a record answers a name, by itself or through aliases.          *)
Fits(record, domain) == \E d \in Meant(domain) : matchWithWildcard(record, d)

\* What a node that asks the resolver is told was held by the zone's server, and is about the name
\* it looked up, whatever was cached for other names, aggregated or answered late
\* (DnsResolverService.cc:108-214).
AnswersFit ==
  \A id \in DOMAIN answered :
    /\ answered[id].records \subseteq served
    /\ ispResolver = ResolverIp =>
         \A r \in answered[id].records : Fits(r, answered[id].domain)

\* "If already asked, wait for resolution" (DnsResolverService.cc:221): a request the resolver took
\* and has not answered waits in an entry of its request map.
UnansweredWaits ==
  \A id \in DOMAIN resolutions :
    hasFinished(resolutions[id]) \/ \E k \in DOMAIN questionRequests : id \in questionRequests[k]

\* The resolver has at most one request under way for a name: those that need what was asked
\* already wait for it, and nothing is asked again before it was answered
\* (DnsResolverService.cc:221-231).
AskedOnce ==
  LET Sent == {<<commands[Resolver][i].id, commands[Resolver][i].question>> :
                 i \in DOMAIN commands[Resolver]}
      Pending == {<<id, requestMap[Resolver][id].question>> : id \in DOMAIN requestMap[Resolver]}
  IN \A a, b \in Sent \cup Pending : a[2] = b[2] => a[1] = b[1]

\* Every lookup ends: with an answer, with none after the last time-out, or with the simulation
\* stopped by an error; neither losses nor servers that do not exist keep it waiting.
LookupEnds ==
  \A id \in Ids : id \in DOMAIN pendingRequests ~> (id \in DOMAIN answered \/ failed # Running)

(* The kernel delivers messages between modules and the timers' ticks; of  *)
(* the network nothing is assumed.                                         *)
Local(A) == A /\ UNCHANGED <<stubVars, resolverVars, serverVars>>

Spec ==
  /\ Init /\ [][Next]_vars
  /\ WF_vars(stubHandleResponse)
  /\ WF_vars(Local(handleRequest(User))) /\ WF_vars(Local(processRequests(User)))
=============================================================================
