------------------------------ MODULE Session ------------------------------
(***************************************************************************)
(* One session through the proxy (mcp-proxy/src/proxy.ts), seen from the   *)
(* two connections: start-up, the lists that each side keeps of the other  *)
(* (the server's tools, the client's roots) with the notifications that    *)
(* they have changed, and the requests of the server to the client         *)
(* (sampling/createMessage, roots/list), whose JSON-RPC ids belong to one  *)
(* connection and have to be translated, as their cancellations have.      *)
(*                                                                         *)
(* A connection is a pair of pipes that lose and reorder nothing; within   *)
(* the proxy a notification needs fewer turns of the event loop than a     *)
(* result and may overtake it.  The client and the server re-list whenever *)
(* they are told of a change; both are external, as the SDK's engine is.   *)
(***************************************************************************)
EXTENDS Integers, Sequences

CONSTANTS
  Pages,   \* the pages of the server's list of tools
  Loads    \* what happens in a session: bounds of the model

ASSUME SessionAssumption ==
  /\ Pages \in Nat \ {0}
  /\ Loads \subseteq [tools : Nat, roots : Nat, prompts : Nat, pings : Nat, timeouts : Nat]

VARIABLES
  load,      \* the changes, prompts, pings and timeouts still to come
  phase,     \* of createProxy: "connecting" upstream, "serving"
  tools,     \* the version of the server's tools
  roots,     \* the version of the client's roots
  client,    \* the client: version of the tools it knows, what it is about to do
  server,    \* the server: version of the roots it knows, what it is about to do
  pipe,      \* the four directions of the two connections
  results,   \* the results of tools/list that the proxy is about to return
  relays,    \* the server's requests that await the client
  serverId,  \* the next id of a request to the proxy's client side
  proxyId,   \* the next id of a request from the proxy's server side
  asked,     \* the server's requests that it awaits
  working,   \* the requests that the client works on
  dropped,   \* history: the prompts on which the client gave up
  revoked,   \* history: the prompts the server cancelled or was told to have failed
  heard      \* history: <<prompt, prompt of the completion received for it>>

vars == <<load, phase, tools, roots, client, server, pipe, results, relays,
          serverId, proxyId, asked, working, dropped, revoked, heard>>

Directions == {"fromServer", "toServer", "fromClient", "toClient"}

\* Messages.  Cursors are the numbers of pages, 0 for none.
Changed == [type |-> "list_changed"]
List(cursor) == [type |-> "list", cursor |-> cursor]
Listed(page) == [type |-> "listed", version |-> tools, page |-> page,
                 next |-> IF page + 1 < Pages THEN page + 1 ELSE 0]
Request(id, what) == [type |-> "request", id |-> id, what |-> what]
Reply(id, value) == [type |-> "reply", id |-> id, value |-> value]
Failed(id) == [type |-> "failed", id |-> id]
Cancelled(id) == [type |-> "cancelled", id |-> id]

Carries(d, type) == pipe[d] # <<>> /\ Head(pipe[d]).type = type
Take(d) == [pipe EXCEPT ![d] = Tail(@)]
Put(pipes, d, m) == [pipes EXCEPT ![d] = Append(@, m)]
Pass(from, to, m) == Put(Take(from), to, m)
Spend(what) == load[what] > 0 /\ load' = [load EXCEPT ![what] = @ - 1]

SessionInit ==
  /\ load \in Loads
  /\ phase = "connecting"
  /\ tools = 0 /\ roots = 0
  /\ client = [view |-> IF load.tools = 0 THEN 0 ELSE -1, wants |-> load.tools > 0,
               lists |-> FALSE, next |-> 0, asks |-> 0]
  /\ server = [view |-> IF load.roots = 0 THEN 0 ELSE -1, wants |-> load.roots > 0]
  /\ pipe = [d \in Directions |-> <<>>]
  /\ results = <<>> /\ relays = {}
  /\ serverId = 0 /\ proxyId = 0
  /\ asked = {} /\ working = {}
  /\ dropped = {} /\ revoked = {} /\ heard = {}

reverseVars == <<relays, serverId, proxyId, asked, working, dropped, revoked, heard>>

-----------------------------------------------------------------------------
(* The server's tools, and who knows them.                                  *)

\* The server may do this before the proxy has set its handlers.
ChangeTools ==
  /\ Spend("tools")
  /\ tools' = tools + 1
  /\ pipe' = Put(pipe, "fromServer", Changed)
  /\ UNCHANGED <<phase, roots, client, server, results, reverseVars>>

\* Without a handler a notification is ignored.
Ignore ==
  /\ phase = "connecting" /\ pipe["fromServer"] # <<>>
  /\ pipe' = Take("fromServer")
  /\ UNCHANGED <<load, phase, tools, roots, client, server, results, reverseVars>>

\* upstream.connect returns; handlers are set and downstream is connected
\* before another message is read.
Serve ==
  /\ phase = "connecting"
  /\ phase' = "serving"
  /\ UNCHANGED <<load, tools, roots, client, server, pipe, results, reverseVars>>

ClientLists ==
  /\ phase = "serving" /\ client.wants /\ ~client.lists
  /\ client' = [client EXCEPT !.wants = FALSE, !.lists = TRUE, !.asks = client.next]
  /\ pipe' = Put(pipe, "fromClient", List(client.next))
  /\ UNCHANGED <<load, phase, tools, roots, server, results, reverseVars>>

\* The tools/list handler calls upstream.listTools() -- without the params.
ListTools ==
  /\ Carries("fromClient", "list")
  /\ pipe' = Pass("fromClient", "toServer", List(0))
  /\ UNCHANGED <<load, phase, tools, roots, client, server, results, reverseVars>>

ServerLists ==
  /\ Carries("toServer", "list")
  /\ pipe' = Pass("toServer", "fromServer", Listed(Head(pipe["toServer"]).cursor))
  /\ UNCHANGED <<load, phase, tools, roots, client, server, results, reverseVars>>

TakeListed ==
  /\ phase = "serving" /\ Carries("fromServer", "listed")
  /\ results' = Append(results, Head(pipe["fromServer"]))
  /\ pipe' = Take("fromServer")
  /\ UNCHANGED <<load, phase, tools, roots, client, server, reverseVars>>

\* Returned with leanprompt_expand at the end of the tools.
ReturnListed ==
  /\ results # <<>>
  /\ pipe' = Put(pipe, "toClient", Head(results))
  /\ results' = Tail(results)
  /\ UNCHANGED <<load, phase, tools, roots, client, server, reverseVars>>

\* (mutant) list_changed is missing from UPSTREAM_NOTIFICATIONS.
SwallowChanged ==
  /\ phase = "serving" /\ Carries("fromServer", "list_changed")
  /\ pipe' = Take("fromServer")
  /\ UNCHANGED <<load, phase, tools, roots, client, server, results, reverseVars>>

RelayChanged ==
  /\ phase = "serving" /\ Carries("fromServer", "list_changed")
  /\ pipe' = Pass("fromServer", "toClient", Changed)
  /\ UNCHANGED <<load, phase, tools, roots, client, server, results, reverseVars>>

\* A client turns the pages; it has the list with the last of them.
ClientTakesListed ==
  /\ Carries("toClient", "listed")
  /\ LET page == Head(pipe["toClient"])
     IN  client' = [client EXCEPT
           !.lists = FALSE, !.wants = @ \/ page.next # 0, !.next = page.next,
           !.view = IF page.next = 0 THEN page.version ELSE @]
  /\ pipe' = Take("toClient")
  /\ UNCHANGED <<load, phase, tools, roots, server, results, reverseVars>>

ClientTakesChanged ==
  /\ Carries("toClient", "list_changed")
  /\ client' = [client EXCEPT !.wants = TRUE, !.next = 0]
  /\ pipe' = Take("toClient")
  /\ UNCHANGED <<load, phase, tools, roots, server, results, reverseVars>>

-----------------------------------------------------------------------------
(* The server's requests to the client.                                     *)

\* The what of a prompt is its number, that of roots/list is 0.
ServerAsks(what) ==
  /\ phase = "serving"
  /\ asked' = asked \cup {[id |-> serverId, what |-> what]}
  /\ serverId' = serverId + 1
  /\ pipe' = Put(pipe, "fromServer", Request(serverId, what))
  /\ UNCHANGED <<phase, tools, roots, client, results, relays, proxyId, working,
                 dropped, revoked, heard>>

Prompt == Spend("prompts") /\ ServerAsks(load.prompts) /\ UNCHANGED server

AskRoots ==
  /\ server.wants /\ \A a \in asked : a.what # 0
  /\ server' = [server EXCEPT !.wants = FALSE]
  /\ ServerAsks(0) /\ UNCHANGED load

\* The pong is the SDK's: a ping uses up an id but is not relayed.
Ping ==
  /\ phase = "serving" /\ Spend("pings")
  /\ serverId' = serverId + 1
  /\ UNCHANGED <<phase, tools, roots, client, server, pipe, results, relays, proxyId,
                 asked, working, dropped, revoked, heard>>

ServerCancels(a) ==
  /\ a \in asked /\ a.what # 0
  /\ asked' = asked \ {a}
  /\ revoked' = revoked \cup {a.what}
  /\ pipe' = Put(pipe, "fromServer", Cancelled(a.id))
  /\ UNCHANGED <<load, phase, tools, roots, client, server, results, relays,
                 serverId, proxyId, working, dropped, heard>>

\* createMessage and listRoots: downstream gives the request an id of its own.
RelayRequest ==
  /\ phase = "serving" /\ Carries("fromServer", "request")
  /\ LET m == Head(pipe["fromServer"])
     IN  /\ relays' = relays \cup {[up |-> m.id, down |-> proxyId, what |-> m.what]}
         /\ pipe' = Pass("fromServer", "toClient", Request(proxyId, m.what))
  /\ proxyId' = proxyId + 1
  /\ UNCHANGED <<load, phase, tools, roots, client, server, results, serverId,
                 asked, working, dropped, revoked, heard>>

\* (mutant) notifications/cancelled is relayed as it is.
CancelVerbatim(relay) == Cancelled(relay.up)

\* The signal fires: downstream cancels by the id it has given.
CancelDown(relay) == Cancelled(relay.down)

RelayCancel ==
  /\ phase = "serving" /\ Carries("fromServer", "cancelled")
  /\ LET hit == {r \in relays : r.up = Head(pipe["fromServer"]).id}
     IN  /\ relays' = relays \ hit
         /\ \/ hit = {} /\ pipe' = Take("fromServer")
            \/ \E r \in hit : pipe' = Pass("fromServer", "toClient", CancelDown(r))
  /\ UNCHANGED <<load, phase, tools, roots, client, server, results, serverId,
                 proxyId, asked, working, dropped, revoked, heard>>

\* (mutant) The reply goes upstream under the id it came with.
ReplyVerbatim(relay, m) == m

ReplyUp(relay, m) == Reply(relay.up, m.value)

\* A reply to a request that was cancelled or has timed out is ignored.
RelayReply ==
  /\ Carries("fromClient", "reply")
  /\ LET m   == Head(pipe["fromClient"])
         hit == {r \in relays : r.down = m.id}
     IN  /\ relays' = relays \ hit
         /\ \/ hit = {} /\ pipe' = Take("fromClient")
            \/ \E r \in hit : pipe' = Pass("fromClient", "toServer", ReplyUp(r, m))
  /\ UNCHANGED <<load, phase, tools, roots, client, server, results, serverId,
                 proxyId, asked, working, dropped, revoked, heard>>

\* The SDK gives the client sixty seconds, then cancels and fails the request.
RelayTimeout(r) ==
  /\ r \in relays /\ Spend("timeouts")
  /\ relays' = relays \ {r}
  /\ pipe' = Put(Put(pipe, "toClient", Cancelled(r.down)), "toServer", Failed(r.up))
  /\ UNCHANGED <<phase, tools, roots, client, server, results, serverId,
                 proxyId, asked, working, dropped, revoked, heard>>

ClientTakesRequest ==
  /\ Carries("toClient", "request")
  /\ LET m == Head(pipe["toClient"])
     IN  working' = working \cup {[id |-> m.id, what |-> m.what]}
  /\ pipe' = Take("toClient")
  /\ UNCHANGED <<load, phase, tools, roots, client, server, results, relays,
                 serverId, proxyId, asked, dropped, revoked, heard>>

ClientTakesCancel ==
  /\ Carries("toClient", "cancelled")
  /\ LET hit == {w \in working : w.id = Head(pipe["toClient"]).id}
     IN  /\ working' = working \ hit
         /\ dropped' = dropped \cup {w.what : w \in {h \in hit : h.what # 0}}
  /\ pipe' = Take("toClient")
  /\ UNCHANGED <<load, phase, tools, roots, client, server, results, relays,
                 serverId, proxyId, asked, revoked, heard>>

\* The completion names its prompt, the answer to roots/list their version.
ClientReplies(w) ==
  /\ w \in working
  /\ working' = working \ {w}
  /\ pipe' = Put(pipe, "fromClient", Reply(w.id, IF w.what = 0 THEN roots ELSE w.what))
  /\ UNCHANGED <<load, phase, tools, roots, client, server, results, relays,
                 serverId, proxyId, asked, dropped, revoked, heard>>

ServerTakesReply ==
  /\ Carries("toServer", "reply")
  /\ LET m   == Head(pipe["toServer"])
         hit == {a \in asked : a.id = m.id}
     IN  /\ asked' = asked \ hit
         /\ heard' = heard \cup {<<a.what, m.value>> : a \in {h \in hit : h.what # 0}}
         /\ server' = IF \E a \in hit : a.what = 0
                      THEN [server EXCEPT !.view = m.value] ELSE server
  /\ pipe' = Take("toServer")
  /\ UNCHANGED <<load, phase, tools, roots, client, results, relays, serverId,
                 proxyId, working, dropped, revoked>>

\* A server whose roots/list fails asks again.
ServerTakesFailure ==
  /\ Carries("toServer", "failed")
  /\ LET hit == {a \in asked : a.id = Head(pipe["toServer"]).id}
     IN  /\ asked' = asked \ hit
         /\ revoked' = revoked \cup {a.what : a \in {h \in hit : h.what # 0}}
         /\ server' = [server EXCEPT !.wants = @ \/ \E a \in hit : a.what = 0]
  /\ pipe' = Take("toServer")
  /\ UNCHANGED <<load, phase, tools, roots, client, results, relays, serverId,
                 proxyId, working, dropped, heard>>

ChangeRoots ==
  /\ phase = "serving" /\ Spend("roots")
  /\ roots' = roots + 1
  /\ pipe' = Put(pipe, "fromClient", Changed)
  /\ UNCHANGED <<phase, tools, client, server, results, reverseVars>>

\* (mutant) Nothing is in DOWNSTREAM_NOTIFICATIONS.
SwallowRootsChanged ==
  /\ Carries("fromClient", "list_changed")
  /\ pipe' = Take("fromClient")
  /\ UNCHANGED <<load, phase, tools, roots, client, server, results, reverseVars>>

RelayRootsChanged ==
  /\ Carries("fromClient", "list_changed")
  /\ pipe' = Pass("fromClient", "toServer", Changed)
  /\ UNCHANGED <<load, phase, tools, roots, client, server, results, reverseVars>>

ServerTakesChanged ==
  /\ Carries("toServer", "list_changed")
  /\ server' = [server EXCEPT !.wants = TRUE]
  /\ pipe' = Take("toServer")
  /\ UNCHANGED <<load, phase, tools, roots, client, results, reverseVars>>

-----------------------------------------------------------------------------

ProxyStep ==
  \/ Ignore \/ Serve
  \/ ListTools \/ TakeListed \/ ReturnListed \/ RelayChanged \/ RelayRootsChanged
  \/ RelayRequest \/ RelayCancel \/ RelayReply
ClientStep ==
  \/ ClientLists \/ ClientTakesListed \/ ClientTakesChanged
  \/ ClientTakesRequest \/ ClientTakesCancel
ServerStep ==
  \/ ServerLists \/ AskRoots
  \/ ServerTakesReply \/ ServerTakesFailure \/ ServerTakesChanged

SessionNext ==
  \/ ProxyStep \/ ClientStep \/ ServerStep
  \/ ChangeTools \/ ChangeRoots \/ Prompt \/ Ping
  \/ \E a \in asked : ServerCancels(a)
  \/ \E w \in working : ClientReplies(w)
  \/ \E r \in relays : RelayTimeout(r)

SessionSpec == SessionInit /\ [][SessionNext]_vars

\* The event loop runs and nobody stops reading; nobody has to change,
\* prompt or cancel anything, and only roots/list has to be answered.
SessionFairness ==
  /\ WF_vars(ProxyStep) /\ WF_vars(ClientStep) /\ WF_vars(ServerStep)
  /\ WF_vars(\E w \in working : w.what = 0 /\ ClientReplies(w))

FairSessionSpec == SessionSpec /\ SessionFairness

-----------------------------------------------------------------------------

Holds(d, m) == \E i \in 1..Len(pipe[d]) : pipe[d][i] = m
HoldsType(d, type) == \E i \in 1..Len(pipe[d]) : pipe[d][i].type = type

\* The client does not know the server's present tools only while it is about
\* to ask, its question has not been answered, the present list is on its way,
\* or word of the change is -- through start-up and however a notification
\* overtakes a result.
NoChangeIsLost ==
  phase = "serving" /\ client.view # tools =>
    \/ client.wants
    \/ HoldsType("fromClient", "list") \/ HoldsType("toServer", "list")
    \/ \E d \in {"fromServer", "toClient"} :
         \E i \in 1..Len(pipe[d]) :
           \/ pipe[d][i] = Changed
           \/ pipe[d][i].type = "listed" /\ pipe[d][i].version = tools
    \/ \E i \in 1..Len(results) : results[i].version = tools

\* A completion is heard by the request that it completes, whatever ids the
\* two connections have come to use and whatever was cancelled between.
CompletionsMatch == \A pair \in heard : pair[1] = pair[2]

\* The client gives up on a prompt only if the server has taken it back, or
\* has been told, or will be, that it failed; and no prompt that the server
\* has taken back is still worked on once its cancellation has arrived.
WithdrawnTogether ==
  /\ \A what \in dropped :
       \/ what \in revoked
       \/ \E a \in asked : a.what = what /\ Holds("toServer", Failed(a.id))
  /\ \A w \in working :
       w.what \in revoked =>
         \/ Holds("toClient", Cancelled(w.id))
         \/ \E r \in relays : r.down = w.id /\ Holds("fromServer", Cancelled(r.up))

\* tools/list is passed straight through: the page that comes is the page that
\* was asked for.
PagesAreUpstreams ==
  \A i \in 1..Len(pipe["toClient"]) :
    LET m == pipe["toClient"][i] IN m.type = "listed" => m.page = client.asks

\* Once the lists stay as they are, both sides get to know them.
ViewsCatchUp == <>[](client.view = tools /\ server.view = roots)
=============================================================================
