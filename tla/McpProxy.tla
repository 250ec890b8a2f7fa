----------------------------- MODULE McpProxy -----------------------------
(***************************************************************************)
(* createProxy (mcp-proxy/src/proxy.ts): a server to the MCP client        *)
(* downstream, a client of the MCP server upstream, and the expand store   *)
(* between the two.  Every handler runs on one event loop: a step of the   *)
(* proxy is what it does between two awaits.  The client, the upstream     *)
(* server, their transports and the JSON-RPC engine of the MCP SDK         *)
(* (request timeouts, abort signals, connection loss) are external.  The   *)
(* process may be killed and started again at any time: the store, and     *)
(* with it every ref, is gone, but the client still knows the old refs.    *)
(***************************************************************************)
EXTENDS ExpandStore, FiniteSets

CONSTANTS
  Requests,      \* the client's requests
  Ops,           \* the operations they may ask for
  AskedRefs,     \* the refs they may ask to expand
  Compressible,  \* the contents on which the pipeline saves tokens
  MaxCalls,      \* bound of the model: requests other than expand
  MaxRestarts,   \* bound of the model: times the proxy is started again
  ClockReads,    \* ClockReads[n]: the stamps the clock reads in the n-th life
  Configs        \* expand: FALSE for --no-expand; tools: upstream advertises them

ASSUME ProxyAssumption ==
  /\ AskedRefs \subseteq Askable
  /\ Compressible \subseteq Content
  /\ MaxCalls \in Nat /\ MaxRestarts \in Nat
  /\ ClockReads \in [0..MaxRestarts -> SUBSET Stamps]
  /\ Configs \subseteq [expand : BOOLEAN, tools : BOOLEAN]

VARIABLES
  life,      \* how often the process has been started again
  config,    \* how the proxy was started, and in front of what
  asked,     \* asked[r]: what the client asks for with r
  client,    \* client[r]: the client's view of r
  handler,   \* handler[r]: the proxy's handler of r
  aborted,   \* the requests whose extra.signal has fired
  upstream,  \* upstream[r]: the upstream server's view of r
  alive,     \* the upstream connection is open
  wire,      \* the messages in flight
  answer,    \* answer[r]: what the handler of r returned
  told       \* history: what the upstream answered to r

sessionVars == <<life, config, asked, client, handler, aborted, upstream, alive, wire, answer, told>>
proxyVars == <<storeVars, sessionVars>>

\* tools/call, tasks/result, leanprompt_expand, tools/list, and all the
\* requests that are forwarded and never looked into (tasks/get, resources,
\* prompts, ping...).
Query == [op : Ops \cap {"call", "taskResult", "list", "forward"}]
         \cup [op : Ops \cap {"expand"}, ref : AskedRefs]

Result == [kind : {"tool"}, content : Content]
          \cup [kind : {"task", "other", "error"}]

\* What an upstream may answer to a query.
ResultsFor(q) ==
  CASE q.op = "call"       -> {res \in Result : res.kind # "other"}
    [] q.op = "taskResult" -> {res \in Result : res.kind # "task"}
    [] OTHER               -> {res \in Result : res.kind \in {"other", "error"}}

Answer == [kind : {"none", "error", "noTools", "ownList", "miss"}]
          \cup [kind : {"verbatim"}, result : Result]
          \cup [kind : {"compressed"}, content : Content, ref : Ref, life : Nat]
          \cup [kind : {"compressed"}, content : Content]
          \cup [kind : {"original"}, content : Content, life : Nat]

Nothing == [kind |-> "none"]
Failure == [kind |-> "error"]

Message(t, r) == [type |-> t, req |-> r]
ResultOf(r) == {m \in wire : m.type = "result" /\ m.req = r}
UpstreamWire(ms) == {m \in ms : m.type \in {"forward", "stop", "result"}}

ProxyInit ==
  /\ StoreInit
  /\ life = 0
  /\ config \in Configs
  /\ asked = [r \in Requests |-> Nothing]
  /\ client = [r \in Requests |-> "idle"]
  /\ handler = [r \in Requests |-> "idle"]
  /\ aborted = {}
  /\ upstream = [r \in Requests |-> "idle"]
  /\ alive = TRUE
  /\ wire = {}
  /\ answer = [r \in Requests |-> Nothing]
  /\ told = [r \in Requests |-> Nothing]

-----------------------------------------------------------------------------
(* The client.                                                              *)

Calls == {r \in Requests : client[r] # "idle" /\ asked[r].op # "expand"}

Ask(r, q) ==
  /\ client[r] = "idle"
  /\ IF q.op = "expand" THEN config.expand ELSE Cardinality(Calls) < MaxCalls
  /\ client' = [client EXCEPT ![r] = "waiting"]
  /\ asked' = [asked EXCEPT ![r] = q]
  /\ wire' = wire \cup {Message("request", r)}
  /\ UNCHANGED <<storeVars, life, config, handler, aborted, upstream, alive, answer, told>>

Cancel(r) ==
  /\ client[r] = "waiting"
  /\ client' = [client EXCEPT ![r] = "cancelled"]
  /\ wire' = wire \cup {Message("cancel", r)}
  /\ UNCHANGED <<storeVars, life, config, asked, handler, aborted, upstream, alive, answer, told>>

\* An answer to a request that was cancelled meanwhile is dropped.
TakeAnswer(r) ==
  /\ Message("answer", r) \in wire
  /\ wire' = wire \ {Message("answer", r)}
  /\ client' = [client EXCEPT ![r] = IF @ = "waiting" THEN "served" ELSE @]
  /\ UNCHANGED <<storeVars, life, config, asked, handler, aborted, upstream, alive, answer, told>>

-----------------------------------------------------------------------------
(* The proxy.                                                               *)

\* The handler of r returns a; the SDK sends nothing for an aborted request.
Return(r, a, ms) ==
  /\ handler' = [handler EXCEPT ![r] = "over"]
  /\ answer' = [answer EXCEPT ![r] = IF r \in aborted THEN @ ELSE a]
  /\ wire' = IF r \in aborted THEN ms ELSE ms \cup {Message("answer", r)}

\* Requests that never go upstream.
HandleExpand(r) ==
  /\ Message("request", r) \in wire
  /\ config.expand /\ asked[r].op = "expand"
  /\ Get(asked[r].ref)
  /\ Return(r, IF reply'.kind = "hit"
               THEN [kind |-> "original", content |-> reply'.content, life |-> life]
               ELSE [kind |-> "miss"],
            wire \ {Message("request", r)})
  /\ UNCHANGED <<life, config, asked, client, aborted, upstream, alive, told>>

\* (mutant) ping keeps the pong that the SDK has built in.
LocalAnswersAndPong(q) ==
  CASE q.op = "forward" -> {[kind |-> "verbatim", result |-> [kind |-> "other"]]}
    [] OTHER            -> {}

\* The upstream is not asked for tools that it does not advertise; if there is
\* no expand tool either, nothing handles tools, and the SDK refuses.
LocalAnswers(q) ==
  IF config.tools \/ q.op \notin {"call", "list"} THEN {}
  ELSE IF ~config.expand THEN {Failure}
  ELSE {[kind |-> IF q.op = "call" THEN "noTools" ELSE "ownList"]}

HandleLocally(r) ==
  /\ Message("request", r) \in wire
  /\ \E a \in LocalAnswers(asked[r]) : Return(r, a, wire \ {Message("request", r)})
  /\ UNCHANGED <<storeVars, life, config, asked, client, aborted, upstream, alive, told>>

\* Everything else goes to the upstream server, or fails when it is gone.
Forward(r) ==
  /\ Message("request", r) \in wire
  /\ asked[r].op # "expand" /\ LocalAnswers(asked[r]) = {}
  /\ IF alive
     THEN /\ handler' = [handler EXCEPT ![r] = "awaiting"]
          /\ wire' = (wire \ {Message("request", r)}) \cup {Message("forward", r)}
          /\ UNCHANGED answer
     ELSE Return(r, Failure, wire \ {Message("request", r)})
  /\ UNCHANGED <<storeVars, life, config, asked, client, aborted, upstream, alive, told>>

\* compressToolResult, when the pipeline saved something.
Compress(r, res, ms) ==
  /\ res.kind = "tool" /\ res.content \in Compressible
  /\ IF config.expand
     THEN /\ \E stamp \in ClockReads[life] : Put(res.content, stamp)
          /\ Return(r, [kind |-> "compressed", content |-> res.content,
                        ref |-> reply'.ref, life |-> life], ms)
     ELSE /\ Return(r, [kind |-> "compressed", content |-> res.content], ms)
          /\ UNCHANGED storeVars

\* Results that are returned as they came: task handles, payloads without
\* content, and what compression does not shorten.
PassOn(r, res, ms) ==
  /\ \/ res.kind \in {"task", "other"}
     \/ res.kind = "tool" /\ res.content \notin Compressible
  /\ Return(r, [kind |-> "verbatim", result |-> res], ms)
  /\ UNCHANGED storeVars

\* (mutant) A failed request is not answered.
RejectSilently(r, res, ms) ==
  /\ res.kind = "error"
  /\ handler' = [handler EXCEPT ![r] = "over"]
  /\ wire' = ms
  /\ UNCHANGED <<storeVars, answer>>

Reject(r, res, ms) ==
  /\ res.kind = "error"
  /\ Return(r, Failure, ms)
  /\ UNCHANGED storeVars

\* The promise of upstream.request settles; a result nobody awaits is dropped.
TakeResult(r) ==
  \E m \in ResultOf(r) :
    /\ IF handler[r] = "awaiting"
       THEN \/ Compress(r, m.result, wire \ {m})
            \/ PassOn(r, m.result, wire \ {m})
            \/ Reject(r, m.result, wire \ {m})
       ELSE /\ wire' = wire \ {m}
            /\ UNCHANGED <<storeVars, handler, answer>>
    /\ UNCHANGED <<life, config, asked, client, aborted, upstream, alive, told>>

\* (mutant) tools/call and tasks/result forget the signal, as tools/list does.
SignalledButCalls(q) == q.op \notin {"list", "call", "taskResult"}

\* tools/list is forwarded without extra.signal.
Signalled(q) == q.op # "list"

StopMessages(r) == IF alive THEN {Message("stop", r)} ELSE {}

\* notifications/cancelled arrives: the signal fires while the handler runs,
\* and upstream.request, if it was given the signal, rejects and tells the
\* upstream server.
TakeCancel(r) ==
  /\ Message("cancel", r) \in wire
  /\ Message("request", r) \notin wire
  /\ IF handler[r] = "awaiting"
     THEN /\ aborted' = aborted \cup {r}
          /\ IF Signalled(asked[r])
             THEN /\ handler' = [handler EXCEPT ![r] = "over"]
                  /\ wire' = (wire \ {Message("cancel", r)}) \cup StopMessages(r)
             ELSE /\ wire' = wire \ {Message("cancel", r)}
                  /\ UNCHANGED handler
     ELSE /\ wire' = wire \ {Message("cancel", r)}
          /\ UNCHANGED <<aborted, handler>>
  /\ UNCHANGED <<storeVars, life, config, asked, client, upstream, alive, answer, told>>

\* The SDK gives every request sixty seconds.
Timeout(r) ==
  /\ handler[r] = "awaiting"
  /\ Return(r, Failure, wire \cup StopMessages(r))
  /\ UNCHANGED <<storeVars, life, config, asked, client, aborted, upstream, alive, told>>

-----------------------------------------------------------------------------
(* The upstream server.                                                     *)

TakeForward(r) ==
  /\ Message("forward", r) \in wire
  /\ wire' = wire \ {Message("forward", r)}
  /\ upstream' = [upstream EXCEPT ![r] = "working"]
  /\ UNCHANGED <<storeVars, life, config, asked, client, handler, aborted, alive, answer, told>>

Respond(r, res) ==
  /\ upstream[r] = "working"
  /\ res \in ResultsFor(asked[r])
  /\ upstream' = [upstream EXCEPT ![r] = "over"]
  /\ told' = [told EXCEPT ![r] = res]
  /\ wire' = wire \cup {[type |-> "result", req |-> r, result |-> res]}
  /\ UNCHANGED <<storeVars, life, config, asked, client, handler, aborted, alive, answer>>

TakeStop(r) ==
  /\ Message("stop", r) \in wire
  /\ Message("forward", r) \notin wire
  /\ wire' = wire \ {Message("stop", r)}
  /\ upstream' = [upstream EXCEPT ![r] = IF @ = "working" THEN "over" ELSE @]
  /\ UNCHANGED <<storeVars, life, config, asked, client, handler, aborted, alive, answer, told>>

\* The connection closes: the SDK rejects every pending upstream request.
Die ==
  LET pending == {r \in Requests : handler[r] = "awaiting"}
  IN  /\ alive
      /\ alive' = FALSE
      /\ upstream' = [r \in Requests |-> "over"]
      /\ handler' = [r \in Requests |-> IF r \in pending THEN "over" ELSE handler[r]]
      /\ answer' = [r \in Requests |->
                      IF r \in pending \ aborted THEN Failure ELSE answer[r]]
      /\ wire' = (wire \ UpstreamWire(wire))
                 \cup {Message("answer", r) : r \in pending \ aborted}
      /\ UNCHANGED <<storeVars, life, config, asked, client, aborted, told>>

\* The process is killed and started again, with a new child process or HTTP
\* session upstream; what is under way is lost.
Restart ==
  /\ life < MaxRestarts
  /\ life' = life + 1
  /\ entries' = <<>> /\ bytes' = 0 /\ counter' = 0 /\ reply' = Nothing
  /\ log' = <<>> /\ recency' = <<>>
  /\ client' = [r \in Requests |-> IF client[r] = "waiting" THEN "lost" ELSE client[r]]
  /\ handler' = [r \in Requests |-> IF client[r] = "idle" THEN "idle" ELSE "over"]
  /\ upstream' = [r \in Requests |-> IF client[r] = "idle" THEN "idle" ELSE "over"]
  /\ aborted' = {} /\ alive' = TRUE /\ wire' = {}
  /\ UNCHANGED <<config, asked, answer, told>>

-----------------------------------------------------------------------------

ProxyNext ==
  \/ \E r \in Requests :
       \/ \E q \in Query : Ask(r, q)
       \/ Cancel(r) \/ TakeAnswer(r)
       \/ HandleExpand(r) \/ HandleLocally(r) \/ Forward(r)
       \/ TakeResult(r) \/ TakeCancel(r) \/ Timeout(r)
       \/ TakeForward(r) \/ TakeStop(r)
       \/ \E res \in Result : Respond(r, res)
  \/ Die \/ Restart

ProxySpec == ProxyInit /\ [][ProxyNext]_proxyVars

\* The event loop serves what arrives and every timer runs off; nothing is
\* assumed of the client or of the upstream server.
ProxyFairness ==
  \A r \in Requests :
    /\ WF_proxyVars(HandleExpand(r))
    /\ WF_proxyVars(HandleLocally(r))
    /\ WF_proxyVars(Forward(r))
    /\ WF_proxyVars(TakeResult(r))
    /\ WF_proxyVars(TakeCancel(r))
    /\ WF_proxyVars(Timeout(r))
    /\ WF_proxyVars(TakeAnswer(r))

FairProxySpec == ProxySpec /\ ProxyFairness

-----------------------------------------------------------------------------

ProxyTypeOK ==
  /\ config \in Configs
  /\ asked \in [Requests -> Query \cup {Nothing}]
  /\ client \in [Requests -> {"idle", "waiting", "cancelled", "served", "lost"}]
  /\ handler \in [Requests -> {"idle", "awaiting", "over"}]
  /\ aborted \subseteq Requests
  /\ upstream \in [Requests -> {"idle", "working", "over"}]
  /\ alive \in BOOLEAN
  /\ answer \in [Requests -> Answer]
  /\ told \in [Requests -> Result \cup {Nothing}]

\* What is passed on or compressed is what the upstream server answered to
\* this very request, task handles never take the compression path, and no
\* pong is made up for a server that does not answer.
AnswersAreUpstreams ==
  \A r \in Requests :
    /\ answer[r].kind = "verbatim" => told[r] = answer[r].result
    /\ answer[r].kind = "compressed" =>
         /\ told[r].kind = "tool"
         /\ told[r].content = answer[r].content

\* leanprompt_expand returns the uncompressed content of the one result whose
\* note quoted that ref, whatever was answered, cancelled or evicted between;
\* refs die with the process that quoted them: the counter starts again, so it
\* is the stamp that keeps an old ref from naming a new result.
ExpandIsOriginal ==
  \A e \in Requests :
    answer[e].kind = "original" =>
      \E r \in Requests :
        /\ answer[r].kind = "compressed" /\ answer[r].ref = asked[e].ref
        /\ answer[r].life = answer[e].life
        /\ told[r].content = answer[e].content
        /\ \A other \in Requests \ {r} :
             answer[other].kind = "compressed" => answer[other].ref # asked[e].ref

\* The store is never filled for nobody: each put is quoted in one answer that
\* is sent, however a cancellation races with the result.
PutsAreQuoted ==
  config.expand =>
    LET quoting == {r \in Requests : answer[r].kind = "compressed" /\ answer[r].life = life}
    IN  /\ \A i \in 1..Len(log) : \E r \in quoting : answer[r].ref = log[i].ref
        /\ Len(log) = Cardinality(quoting)

\* While the upstream server works on a request whose cancellation the proxy
\* has taken, word of it is on its way -- for all but tools/list, though the
\* header of proxy.ts says so of every forwarded request.
CancelReachesUpstream ==
  \A r \in aborted :
    upstream[r] = "working" /\ asked[r].op # "list" => Message("stop", r) \in wire

\* A request that the client does not take back is answered, even if the
\* upstream server hangs or dies.
EveryRequestEnds ==
  \A r \in Requests : client[r] = "waiting" ~> client[r] # "waiting"
=============================================================================
