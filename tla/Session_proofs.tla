--------------------------- MODULE Session_proofs ---------------------------
(* Theorems about a session, for any number of changes, prompts, pings and   *)
(* timeouts, and any number of pages.                                        *)
EXTENDS Session, TLAPS

-----------------------------------------------------------------------------
(* The pipes, as sets of the messages that they hold.                       *)

SomeMessage ==
  [type : {"list_changed"}] \cup [type : {"list"}, cursor : Nat]
  \cup [type : {"listed"}, version : Nat, page : Nat, next : Nat]
  \cup [type : {"request"}, id : Nat, what : Nat]
  \cup [type : {"reply"}, id : Nat, value : Nat]
  \cup [type : {"failed", "cancelled"}, id : Nat]

Contents(s) == {s[i] : i \in 1..Len(s)}
In(d) == Contents(pipe[d])

PipesTyped == pipe \in [Directions -> Seq(SomeMessage)]

LEMMA TailContents ==
  ASSUME NEW S, NEW s \in Seq(S), s # <<>>
  PROVE  /\ Tail(s) \in Seq(S) /\ Head(s) \in S
         /\ Contents(Tail(s)) \subseteq Contents(s)
         /\ Head(s) \in Contents(s)
         /\ Contents(s) \subseteq Contents(Tail(s)) \cup {Head(s)}
<1>1. /\ Tail(s) \in Seq(S) /\ Len(Tail(s)) = Len(s) - 1 /\ Len(s) \in Nat /\ Len(s) > 0
      /\ \A i \in 1..(Len(s) - 1) : Tail(s)[i] = s[i + 1]
      /\ Head(s) = s[1] /\ s[1] \in S
  OBVIOUS
<1>2. Contents(Tail(s)) \subseteq Contents(s)
  BY <1>1 DEF Contents
<1>3. Head(s) \in Contents(s)
  BY <1>1 DEF Contents
<1>4. Contents(s) \subseteq Contents(Tail(s)) \cup {Head(s)}
  <2> SUFFICES ASSUME NEW i \in 1..Len(s), i # 1 PROVE s[i] \in Contents(Tail(s))
    BY <1>1 DEF Contents
  <2>1. i - 1 \in 1..(Len(s) - 1) /\ (i - 1) + 1 = i
    BY <1>1
  <2>2. Tail(s)[i - 1] = s[i]
    BY <1>1, <2>1
  <2>3. QED
    BY <1>1, <2>1, <2>2 DEF Contents
<1>5. QED
  BY <1>1, <1>2, <1>3, <1>4

LEMMA AppendContents ==
  ASSUME NEW S, NEW s \in Seq(S), NEW m \in S
  PROVE  Append(s, m) \in Seq(S) /\ Contents(Append(s, m)) = Contents(s) \cup {m}
<1>1. /\ Append(s, m) \in Seq(S) /\ Len(Append(s, m)) = Len(s) + 1 /\ Len(s) \in Nat
      /\ \A i \in 1..Len(s) : Append(s, m)[i] = s[i]
      /\ Append(s, m)[Len(s) + 1] = m
  OBVIOUS
<1>2. Contents(Append(s, m)) \subseteq Contents(s) \cup {m}
  BY <1>1 DEF Contents
<1>3. Contents(s) \cup {m} \subseteq Contents(Append(s, m))
  BY <1>1 DEF Contents
<1>4. QED
  BY <1>1, <1>2, <1>3

\* A message is taken from pipe d.
LEMMA TakePipes ==
  ASSUME PipesTyped, NEW d \in Directions, pipe[d] # <<>>, pipe' = Take(d)
  PROVE  /\ PipesTyped' /\ Head(pipe[d]) \in In(d) /\ Head(pipe[d]) \in SomeMessage
         /\ \A e \in Directions : In(e)' \subseteq In(e)
         /\ \A e \in Directions \ {d} : In(e)' = In(e)
         /\ In(d) \subseteq In(d)' \cup {Head(pipe[d])}
<1>1. pipe'[d] = Tail(pipe[d]) /\ \A e \in Directions \ {d} : pipe'[e] = pipe[e]
  BY DEF PipesTyped, Take
<1>2. pipe[d] \in Seq(SomeMessage)
  BY DEF PipesTyped
<1>3. PipesTyped'
  BY <1>2, TailContents DEF PipesTyped, Take
<1>4. QED
  BY <1>1, <1>2, <1>3, TailContents DEF In

\* A message is put into pipe d.
LEMMA PutPipes ==
  ASSUME PipesTyped, NEW d \in Directions, NEW m \in SomeMessage, pipe' = Put(pipe, d, m)
  PROVE  /\ PipesTyped'
         /\ \A e \in Directions \ {d} : In(e)' = In(e)
         /\ In(d)' = In(d) \cup {m}
<1>1. pipe'[d] = Append(pipe[d], m) /\ \A e \in Directions \ {d} : pipe'[e] = pipe[e]
  BY DEF PipesTyped, Put
<1>2. pipe[d] \in Seq(SomeMessage)
  BY DEF PipesTyped
<1>3. PipesTyped'
  BY <1>2, AppendContents DEF PipesTyped, Put
<1>4. QED
  BY <1>1, <1>2, <1>3, AppendContents DEF In

\* A message is taken from pipe d, and one is put into pipe f.
LEMMA PassPipes ==
  ASSUME PipesTyped, NEW d \in Directions, NEW f \in Directions, d # f,
         pipe[d] # <<>>, NEW m \in SomeMessage, pipe' = Pass(d, f, m)
  PROVE  /\ PipesTyped' /\ Head(pipe[d]) \in In(d) /\ Head(pipe[d]) \in SomeMessage
         /\ In(d)' \subseteq In(d) /\ In(d) \subseteq In(d)' \cup {Head(pipe[d])}
         /\ \A e \in Directions \ {d, f} : In(e)' = In(e)
         /\ In(f)' = In(f) \cup {m}
<1>1. /\ pipe'[d] = Tail(pipe[d]) /\ pipe'[f] = Append(pipe[f], m)
      /\ \A e \in Directions \ {d, f} : pipe'[e] = pipe[e]
  BY DEF PipesTyped, Pass, Put, Take
<1>2. pipe[d] \in Seq(SomeMessage) /\ pipe[f] \in Seq(SomeMessage)
  BY DEF PipesTyped
<1>3. PipesTyped'
  <2>1. Take(d) \in [Directions -> Seq(SomeMessage)] /\ Take(d)[f] = pipe[f]
    BY <1>2, TailContents DEF PipesTyped, Take
  <2>2. QED
    BY <1>2, <2>1, AppendContents DEF PipesTyped, Pass, Put
<1>4. QED
  BY <1>1, <1>2, <1>3, TailContents, AppendContents DEF In

-----------------------------------------------------------------------------
(* Types.                                                                   *)

ListedMessage == [type : {"listed"}, version : Nat, page : Nat, next : Nat]

SessionTypes ==
  /\ PipesTyped
  /\ load \in [tools : Nat, roots : Nat, prompts : Nat, pings : Nat, timeouts : Nat]
  /\ phase \in {"connecting", "serving"}
  /\ tools \in Nat /\ roots \in Nat /\ serverId \in Nat /\ proxyId \in Nat
  /\ client \in [view : Int, wants : BOOLEAN, lists : BOOLEAN, next : Nat, asks : Nat]
  /\ server \in [view : Int, wants : BOOLEAN]
  /\ results \in Seq(ListedMessage)
  /\ asked \subseteq [id : Nat, what : Nat]
  /\ working \subseteq [id : Nat, what : Nat]
  /\ relays \subseteq [up : Nat, down : Nat, what : Nat]

LEMMA TypesInit == SessionInit => SessionTypes
<1> SUFFICES ASSUME SessionInit PROVE SessionTypes
  OBVIOUS
<1>1. load \in [tools : Nat, roots : Nat, prompts : Nat, pings : Nat, timeouts : Nat]
  BY SessionAssumption DEF SessionInit, SessionAssumption
<1>2. PipesTyped
  BY DEF SessionInit, PipesTyped
<1>3. client \in [view : Int, wants : BOOLEAN, lists : BOOLEAN, next : Nat, asks : Nat]
  BY DEF SessionInit
<1>4. server \in [view : Int, wants : BOOLEAN]
  BY DEF SessionInit
<1>5. QED
  BY <1>1, <1>2, <1>3, <1>4 DEF SessionInit, SessionTypes

\* Kinds of message of their own.
LEMMA MessageTypes ==
  ASSUME NEW i \in Nat, NEW v \in Nat, tools \in Nat, Pages \in Nat
  PROVE  /\ Changed \in SomeMessage /\ Changed.type = "list_changed"
         /\ List(i) \in SomeMessage /\ List(i).type = "list"
         /\ Listed(i) \in ListedMessage /\ Listed(i).version = tools
         /\ Request(i, v) \in SomeMessage /\ Reply(i, v) \in SomeMessage
         /\ Failed(i) \in SomeMessage /\ Cancelled(i) \in SomeMessage
         /\ ListedMessage \subseteq SomeMessage
<1>1. ListedMessage \subseteq SomeMessage
  BY DEF ListedMessage, SomeMessage
<1>2. Listed(i) \in ListedMessage /\ Listed(i).version = tools
  BY DEF Listed, ListedMessage
<1>3. /\ Changed \in SomeMessage /\ Changed.type = "list_changed"
      /\ List(i) \in SomeMessage /\ List(i).type = "list"
  BY DEF Changed, List, SomeMessage
<1>4. Request(i, v) \in SomeMessage /\ Reply(i, v) \in SomeMessage
  BY DEF Request, Reply, SomeMessage
<1>5. Failed(i) \in SomeMessage /\ Cancelled(i) \in SomeMessage
  BY DEF Failed, Cancelled, SomeMessage
<1>6. QED
  BY <1>1, <1>2, <1>3, <1>4, <1>5

\* What the fields of a message that is read are.
LEMMA ReadTypes ==
  ASSUME NEW m \in SomeMessage
  PROVE  /\ m.type = "list" => m.cursor \in Nat
         /\ m.type = "listed" => m \in ListedMessage
         /\ m.type = "request" => m.id \in Nat /\ m.what \in Nat
         /\ m.type = "reply" => m.id \in Nat /\ m.value \in Nat
         /\ m.type \in {"failed", "cancelled"} => m.id \in Nat
  BY DEF SomeMessage, ListedMessage
-----------------------------------------------------------------------------
(* The ids of the two connections.                                          *)

\* Whatever carries an id was given it before, and names the same request as
\* everything else that carries it on that connection.
UpstreamIds ==
  /\ \A a \in asked : a.id \in 0..(serverId - 1)
  /\ \A m \in In("fromServer") : m.type = "request" =>
       m.id \in 0..(serverId - 1) /\ \A a \in asked : a.id = m.id => a.what = m.what
  /\ \A r \in relays :
       r.up \in 0..(serverId - 1) /\ \A a \in asked : a.id = r.up => a.what = r.what
  /\ \A m \in In("toServer") : m.type = "reply" =>
       m.id \in 0..(serverId - 1) /\ \A a \in asked : a.id = m.id /\ a.what # 0 => a.what = m.value

DownstreamIds ==
  /\ \A r \in relays : r.down \in 0..(proxyId - 1)
  /\ \A m \in In("toClient") : m.type = "request" =>
       m.id \in 0..(proxyId - 1) /\ \A r \in relays : r.down = m.id => r.what = m.what
  /\ \A w \in working :
       w.id \in 0..(proxyId - 1) /\ \A r \in relays : r.down = w.id => r.what = w.what
  /\ \A m \in In("fromClient") : m.type = "reply" =>
       m.id \in 0..(proxyId - 1) /\ \A r \in relays : r.down = m.id /\ r.what # 0 => r.what = m.value

IdsInv == SessionTypes /\ UpstreamIds /\ DownstreamIds /\ CompletionsMatch

LEMMA IdsInit == SessionInit => IdsInv
<1> SUFFICES ASSUME SessionInit PROVE IdsInv
  OBVIOUS
<1>1. \A d \in Directions : In(d) = {}
  BY DEF SessionInit, In, Contents
<1>2. asked = {} /\ relays = {} /\ working = {} /\ heard = {}
  BY DEF SessionInit
<1>3. QED
  BY <1>1, <1>2, TypesInit DEF IdsInv, UpstreamIds, DownstreamIds, CompletionsMatch, Directions

\* A step that adds neither a request nor a reply, nor anything that waits for
\* one, gives no id a second meaning.
LEMMA QuietIds ==
  ASSUME IdsInv, SessionTypes', serverId' \in Nat, serverId <= serverId',
         UNCHANGED <<proxyId, heard>>,
         asked' \subseteq asked, relays' \subseteq relays, working' \subseteq working,
         \A d \in Directions : \A m \in In(d)' :
           m \in In(d) \/ m.type \notin {"request", "reply"}
  PROVE  IdsInv'
<1>1. Directions = {"fromServer", "toServer", "fromClient", "toClient"}
  BY DEF Directions
<1>0. serverId \in Nat
  BY DEF IdsInv, SessionTypes
<1>2. UpstreamIds'
  <2>1. /\ \A a \in asked' : a.id \in 0..(serverId' - 1)
        /\ \A r \in relays' :
             r.up \in 0..(serverId' - 1) /\ \A a \in asked' : a.id = r.up => a.what = r.what
    BY <1>0 DEF IdsInv, UpstreamIds
  <2>2. \A m \in In("fromServer")' : m.type = "request" =>
          m.id \in 0..(serverId' - 1) /\ \A a \in asked' : a.id = m.id => a.what = m.what
    <3> SUFFICES ASSUME NEW m \in In("fromServer")', m.type = "request"
                 PROVE  m.id \in 0..(serverId' - 1) /\ \A a \in asked' : a.id = m.id => a.what = m.what
      OBVIOUS
    <3>1. m \in In("fromServer")
      BY <1>1
    <3>2. m.id \in 0..(serverId - 1) /\ \A a \in asked : a.id = m.id => a.what = m.what
      BY <3>1 DEF IdsInv, UpstreamIds
    <3>3. QED
      BY <1>0, <3>2
  <2>3. \A m \in In("toServer")' : m.type = "reply" =>
          m.id \in 0..(serverId' - 1) /\ \A a \in asked' : a.id = m.id /\ a.what # 0 => a.what = m.value
    <3> SUFFICES ASSUME NEW m \in In("toServer")', m.type = "reply"
                 PROVE  /\ m.id \in 0..(serverId' - 1)
                        /\ \A a \in asked' : a.id = m.id /\ a.what # 0 => a.what = m.value
      OBVIOUS
    <3>1. m \in In("toServer")
      BY <1>1
    <3>2. /\ m.id \in 0..(serverId - 1)
          /\ \A a \in asked : a.id = m.id /\ a.what # 0 => a.what = m.value
      BY <3>1 DEF IdsInv, UpstreamIds
    <3>3. QED
      BY <1>0, <3>2
  <2>4. QED
    BY <2>1, <2>2, <2>3 DEF UpstreamIds
<1>3. DownstreamIds'
  BY <1>1 DEF IdsInv, DownstreamIds
<1>4. CompletionsMatch'
  BY DEF IdsInv, CompletionsMatch
<1>5. QED
  BY <1>2, <1>3, <1>4 DEF IdsInv

-----------------------------------------------------------------------------
(* Each step keeps the types and gives no id a second meaning.              *)

\* The steps of the lists change nothing but the pipes, the lists and what
\* the two sides know and want.
ListStep ==
  \/ ChangeTools \/ Ignore \/ Serve \/ ClientLists \/ ListTools \/ ServerLists
  \/ TakeListed \/ ReturnListed \/ RelayChanged \/ ClientTakesListed \/ ClientTakesChanged
  \/ ChangeRoots \/ RelayRootsChanged \/ ServerTakesChanged

LEMMA PagesType == Pages \in Nat
  BY SessionAssumption DEF SessionAssumption

\* What they do to the pipes.
LEMMA ListPipes ==
  ASSUME SessionTypes, ListStep
  PROVE  /\ PipesTyped'
         /\ \A d \in Directions : \A m \in In(d)' :
              m \in In(d) \/ m.type \in {"list_changed", "list", "listed"}
<1> USE DEF SessionTypes
<1>1. /\ "fromServer" \in Directions /\ "toServer" \in Directions
      /\ "fromClient" \in Directions /\ "toClient" \in Directions
  BY DEF Directions
<1>2. \A d \in Directions : pipe' = Take(d) /\ pipe[d] # <<>> =>
        PipesTyped' /\ \A e \in Directions : In(e)' \subseteq In(e)
  BY TakePipes
<1>3. \A d \in Directions, m \in SomeMessage : pipe' = Put(pipe, d, m) =>
        PipesTyped' /\ \A e \in Directions : In(e)' \subseteq In(e) \cup {m}
  <2> SUFFICES ASSUME NEW d \in Directions, NEW m \in SomeMessage, pipe' = Put(pipe, d, m)
               PROVE  PipesTyped' /\ \A e \in Directions : In(e)' \subseteq In(e) \cup {m}
    OBVIOUS
  <2>1. /\ PipesTyped' /\ In(d)' = In(d) \cup {m}
        /\ \A e \in Directions \ {d} : In(e)' = In(e)
    BY PutPipes
  <2>2. QED
    BY <2>1
<1>4. \A d, f \in Directions, m \in SomeMessage :
        d # f /\ pipe' = Pass(d, f, m) /\ pipe[d] # <<>> =>
          PipesTyped' /\ \A e \in Directions : In(e)' \subseteq In(e) \cup {m}
  <2> SUFFICES ASSUME NEW d \in Directions, NEW f \in Directions, NEW m \in SomeMessage,
                      d # f, pipe' = Pass(d, f, m), pipe[d] # <<>>
               PROVE  PipesTyped' /\ \A e \in Directions : In(e)' \subseteq In(e) \cup {m}
    OBVIOUS
  <2>1. /\ PipesTyped' /\ In(f)' = In(f) \cup {m} /\ In(d)' \subseteq In(d)
        /\ \A e \in Directions \ {d, f} : In(e)' = In(e)
    BY PassPipes
  <2>2. QED
    BY <2>1
<1>5. \A d \in Directions : pipe[d] # <<>> => Head(pipe[d]) \in SomeMessage
  BY TailContents DEF PipesTyped
<1>6. Changed \in SomeMessage /\ Changed.type = "list_changed"
  BY MessageTypes, PagesType
<1>7. \A i \in Nat : List(i) \in SomeMessage /\ List(i).type = "list"
  BY MessageTypes, PagesType
<1>8. \A i \in Nat : Listed(i) \in SomeMessage /\ Listed(i).type = "listed"
  BY MessageTypes, PagesType DEF ListedMessage
<1>9. CASE ChangeTools \/ ChangeRoots
  BY <1>1, <1>3, <1>6, <1>9 DEF ChangeTools, ChangeRoots
<1>10. CASE \/ Ignore \/ TakeListed \/ ClientTakesListed \/ ClientTakesChanged
            \/ ServerTakesChanged
  BY <1>1, <1>2, <1>10
     DEF Ignore, TakeListed, ClientTakesListed, ClientTakesChanged, ServerTakesChanged, Carries
<1>11. CASE Serve
  BY <1>11 DEF Serve, PipesTyped, In, Contents
<1>12. CASE ClientLists
  BY <1>1, <1>3, <1>7, <1>12 DEF ClientLists
<1>13. CASE ListTools
  BY <1>1, <1>4, <1>7, <1>13 DEF ListTools, Carries
<1>14. CASE ServerLists
  <2>1. Head(pipe["toServer"]).cursor \in Nat
    BY <1>1, <1>5, <1>14, ReadTypes DEF ServerLists, Carries
  <2> DEFINE m == Listed(Head(pipe["toServer"]).cursor)
  <2>2. m \in SomeMessage /\ m.type = "listed"
    BY <1>8, <2>1
  <2>3. pipe["toServer"] # <<>> /\ pipe' = Pass("toServer", "fromServer", m)
    BY <1>14 DEF ServerLists, Carries
  <2> HIDE DEF m
  <2>4. QED
    BY <1>1, <1>4, <2>2, <2>3
<1>15. CASE ReturnListed
  <2>1. Head(results) \in ListedMessage /\ Head(results) \in SomeMessage
    BY <1>15, MessageTypes, PagesType DEF ReturnListed
  <2>2. Head(results).type = "listed"
    BY <2>1 DEF ListedMessage
  <2>3. QED
    BY <1>1, <1>3, <1>15, <2>1, <2>2 DEF ReturnListed
<1>16. CASE RelayChanged \/ RelayRootsChanged
  BY <1>1, <1>4, <1>6, <1>16 DEF RelayChanged, RelayRootsChanged, Carries
<1>17. QED
  BY <1>9, <1>10, <1>11, <1>12, <1>13, <1>14, <1>15, <1>16 DEF ListStep

LEMMA SpendTypes ==
  ASSUME SessionTypes, NEW what \in {"tools", "roots", "prompts", "pings", "timeouts"},
         Spend(what)
  PROVE  /\ load' \in [tools : Nat, roots : Nat, prompts : Nat, pings : Nat, timeouts : Nat]
         /\ load[what] \in Nat \ {0}
         /\ load'.tools = IF what = "tools" THEN load.tools - 1 ELSE load.tools
<1>1. load \in [tools : Nat, roots : Nat, prompts : Nat, pings : Nat, timeouts : Nat]
  BY DEF SessionTypes
<1>2. load[what] > 0 /\ load' = [load EXCEPT ![what] = load[what] - 1]
  BY DEF Spend
<1>3. CASE what = "tools"
  BY <1>1, <1>2, <1>3
<1>4. CASE what = "roots"
  BY <1>1, <1>2, <1>4
<1>5. CASE what = "prompts"
  BY <1>1, <1>2, <1>5
<1>6. CASE what = "pings"
  BY <1>1, <1>2, <1>6
<1>7. CASE what = "timeouts"
  BY <1>1, <1>2, <1>7
<1>8. QED
  BY <1>3, <1>4, <1>5, <1>6, <1>7

LEMMA ListTypes ==
  ASSUME SessionTypes, ListStep
  PROVE  SessionTypes' /\ UNCHANGED reverseVars
<1>1. PipesTyped' /\ UNCHANGED reverseVars
  BY ListPipes
     DEF ListStep, ChangeTools, Ignore, Serve, ClientLists, ListTools, ServerLists,
         TakeListed, ReturnListed, RelayChanged, ClientTakesListed, ClientTakesChanged,
         ChangeRoots, RelayRootsChanged, ServerTakesChanged
<1>2. \A d \in Directions : pipe[d] # <<>> => Head(pipe[d]) \in SomeMessage
  BY TailContents DEF SessionTypes, PipesTyped
<1>3. "fromServer" \in Directions /\ "toClient" \in Directions
  BY DEF Directions
<1>4. CASE ChangeTools
  <2>1. load' \in [tools : Nat, roots : Nat, prompts : Nat, pings : Nat, timeouts : Nat]
    BY <1>4, SpendTypes DEF ChangeTools
  <2>2. QED
    BY <1>1, <1>4, <2>1 DEF ChangeTools, SessionTypes, reverseVars
<1>5. CASE ChangeRoots
  <2>1. load' \in [tools : Nat, roots : Nat, prompts : Nat, pings : Nat, timeouts : Nat]
    BY <1>5, SpendTypes DEF ChangeRoots
  <2>2. QED
    BY <1>1, <1>5, <2>1, SMTT(30) DEF ChangeRoots, SessionTypes, reverseVars
<1>6. CASE Ignore \/ Serve \/ ListTools \/ ServerLists \/ RelayChanged \/ RelayRootsChanged
  BY <1>1, <1>6
     DEF Ignore, Serve, ListTools, ServerLists, RelayChanged, RelayRootsChanged,
         SessionTypes, reverseVars
<1>7. CASE ClientLists \/ ClientTakesChanged \/ ServerTakesChanged
  <2>1. CASE ClientLists
    <3>1. client' \in [view : Int, wants : BOOLEAN, lists : BOOLEAN, next : Nat, asks : Nat]
      BY <2>1 DEF ClientLists, SessionTypes
    <3>2. QED
      BY <1>1, <2>1, <3>1 DEF ClientLists, SessionTypes, reverseVars
  <2>2. CASE ClientTakesChanged
    <3>1. client' \in [view : Int, wants : BOOLEAN, lists : BOOLEAN, next : Nat, asks : Nat]
      BY <2>2 DEF ClientTakesChanged, SessionTypes
    <3>2. QED
      BY <1>1, <2>2, <3>1 DEF ClientTakesChanged, SessionTypes, reverseVars
  <2>3. CASE ServerTakesChanged
    <3>1. server' \in [view : Int, wants : BOOLEAN]
      BY <2>3 DEF ServerTakesChanged, SessionTypes
    <3>2. QED
      BY <1>1, <2>3, <3>1 DEF ServerTakesChanged, SessionTypes, reverseVars
  <2>4. QED
    BY <1>7, <2>1, <2>2, <2>3
<1>8. CASE ClientTakesListed
  <2>1. Head(pipe["toClient"]) \in ListedMessage
    BY <1>2, <1>3, <1>8, ReadTypes DEF ClientTakesListed, Carries
  <2>2. Head(pipe["toClient"]).next \in Nat /\ Head(pipe["toClient"]).version \in Nat
    BY <2>1 DEF ListedMessage
  <2>3. client' \in [view : Int, wants : BOOLEAN, lists : BOOLEAN, next : Nat, asks : Nat]
    <3>1. PICK w \in BOOLEAN, v \in Int, n \in Nat :
            client' = [client EXCEPT !.lists = FALSE, !.wants = w, !.next = n, !.view = v]
      <4> DEFINE page == Head(pipe["toClient"])
                 w == client.wants \/ page.next # 0
                 v == IF page.next = 0 THEN page.version ELSE client.view
      <4>1. client' = [client EXCEPT !.lists = FALSE, !.wants = w, !.next = page.next, !.view = v]
        BY <1>8 DEF ClientTakesListed
      <4>2. w \in BOOLEAN
        OBVIOUS
      <4>3. v \in Int /\ page.next \in Nat
        BY <2>2 DEF SessionTypes
      <4> HIDE DEF page, w, v
      <4>4. QED
        BY <4>1, <4>2, <4>3
    <3>2. QED
      BY <3>1 DEF SessionTypes
  <2>4. QED
    BY <1>1, <1>8, <2>3 DEF ClientTakesListed, SessionTypes, reverseVars
<1>9. CASE TakeListed
  <2>1. Head(pipe["fromServer"]) \in ListedMessage
    BY <1>2, <1>3, <1>9, ReadTypes DEF TakeListed, Carries
  <2>2. results' \in Seq(ListedMessage)
    BY <1>9, <2>1 DEF TakeListed, SessionTypes
  <2>3. QED
    BY <1>1, <1>9, <2>2 DEF TakeListed, SessionTypes, reverseVars
<1>10. CASE ReturnListed
  <2>1. results' \in Seq(ListedMessage)
    BY <1>10 DEF ReturnListed, SessionTypes
  <2>2. QED
    BY <1>1, <1>10, <2>1 DEF ReturnListed, SessionTypes, reverseVars
<1>11. QED
  BY <1>4, <1>5, <1>6, <1>7, <1>8, <1>9, <1>10 DEF ListStep

LEMMA ListIds ==
  ASSUME IdsInv, ListStep
  PROVE  IdsInv'
<1>1. SessionTypes
  BY DEF IdsInv
<1>2. SessionTypes' /\ UNCHANGED reverseVars
  BY <1>1, ListTypes
<1>3. \A d \in Directions : \A m \in In(d)' :
        m \in In(d) \/ m.type \notin {"request", "reply"}
  BY <1>1, ListPipes
<1>4. serverId' = serverId /\ serverId \in Nat
  BY <1>1, <1>2 DEF reverseVars, SessionTypes
<1>5. QED
  BY <1>2, <1>3, <1>4, QuietIds DEF reverseVars

-----------------------------------------------------------------------------
(* The steps of the server's requests.                                      *)

\* Steps that give up on a request, or answer it without the client.
GivingUp ==
  \/ Ping \/ (\E a \in asked : ServerCancels(a)) \/ RelayCancel
  \/ (\E r \in relays : RelayTimeout(r)) \/ ClientTakesCancel \/ ServerTakesFailure

LEMMA FourDirections ==
  /\ "fromServer" \in Directions /\ "toServer" \in Directions
  /\ "fromClient" \in Directions /\ "toClient" \in Directions
  BY DEF Directions

LEMMA GivingUpPipes ==
  ASSUME SessionTypes, GivingUp
  PROVE  /\ PipesTyped'
         /\ \A d \in Directions : \A m \in In(d)' :
              m \in In(d) \/ m.type \notin {"request", "reply"}
<1> USE FourDirections
<1>1. PipesTyped
  BY DEF SessionTypes
<1>2. \A i \in Nat : /\ Cancelled(i) \in SomeMessage /\ Failed(i) \in SomeMessage
                     /\ Cancelled(i).type = "cancelled" /\ Failed(i).type = "failed"
  BY DEF Cancelled, Failed, SomeMessage
<1>3. CASE Ping
  BY <1>1, <1>3 DEF Ping, PipesTyped, In, Contents
<1>4. CASE \E a \in asked : ServerCancels(a)
  <2>1. PICK a \in asked : ServerCancels(a)
    BY <1>4
  <2>2. a.id \in Nat
    BY DEF SessionTypes
  <2>3. pipe' = Put(pipe, "fromServer", Cancelled(a.id))
    BY <2>1 DEF ServerCancels
  <2>4. /\ PipesTyped' /\ In("fromServer")' = In("fromServer") \cup {Cancelled(a.id)}
        /\ \A e \in Directions \ {"fromServer"} : In(e)' = In(e)
    BY <1>1, <1>2, <2>2, <2>3, PutPipes
  <2>5. QED
    BY <1>2, <2>2, <2>4
<1>5. CASE RelayCancel
  <2>1. pipe["fromServer"] # <<>>
    BY <1>5 DEF RelayCancel, Carries
  <2>2. CASE pipe' = Take("fromServer")
    BY <1>1, <2>1, <2>2, TakePipes
  <2>3. CASE \E r \in relays : pipe' = Pass("fromServer", "toClient", Cancelled(r.down))
    <3>1. PICK r \in relays : pipe' = Pass("fromServer", "toClient", Cancelled(r.down))
      BY <2>3
    <3>2. r.down \in Nat
      BY DEF SessionTypes
    <3>3. /\ PipesTyped' /\ In("toClient")' = In("toClient") \cup {Cancelled(r.down)}
          /\ In("fromServer")' \subseteq In("fromServer")
          /\ \A e \in Directions \ {"fromServer", "toClient"} : In(e)' = In(e)
      BY <1>1, <1>2, <2>1, <3>1, <3>2, PassPipes
    <3>4. QED
      BY <1>2, <3>2, <3>3
  <2>4. QED
    BY <1>5, <2>2, <2>3 DEF RelayCancel, CancelDown
<1>6. CASE \E r \in relays : RelayTimeout(r)
  <2>1. PICK r \in relays : RelayTimeout(r)
    BY <1>6
  <2>2. r.down \in Nat /\ r.up \in Nat
    BY DEF SessionTypes
  <2> DEFINE half == Put(pipe, "toClient", Cancelled(r.down))
  <2>3. pipe' = Put(half, "toServer", Failed(r.up))
    BY <2>1 DEF RelayTimeout
  <2>4. /\ pipe["toClient"] \in Seq(SomeMessage) /\ pipe["toServer"] \in Seq(SomeMessage)
        /\ Cancelled(r.down) \in SomeMessage /\ Failed(r.up) \in SomeMessage
    BY <1>1, <1>2, <2>2 DEF PipesTyped
  <2>5. /\ half \in [Directions -> Seq(SomeMessage)] /\ half["toServer"] = pipe["toServer"]
        /\ half["toClient"] = Append(pipe["toClient"], Cancelled(r.down))
        /\ \A e \in Directions \ {"toClient"} : half[e] = pipe[e]
    BY <1>1, <2>4, AppendContents DEF PipesTyped, Put
  <2> HIDE DEF half
  <2>6. /\ PipesTyped'
        /\ pipe'["toServer"] = Append(pipe["toServer"], Failed(r.up))
        /\ pipe'["toClient"] = Append(pipe["toClient"], Cancelled(r.down))
        /\ \A e \in Directions \ {"toClient", "toServer"} : pipe'[e] = pipe[e]
    BY <2>3, <2>4, <2>5, AppendContents DEF PipesTyped, Put
  <2>7. /\ In("toServer")' = In("toServer") \cup {Failed(r.up)}
        /\ In("toClient")' = In("toClient") \cup {Cancelled(r.down)}
        /\ \A e \in Directions \ {"toClient", "toServer"} : In(e)' = In(e)
    BY <2>4, <2>6, AppendContents DEF In
  <2>8. QED
    BY <1>2, <2>2, <2>6, <2>7
<1>7. CASE ClientTakesCancel \/ ServerTakesFailure
  BY <1>1, <1>7, TakePipes DEF ClientTakesCancel, ServerTakesFailure, Carries
<1>8. QED
  BY <1>3, <1>4, <1>5, <1>6, <1>7 DEF GivingUp

LEMMA GivingUpIds ==
  ASSUME IdsInv, GivingUp
  PROVE  IdsInv'
<1>1. SessionTypes /\ serverId \in Nat
  BY DEF IdsInv, SessionTypes
<1>2. /\ PipesTyped'
      /\ \A d \in Directions : \A m \in In(d)' :
           m \in In(d) \/ m.type \notin {"request", "reply"}
  BY <1>1, GivingUpPipes
<1>3. /\ asked' \subseteq asked /\ relays' \subseteq relays /\ working' \subseteq working
      /\ serverId' \in {serverId, serverId + 1}
      /\ UNCHANGED <<phase, tools, roots, client, results, proxyId, heard>>
  BY DEF GivingUp, Ping, ServerCancels, RelayCancel, RelayTimeout, ClientTakesCancel,
         ServerTakesFailure
<1>4. load' \in [tools : Nat, roots : Nat, prompts : Nat, pings : Nat, timeouts : Nat]
  BY <1>1, SpendTypes
     DEF GivingUp, Ping, ServerCancels, RelayCancel, RelayTimeout, ClientTakesCancel,
         ServerTakesFailure, SessionTypes
<1>5. server' \in [view : Int, wants : BOOLEAN]
  <2>1. CASE ServerTakesFailure
    <3>1. PICK w \in BOOLEAN : server' = [server EXCEPT !.wants = w]
      <4> DEFINE hit == {a \in asked : a.id = Head(pipe["toServer"]).id}
                 w == server.wants \/ \E a \in hit : a.what = 0
      <4>1. server' = [server EXCEPT !.wants = w]
        BY <2>1 DEF ServerTakesFailure
      <4>2. w \in BOOLEAN
        OBVIOUS
      <4> HIDE DEF w
      <4>3. QED
        BY <4>1, <4>2
    <3>2. QED
      BY <1>1, <3>1 DEF SessionTypes
  <2>2. CASE server' = server
    BY <1>1, <2>2 DEF SessionTypes
  <2>3. QED
    BY <2>1, <2>2
       DEF GivingUp, Ping, ServerCancels, RelayCancel, RelayTimeout, ClientTakesCancel
<1>6. serverId' \in Nat /\ serverId <= serverId'
  BY <1>1, <1>3
<1>7. SessionTypes'
  BY <1>1, <1>2, <1>3, <1>4, <1>5, <1>6 DEF SessionTypes
<1>8. QED
  BY <1>2, <1>3, <1>6, <1>7, QuietIds

\* The messages of IdsInv, whose other conjuncts a step may leave alone.
LEMMA IdsUnfolded ==
  ASSUME IdsInv
  PROVE  SessionTypes /\ PipesTyped /\ UpstreamIds /\ DownstreamIds /\ CompletionsMatch
         /\ serverId \in Nat /\ proxyId \in Nat /\ serverId + 1 \in Nat /\ proxyId + 1 \in Nat
         /\ asked \subseteq [id : Nat, what : Nat] /\ working \subseteq [id : Nat, what : Nat]
         /\ relays \subseteq [up : Nat, down : Nat, what : Nat]
<1>1. SessionTypes /\ UpstreamIds /\ DownstreamIds /\ CompletionsMatch
  BY DEF IdsInv
<1>2. /\ PipesTyped /\ serverId \in Nat /\ proxyId \in Nat
      /\ asked \subseteq [id : Nat, what : Nat] /\ working \subseteq [id : Nat, what : Nat]
      /\ relays \subseteq [up : Nat, down : Nat, what : Nat]
  BY <1>1 DEF SessionTypes
<1>3. serverId + 1 \in Nat /\ proxyId + 1 \in Nat
  BY <1>2
<1>4. QED
  BY <1>1, <1>2, <1>3

LEMMA AskIds ==
  ASSUME IdsInv, NEW what \in Nat, ServerAsks(what),
         load' \in [tools : Nat, roots : Nat, prompts : Nat, pings : Nat, timeouts : Nat],
         server' \in [view : Int, wants : BOOLEAN]
  PROVE  IdsInv'
<1> USE FourDirections
<1> DEFINE a == [id |-> serverId, what |-> what]
           m == Request(serverId, what)
<1>1. /\ asked' = asked \cup {a} /\ serverId' = serverId + 1
      /\ pipe' = Put(pipe, "fromServer", m)
      /\ UNCHANGED <<phase, tools, roots, client, results, relays, proxyId, working, heard>>
  BY DEF ServerAsks
<1>2. m \in SomeMessage /\ m.type = "request" /\ m.id = serverId /\ m.what = what
  BY IdsUnfolded DEF Request, SomeMessage
<1> HIDE DEF m
<1>3. /\ PipesTyped' /\ In("fromServer")' = In("fromServer") \cup {m}
      /\ In("toServer")' = In("toServer")
      /\ In("fromClient")' = In("fromClient") /\ In("toClient")' = In("toClient")
  BY <1>1, <1>2, IdsUnfolded, PutPipes
<1>4. SessionTypes'
  <2>1. asked' \subseteq [id : Nat, what : Nat] /\ serverId' \in Nat
    <3>1. a \in [id : Nat, what : Nat]
      BY IdsUnfolded
    <3> HIDE DEF a
    <3>2. QED
      BY <1>1, <3>1, IdsUnfolded
  <2>2. QED
    BY <1>1, <1>3, <2>1, IdsUnfolded DEF SessionTypes
<1>5. UpstreamIds'
  BY <1>1, <1>2, <1>3, IdsUnfolded DEF UpstreamIds
<1>6. DownstreamIds' /\ CompletionsMatch'
  BY <1>1, <1>3, IdsUnfolded DEF DownstreamIds, CompletionsMatch
<1>7. QED
  BY <1>4, <1>5, <1>6 DEF IdsInv

LEMMA RelayRequestIds ==
  ASSUME IdsInv, RelayRequest
  PROVE  IdsInv'
<1> USE FourDirections
<1> DEFINE m == Head(pipe["fromServer"])
           r == [up |-> m.id, down |-> proxyId, what |-> m.what]
           q == Request(proxyId, m.what)
<1>1. /\ pipe["fromServer"] # <<>> /\ m.type = "request"
      /\ relays' = relays \cup {r} /\ proxyId' = proxyId + 1
      /\ pipe' = Pass("fromServer", "toClient", q)
      /\ UNCHANGED <<load, phase, tools, roots, client, server, results, serverId, asked,
                     working, heard>>
  BY DEF RelayRequest, Carries
<1>2. m \in SomeMessage /\ m \in In("fromServer")
  BY <1>1, IdsUnfolded, TailContents DEF PipesTyped, In
<1>3. m.id \in Nat /\ m.what \in Nat
  BY <1>1, <1>2, ReadTypes
<1>4. /\ q \in SomeMessage /\ q.type = "request" /\ q.id = proxyId /\ q.what = m.what
      /\ r \in [up : Nat, down : Nat, what : Nat]
      /\ r.up = m.id /\ r.down = proxyId /\ r.what = m.what
  BY <1>3, IdsUnfolded DEF Request, SomeMessage
<1> HIDE DEF q, r
<1>5. /\ PipesTyped' /\ In("fromServer")' \subseteq In("fromServer")
      /\ In("toClient")' = In("toClient") \cup {q}
      /\ In("toServer")' = In("toServer") /\ In("fromClient")' = In("fromClient")
  BY <1>1, <1>4, IdsUnfolded, PassPipes
<1> HIDE DEF m
<1>6. SessionTypes'
  <2>1. relays' \subseteq [up : Nat, down : Nat, what : Nat] /\ proxyId' \in Nat
    BY <1>1, <1>4, IdsUnfolded
  <2>2. QED
    BY <1>1, <1>5, <2>1, IdsUnfolded DEF SessionTypes
<1>7. UpstreamIds'
  BY <1>1, <1>2, <1>4, <1>5, IdsUnfolded DEF UpstreamIds
<1>8. DownstreamIds'
  BY <1>1, <1>4, <1>5, IdsUnfolded DEF DownstreamIds
<1>9. CompletionsMatch'
  BY <1>1, IdsUnfolded DEF CompletionsMatch
<1>10. QED
  BY <1>6, <1>7, <1>8, <1>9 DEF IdsInv

LEMMA RelayReplyIds ==
  ASSUME IdsInv, RelayReply
  PROVE  IdsInv'
<1> USE FourDirections
<1> DEFINE m == Head(pipe["fromClient"])
<1>1. /\ pipe["fromClient"] # <<>> /\ m.type = "reply"
      /\ relays' \subseteq relays
      /\ UNCHANGED <<load, phase, tools, roots, client, server, results, serverId, proxyId,
                     asked, working, heard>>
  BY DEF RelayReply, Carries
<1>2. m \in SomeMessage /\ m \in In("fromClient")
  BY <1>1, IdsUnfolded, TailContents DEF PipesTyped, In
<1>3. m.id \in Nat /\ m.value \in Nat
  BY <1>1, <1>2, ReadTypes
<1>4. CASE pipe' = Take("fromClient")
  <2>1. PipesTyped' /\ \A d \in Directions : In(d)' \subseteq In(d)
    BY <1>1, <1>4, IdsUnfolded, TakePipes
  <2>2. SessionTypes'
    BY <1>1, <2>1, IdsUnfolded DEF SessionTypes
  <2>3. QED
    BY <1>1, <2>1, <2>2, IdsUnfolded, QuietIds
<1>5. CASE \E r \in relays : r.down = m.id /\ pipe' = Pass("fromClient", "toServer", Reply(r.up, m.value))
  <2>1. PICK r \in relays :
          r.down = m.id /\ pipe' = Pass("fromClient", "toServer", Reply(r.up, m.value))
    BY <1>5
  <2> DEFINE q == Reply(r.up, m.value)
  <2>2. r.up \in Nat
    BY IdsUnfolded DEF SessionTypes
  <2>3. q \in SomeMessage /\ q.type = "reply" /\ q.id = r.up /\ q.value = m.value
    BY <1>3, <2>2 DEF Reply, SomeMessage
  <2> HIDE DEF q
  <2>4. /\ PipesTyped' /\ In("fromClient")' \subseteq In("fromClient")
        /\ In("toServer")' = In("toServer") \cup {q}
        /\ In("fromServer")' = In("fromServer") /\ In("toClient")' = In("toClient")
    BY <1>1, <2>1, <2>3, IdsUnfolded, PassPipes DEF q
  <2>5. SessionTypes'
    BY <1>1, <2>4, IdsUnfolded DEF SessionTypes
  <2>6. r.what # 0 => r.what = m.value
    BY <1>1, <1>2, <2>1, IdsUnfolded DEF DownstreamIds
  <2>7. UpstreamIds'
    BY <1>1, <2>3, <2>4, <2>6, IdsUnfolded DEF UpstreamIds
  <2>8. DownstreamIds' /\ CompletionsMatch'
    BY <1>1, <2>4, IdsUnfolded DEF DownstreamIds, CompletionsMatch
  <2>9. QED
    BY <2>5, <2>7, <2>8 DEF IdsInv
<1>6. QED
  BY <1>4, <1>5 DEF RelayReply, ReplyUp

LEMMA ClientTakesRequestIds ==
  ASSUME IdsInv, ClientTakesRequest
  PROVE  IdsInv'
<1> USE FourDirections
<1> DEFINE m == Head(pipe["toClient"])
           w == [id |-> m.id, what |-> m.what]
<1>1. /\ pipe["toClient"] # <<>> /\ m.type = "request"
      /\ working' = working \cup {w} /\ pipe' = Take("toClient")
      /\ UNCHANGED <<load, phase, tools, roots, client, server, results, relays, serverId,
                     proxyId, asked, heard>>
  BY DEF ClientTakesRequest, Carries
<1>2. m \in SomeMessage /\ m \in In("toClient")
  BY <1>1, IdsUnfolded, TailContents DEF PipesTyped, In
<1>3. m.id \in Nat /\ m.what \in Nat
  BY <1>1, <1>2, ReadTypes
<1>4. PipesTyped' /\ \A d \in Directions : In(d)' \subseteq In(d)
  BY <1>1, IdsUnfolded, TakePipes
<1> HIDE DEF m
<1>5. SessionTypes'
  <2>1. working' \subseteq [id : Nat, what : Nat]
    BY <1>1, <1>3, IdsUnfolded
  <2> HIDE DEF w
  <2>2. QED
    BY <1>1, <1>4, <2>1, IdsUnfolded DEF SessionTypes
<1>6. UpstreamIds' /\ CompletionsMatch'
  BY <1>1, <1>4, IdsUnfolded DEF UpstreamIds, CompletionsMatch
<1>7. m.id \in 0..(proxyId - 1) /\ \A r \in relays : r.down = m.id => r.what = m.what
  BY <1>1, <1>2, IdsUnfolded DEF DownstreamIds
<1>8. DownstreamIds'
  BY <1>1, <1>4, <1>7, IdsUnfolded DEF DownstreamIds
<1>9. QED
  BY <1>5, <1>6, <1>8 DEF IdsInv

LEMMA ClientRepliesIds ==
  ASSUME IdsInv, NEW w \in working, ClientReplies(w)
  PROVE  IdsInv'
<1> USE FourDirections
<1> DEFINE value == IF w.what = 0 THEN roots ELSE w.what
           q == Reply(w.id, value)
<1>1. /\ working' = working \ {w} /\ pipe' = Put(pipe, "fromClient", q)
      /\ UNCHANGED <<load, phase, tools, roots, client, server, results, relays, serverId,
                     proxyId, asked, heard>>
  BY DEF ClientReplies
<1>2. /\ w.id \in 0..(proxyId - 1) /\ w.id \in Nat /\ w.what \in Nat /\ roots \in Nat
      /\ \A r \in relays : r.down = w.id => r.what = w.what
  BY IdsUnfolded DEF DownstreamIds, SessionTypes
<1>3. value \in Nat /\ (w.what # 0 => value = w.what)
  BY <1>2
<1> HIDE DEF value
<1>4. q \in SomeMessage /\ q.type = "reply" /\ q.id = w.id /\ q.value = value
  BY <1>2, <1>3 DEF Reply, SomeMessage
<1> HIDE DEF q
<1>5. /\ PipesTyped' /\ In("fromClient")' = In("fromClient") \cup {q}
      /\ In("toServer")' = In("toServer")
      /\ In("fromServer")' = In("fromServer") /\ In("toClient")' = In("toClient")
  BY <1>1, <1>4, IdsUnfolded, PutPipes
<1>6. SessionTypes'
  <2>1. working' \subseteq working
    BY <1>1
  <2>2. QED
    BY <1>1, <1>5, <2>1, IdsUnfolded DEF SessionTypes
<1>7. UpstreamIds' /\ CompletionsMatch'
  BY <1>1, <1>5, IdsUnfolded DEF UpstreamIds, CompletionsMatch
<1>8. DownstreamIds'
  BY <1>1, <1>2, <1>3, <1>4, <1>5, IdsUnfolded DEF DownstreamIds
<1>9. QED
  BY <1>6, <1>7, <1>8 DEF IdsInv

LEMMA ServerTakesReplyIds ==
  ASSUME IdsInv, ServerTakesReply
  PROVE  IdsInv'
<1> USE FourDirections
<1> DEFINE m == Head(pipe["toServer"])
           hit == {a \in asked : a.id = m.id}
<1>1. /\ pipe["toServer"] # <<>> /\ m.type = "reply"
      /\ asked' = asked \ hit /\ pipe' = Take("toServer")
      /\ heard' = heard \cup {<<a.what, m.value>> : a \in {h \in hit : h.what # 0}}
      /\ server' \in {server, [server EXCEPT !.view = m.value]}
      /\ UNCHANGED <<load, phase, tools, roots, client, results, relays, serverId, proxyId,
                     working>>
  BY DEF ServerTakesReply, Carries
<1>2. m \in SomeMessage /\ m \in In("toServer")
  BY <1>1, IdsUnfolded, TailContents DEF PipesTyped, In
<1>3. m.value \in Nat
  BY <1>1, <1>2, ReadTypes
<1>4. PipesTyped' /\ \A d \in Directions : In(d)' \subseteq In(d)
  BY <1>1, IdsUnfolded, TakePipes
<1> HIDE DEF m
<1>5. server' \in [view : Int, wants : BOOLEAN]
  <2>1. server \in [view : Int, wants : BOOLEAN] /\ m.value \in Int
    <3>1. SessionTypes
      BY IdsUnfolded
    <3>2. server \in [view : Int, wants : BOOLEAN]
      BY <3>1 DEF SessionTypes
    <3>3. QED
      BY <1>3, <3>2
  <2>2. [server EXCEPT !.view = m.value] \in [view : Int, wants : BOOLEAN]
    BY <2>1
  <2>3. QED
    BY <1>1, <2>1, <2>2
<1>6. SessionTypes'
  <2>1. asked' \subseteq [id : Nat, what : Nat]
    BY <1>1, IdsUnfolded
  <2> HIDE DEF hit
  <2>2. UNCHANGED <<load, phase, tools, roots, client, results, relays, serverId, proxyId, working>>
    BY <1>1
  <2>3. QED
    BY <1>4, <1>5, <2>1, <2>2, IdsUnfolded DEF SessionTypes
<1>7. \A a \in hit : a.what # 0 => a.what = m.value
  BY <1>1, <1>2, IdsUnfolded DEF UpstreamIds
<1>8. CompletionsMatch'
  BY <1>1, <1>7, IdsUnfolded DEF CompletionsMatch
<1>9. asked' \subseteq asked
  BY <1>1
<1>10. UpstreamIds' /\ DownstreamIds'
  BY <1>1, <1>4, <1>9, IdsUnfolded DEF UpstreamIds, DownstreamIds
<1>11. QED
  BY <1>6, <1>8, <1>10 DEF IdsInv

LEMMA IdsNext == IdsInv /\ [SessionNext]_vars => IdsInv'
<1> SUFFICES ASSUME IdsInv, [SessionNext]_vars PROVE IdsInv'
  OBVIOUS
<1>1. CASE UNCHANGED vars
  <2>1. /\ SessionTypes' /\ serverId' = serverId
        /\ UNCHANGED <<proxyId, heard, asked, relays, working, pipe>>
    BY <1>1, IdsUnfolded DEF vars, SessionTypes, PipesTyped
  <2>2. \A d \in Directions : In(d)' = In(d)
    BY <2>1 DEF In, Contents
  <2>3. QED
    BY <2>1, <2>2, IdsUnfolded, QuietIds
<1>2. CASE Prompt
  <2>1. /\ load' \in [tools : Nat, roots : Nat, prompts : Nat, pings : Nat, timeouts : Nat]
        /\ load["prompts"] \in Nat \ {0}
    BY <1>2, IdsUnfolded, SpendTypes DEF Prompt
  <2>2. server' \in [view : Int, wants : BOOLEAN] /\ load.prompts \in Nat
    BY <1>2, <2>1, IdsUnfolded DEF Prompt, SessionTypes
  <2>3. QED
    BY <1>2, <2>1, <2>2, AskIds DEF Prompt
<1>3. CASE AskRoots
  <2>1. server' \in [view : Int, wants : BOOLEAN]
    BY <1>3, IdsUnfolded DEF AskRoots, SessionTypes
  <2>2. load' \in [tools : Nat, roots : Nat, prompts : Nat, pings : Nat, timeouts : Nat]
    BY <1>3, IdsUnfolded DEF AskRoots, SessionTypes
  <2>3. QED
    BY <1>3, <2>1, <2>2, AskIds DEF AskRoots
<1>4. CASE ListStep
  BY <1>4, ListIds
<1>5. CASE GivingUp
  BY <1>5, GivingUpIds
<1>6. CASE \/ RelayRequest \/ RelayReply \/ ClientTakesRequest \/ ServerTakesReply
           \/ \E w \in working : ClientReplies(w)
  BY <1>6, RelayRequestIds, RelayReplyIds, ClientTakesRequestIds, ServerTakesReplyIds,
     ClientRepliesIds
<1>7. QED
  BY <1>1, <1>2, <1>3, <1>4, <1>5, <1>6
     DEF SessionNext, ProxyStep, ClientStep, ServerStep, ListStep, GivingUp

LEMMA IdsInvariance == SessionSpec => []IdsInv
  BY IdsInit, IdsNext, PTL DEF SessionSpec

\* However the ids of the two connections drift apart and whatever is given
\* up between, a completion is heard by the request that it completes.
THEOREM SessionCompletionsMatch == SessionSpec => []CompletionsMatch
<1>1. IdsInv => CompletionsMatch
  BY DEF IdsInv
<1>2. QED
  BY <1>1, IdsInvariance, PTL

-----------------------------------------------------------------------------
(* The one list that is under way.                                          *)

\* A client asks for one page at a time: the question or its answer is in one
\* place of one pipe, or in the proxy.
Token(m) == m.type \in {"list", "listed"}
Quiet(s) == \A i \in 1..Len(s) : ~Token(s[i])
Single(s) == \A i, j \in 1..Len(s) : Token(s[i]) /\ Token(s[j]) => i = j

LEMMA TailTokens ==
  ASSUME NEW S, NEW s \in Seq(S), s # <<>>
  PROVE  /\ Quiet(s) => Quiet(Tail(s))
         /\ Single(s) => Single(Tail(s))
         /\ Single(s) /\ Token(Head(s)) => Quiet(Tail(s))
<1>1. /\ Len(Tail(s)) = Len(s) - 1 /\ Len(s) \in Nat /\ Len(s) > 0
      /\ \A i \in 1..(Len(s) - 1) : Tail(s)[i] = s[i + 1]
      /\ Head(s) = s[1]
  OBVIOUS
<1>2. \A i \in 1..Len(Tail(s)) : i + 1 \in 1..Len(s) /\ i + 1 # 1 /\ Tail(s)[i] = s[i + 1]
  BY <1>1
<1>3. 1 \in 1..Len(s)
  BY <1>1
<1>4. Quiet(s) => Quiet(Tail(s))
  BY <1>2 DEF Quiet
<1>5. Single(s) => Single(Tail(s))
  <2> SUFFICES ASSUME Single(s), NEW i \in 1..Len(Tail(s)), NEW j \in 1..Len(Tail(s)),
                      Token(Tail(s)[i]), Token(Tail(s)[j])
               PROVE  i = j
    BY DEF Single
  <2>1. i + 1 = j + 1
    BY <1>2 DEF Single
  <2>2. QED
    BY <2>1
<1>6. Single(s) /\ Token(Head(s)) => Quiet(Tail(s))
  BY <1>1, <1>2, <1>3 DEF Single, Quiet
<1>7. QED
  BY <1>4, <1>5, <1>6

LEMMA AppendTokens ==
  ASSUME NEW S, NEW s \in Seq(S), NEW m \in S
  PROVE  /\ ~Token(m) /\ Quiet(s) => Quiet(Append(s, m))
         /\ ~Token(m) /\ Single(s) => Single(Append(s, m))
         /\ Quiet(s) => Single(Append(s, m))
<1>1. /\ Len(Append(s, m)) = Len(s) + 1 /\ Len(s) \in Nat
      /\ \A i \in 1..Len(s) : Append(s, m)[i] = s[i]
      /\ Append(s, m)[Len(s) + 1] = m
  OBVIOUS
<1>2. \A i \in 1..Len(Append(s, m)) : i \in 1..Len(s) \/ i = Len(s) + 1
  BY <1>1
<1>3. ~Token(m) /\ Quiet(s) => Quiet(Append(s, m))
  BY <1>1, <1>2 DEF Quiet
<1>4. ~Token(m) /\ Single(s) => Single(Append(s, m))
  BY <1>1, <1>2 DEF Single
<1>5. Quiet(s) => Single(Append(s, m))
  BY <1>1, <1>2 DEF Quiet, Single
<1>6. QED
  BY <1>3, <1>4, <1>5

TokenInv ==
  /\ \A d \in Directions : Single(pipe[d]) /\ (Quiet(pipe[d]) \/ Quiet(results))
  /\ \A d, e \in Directions : d # e => Quiet(pipe[d]) \/ Quiet(pipe[e])
  /\ Single(results)
  /\ ~client.lists => Quiet(results) /\ \A d \in Directions : Quiet(pipe[d])

-----------------------------------------------------------------------------
(* What the client knows of the tools.                                      *)

\* Word of a change is on its way to the client, or has come.
Word == client.wants \/ Changed \in In("fromServer") \/ Changed \in In("toClient")

Pending == In("fromServer") \cup In("toClient") \cup Contents(results)

\* A list that was made before the last change does not come without word.
StaleIsFollowed == \A m \in Pending : m.type = "listed" /\ m.version # tools => Word

BeforeServing ==
  phase = "connecting" =>
    /\ ~client.lists
    /\ client.wants \/ (client.view = tools /\ load.tools = 0)

WillKnow ==
  phase = "serving" /\ client.view # tools =>
    \/ Word
    \/ \E m \in In("fromClient") \cup In("toServer") : m.type = "list"
    \/ \E m \in Pending : m.type = "listed" /\ m.version = tools

ListsInv == SessionTypes /\ TokenInv /\ StaleIsFollowed /\ BeforeServing /\ WillKnow

LEMMA ListsInit == SessionInit => ListsInv
<1> SUFFICES ASSUME SessionInit PROVE ListsInv
  OBVIOUS
<1>1. /\ results = <<>> /\ \A d \in Directions : pipe[d] = <<>>
      /\ phase = "connecting" /\ tools = 0
  BY DEF SessionInit
<1>2. TokenInv
  BY <1>1 DEF TokenInv, Quiet, Single
<1>3. Pending = {}
  BY <1>1, FourDirections DEF Pending, In, Contents
<1>4. BeforeServing
  <2>1. load.tools \in Nat
    BY TypesInit DEF SessionTypes
  <2>2. client.lists = FALSE
    BY DEF SessionInit
  <2>3. CASE load.tools = 0
    BY <1>1, <2>2, <2>3 DEF SessionInit, BeforeServing
  <2>4. CASE load.tools > 0
    <3>1. client.wants = (load.tools > 0)
      BY DEF SessionInit
    <3>2. client.wants
      BY <2>4, <3>1
    <3>3. QED
      BY <2>2, <3>2 DEF BeforeServing
  <2>5. QED
    BY <2>1, <2>3, <2>4
<1>5. StaleIsFollowed /\ WillKnow
  BY <1>1, <1>3 DEF StaleIsFollowed, WillKnow
<1>6. QED
  BY <1>2, <1>4, <1>5, TypesInit DEF ListsInv

\* t is s, up to messages that have nothing to do with lists.
Alike(s, t) ==
  /\ Quiet(s) => Quiet(t)
  /\ Single(s) => Single(t)
  /\ \A m : m.type \in {"list", "listed", "list_changed"} =>
       (m \in Contents(s) <=> m \in Contents(t))

LEMMA AlikeSelf == \A s : Alike(s, s)
  BY DEF Alike

LEMMA AlikeTail ==
  ASSUME NEW S, NEW s \in Seq(S), s # <<>>,
         Head(s).type \notin {"list", "listed", "list_changed"}
  PROVE  Alike(s, Tail(s))
  BY TailTokens, TailContents DEF Alike

LEMMA AlikeAppend ==
  ASSUME NEW S, NEW s \in Seq(S), NEW m \in S,
         m.type \notin {"list", "listed", "list_changed"}
  PROVE  Alike(s, Append(s, m))
  BY AppendTokens, AppendContents DEF Alike, Token

\* A step that only such messages distinguish does not concern the lists.
LEMMA AlikeKeeps ==
  ASSUME ListsInv, SessionTypes', UNCHANGED <<phase, tools, client, results>>,
         load'.tools = load.tools, \A d \in Directions : Alike(pipe[d], pipe'[d])
  PROVE  ListsInv'
<1> USE FourDirections
<1>1. TokenInv'
  BY DEF ListsInv, TokenInv, Alike, Quiet, Single
<1>2. \A d \in Directions : \A m : m.type \in {"list", "listed", "list_changed"} =>
        (m \in In(d)' <=> m \in In(d))
  BY DEF Alike, In
<1>3. Changed.type = "list_changed" /\ Changed' = Changed
  BY DEF Changed
<1>4. Word' <=> Word
  BY <1>2, <1>3 DEF Word
<1>5. \A m : m.type = "listed" => (m \in Pending' <=> m \in Pending)
  BY <1>2 DEF Pending, Contents
<1>6. StaleIsFollowed'
  BY <1>4, <1>5 DEF ListsInv, StaleIsFollowed
<1>7. BeforeServing'
  BY DEF ListsInv, BeforeServing
<1>8. WillKnow'
  BY <1>2, <1>4, <1>5 DEF ListsInv, WillKnow
<1>9. QED
  BY <1>1, <1>6, <1>7, <1>8 DEF ListsInv

ListTypesOfMessage == {"list", "listed", "list_changed"}

LEMMA AlikePipes ==
  ASSUME PipesTyped
  PROVE  /\ \A d \in Directions :
              pipe[d] # <<>> /\ Head(pipe[d]).type \notin ListTypesOfMessage /\ pipe' = Take(d)
                => \A e \in Directions : Alike(pipe[e], pipe'[e])
         /\ \A d \in Directions, m \in SomeMessage :
              m.type \notin ListTypesOfMessage /\ pipe' = Put(pipe, d, m)
                => \A e \in Directions : Alike(pipe[e], pipe'[e])
         /\ \A d, f \in Directions, m \in SomeMessage :
              (/\ d # f /\ pipe[d] # <<>> /\ Head(pipe[d]).type \notin ListTypesOfMessage
               /\ m.type \notin ListTypesOfMessage /\ pipe' = Pass(d, f, m))
                => \A e \in Directions : Alike(pipe[e], pipe'[e])
<1>1. \A e \in Directions : pipe[e] \in Seq(SomeMessage)
  BY DEF PipesTyped
<1>2. ASSUME NEW d \in Directions, pipe[d] # <<>>, pipe' = Take(d),
             Head(pipe[d]).type \notin ListTypesOfMessage
      PROVE  \A e \in Directions : Alike(pipe[e], pipe'[e])
  <2>1. pipe'[d] = Tail(pipe[d]) /\ \A e \in Directions \ {d} : pipe'[e] = pipe[e]
    BY <1>2 DEF PipesTyped, Take
  <2>2. Alike(pipe[d], Tail(pipe[d]))
    BY <1>1, <1>2, AlikeTail DEF ListTypesOfMessage
  <2>3. QED
    BY <2>1, <2>2, AlikeSelf
<1>3. ASSUME NEW d \in Directions, NEW m \in SomeMessage, pipe' = Put(pipe, d, m),
             m.type \notin ListTypesOfMessage
      PROVE  \A e \in Directions : Alike(pipe[e], pipe'[e])
  <2>1. pipe'[d] = Append(pipe[d], m) /\ \A e \in Directions \ {d} : pipe'[e] = pipe[e]
    BY <1>3 DEF PipesTyped, Put
  <2>2. Alike(pipe[d], Append(pipe[d], m))
    BY <1>1, <1>3, AlikeAppend DEF ListTypesOfMessage
  <2>3. QED
    BY <2>1, <2>2, AlikeSelf
<1>4. ASSUME NEW d \in Directions, NEW f \in Directions, NEW m \in SomeMessage,
             d # f, pipe[d] # <<>>, Head(pipe[d]).type \notin ListTypesOfMessage,
             m.type \notin ListTypesOfMessage, pipe' = Pass(d, f, m)
      PROVE  \A e \in Directions : Alike(pipe[e], pipe'[e])
  <2>1. /\ pipe'[d] = Tail(pipe[d]) /\ pipe'[f] = Append(pipe[f], m)
        /\ \A e \in Directions \ {d, f} : pipe'[e] = pipe[e]
    BY <1>4 DEF PipesTyped, Pass, Put, Take
  <2>2. Alike(pipe[d], Tail(pipe[d])) /\ Alike(pipe[f], Append(pipe[f], m))
    BY <1>1, <1>4, AlikeTail, AlikeAppend DEF ListTypesOfMessage
  <2>3. QED
    BY <2>1, <2>2, AlikeSelf
<1>5. \A d \in Directions :
        pipe[d] # <<>> /\ Head(pipe[d]).type \notin ListTypesOfMessage /\ pipe' = Take(d)
          => \A e \in Directions : Alike(pipe[e], pipe'[e])
  BY <1>2
<1>6. \A d \in Directions, m \in SomeMessage :
        m.type \notin ListTypesOfMessage /\ pipe' = Put(pipe, d, m)
          => \A e \in Directions : Alike(pipe[e], pipe'[e])
  BY <1>3
<1>7. \A d, f \in Directions, m \in SomeMessage :
        (/\ d # f /\ pipe[d] # <<>> /\ Head(pipe[d]).type \notin ListTypesOfMessage
         /\ m.type \notin ListTypesOfMessage /\ pipe' = Pass(d, f, m))
          => \A e \in Directions : Alike(pipe[e], pipe'[e])
  BY <1>4
<1>8. QED
  BY <1>5, <1>6, <1>7

\* The steps of the server's requests.
ReverseStep ==
  \/ Prompt \/ AskRoots \/ GivingUp \/ RelayRequest \/ RelayReply \/ ClientTakesRequest
  \/ ServerTakesReply \/ \E w \in working : ClientReplies(w)

LEMMA ReverseAlike ==
  ASSUME IdsInv, ReverseStep
  PROVE  \A d \in Directions : Alike(pipe[d], pipe'[d])
<1> USE FourDirections
<1>1. /\ PipesTyped /\ serverId \in Nat /\ proxyId \in Nat /\ roots \in Nat /\ load.prompts \in Nat
      /\ \A a \in asked : a.id \in Nat
      /\ \A w \in working : w.id \in Nat /\ w.what \in Nat
      /\ \A r \in relays : r.up \in Nat /\ r.down \in Nat
  BY IdsUnfolded DEF SessionTypes
<1>2. \A i, v \in Nat :
        /\ Request(i, v) \in SomeMessage /\ Request(i, v).type \notin ListTypesOfMessage
        /\ Reply(i, v) \in SomeMessage /\ Reply(i, v).type \notin ListTypesOfMessage
  BY DEF Request, Reply, SomeMessage, ListTypesOfMessage
<1>3. \A i \in Nat :
        /\ Cancelled(i) \in SomeMessage /\ Cancelled(i).type \notin ListTypesOfMessage
        /\ Failed(i) \in SomeMessage /\ Failed(i).type \notin ListTypesOfMessage
  BY DEF Cancelled, Failed, SomeMessage, ListTypesOfMessage
<1>4. \A d \in Directions : \A type \in {"request", "reply", "cancelled", "failed"} :
        Carries(d, type) =>
          /\ pipe[d] # <<>> /\ Head(pipe[d]).type \notin ListTypesOfMessage
          /\ Head(pipe[d]) \in SomeMessage
  BY <1>1, TailContents DEF Carries, ListTypesOfMessage, PipesTyped
<1>5. CASE Prompt \/ AskRoots
  <2>1. PICK what \in Nat : pipe' = Put(pipe, "fromServer", Request(serverId, what))
    BY <1>1, <1>5 DEF Prompt, AskRoots, ServerAsks
  <2>2. QED
    BY <1>1, <1>2, <2>1, AlikePipes
<1>6. CASE GivingUp
  <2>1. CASE Ping
    BY <2>1, AlikeSelf DEF Ping
  <2>2. CASE \E a \in asked : ServerCancels(a)
    <3>1. PICK a \in asked : pipe' = Put(pipe, "fromServer", Cancelled(a.id))
      BY <2>2 DEF ServerCancels
    <3>2. QED
      BY <1>1, <1>3, <3>1, AlikePipes
  <2>3. CASE RelayCancel
    <3>1. Carries("fromServer", "cancelled")
      BY <2>3 DEF RelayCancel
    <3>2. CASE pipe' = Take("fromServer")
      BY <1>1, <1>4, <3>1, <3>2, AlikePipes
    <3>3. CASE \E r \in relays : pipe' = Pass("fromServer", "toClient", Cancelled(r.down))
      <4>1. PICK r \in relays : pipe' = Pass("fromServer", "toClient", Cancelled(r.down))
        BY <3>3
      <4>2. QED
        BY <1>1, <1>3, <1>4, <3>1, <4>1, AlikePipes
    <3>4. QED
      BY <2>3, <3>2, <3>3 DEF RelayCancel, CancelDown
  <2>4. CASE \E r \in relays : RelayTimeout(r)
    <3>1. PICK r \in relays :
            pipe' = Put(Put(pipe, "toClient", Cancelled(r.down)), "toServer", Failed(r.up))
      BY <2>4 DEF RelayTimeout
    <3>2. /\ pipe["toClient"] \in Seq(SomeMessage) /\ pipe["toServer"] \in Seq(SomeMessage)
          /\ pipe'["toServer"] = Append(pipe["toServer"], Failed(r.up))
          /\ pipe'["toClient"] = Append(pipe["toClient"], Cancelled(r.down))
          /\ \A e \in Directions \ {"toClient", "toServer"} : pipe'[e] = pipe[e]
      BY <1>1, <3>1 DEF PipesTyped, Put
    <3>3. /\ Alike(pipe["toServer"], Append(pipe["toServer"], Failed(r.up)))
          /\ Alike(pipe["toClient"], Append(pipe["toClient"], Cancelled(r.down)))
      BY <1>1, <1>3, <3>2, AlikeAppend DEF ListTypesOfMessage
    <3>4. QED
      BY <3>2, <3>3, AlikeSelf
  <2>5. CASE ClientTakesCancel
    BY <1>1, <1>4, <2>5, AlikePipes DEF ClientTakesCancel
  <2>6. CASE ServerTakesFailure
    BY <1>1, <1>4, <2>6, AlikePipes DEF ServerTakesFailure
  <2>7. QED
    BY <1>6, <2>1, <2>2, <2>3, <2>4, <2>5, <2>6 DEF GivingUp
<1>7. CASE RelayRequest
  <2> DEFINE m == Head(pipe["fromServer"])
  <2>1. /\ Carries("fromServer", "request") /\ m.type = "request"
        /\ pipe' = Pass("fromServer", "toClient", Request(proxyId, m.what))
    BY <1>7 DEF RelayRequest, Carries
  <2>2. m \in SomeMessage
    BY <1>4, <2>1
  <2>3. m.what \in Nat
    BY <2>1, <2>2, ReadTypes
  <2> HIDE DEF m
  <2>4. QED
    BY <1>1, <1>2, <1>4, <2>1, <2>3, AlikePipes
<1>8. CASE RelayReply
  <2> DEFINE m == Head(pipe["fromClient"])
  <2>1. Carries("fromClient", "reply") /\ m.type = "reply"
    BY <1>8 DEF RelayReply, Carries
  <2>2. m \in SomeMessage
    BY <1>4, <2>1
  <2>3. m.value \in Nat
    BY <2>1, <2>2, ReadTypes
  <2>4. CASE pipe' = Take("fromClient")
    BY <1>1, <1>4, <2>1, <2>4, AlikePipes
  <2>5. CASE \E r \in relays : pipe' = Pass("fromClient", "toServer", Reply(r.up, m.value))
    <3>1. PICK r \in relays : pipe' = Pass("fromClient", "toServer", Reply(r.up, m.value))
      BY <2>5
    <3> HIDE DEF m
    <3>2. QED
      BY <1>1, <1>2, <1>4, <2>1, <2>3, <3>1, AlikePipes
  <2>6. QED
    BY <1>8, <2>4, <2>5 DEF RelayReply, ReplyUp
<1>9. CASE ClientTakesRequest
  BY <1>1, <1>4, <1>9, AlikePipes DEF ClientTakesRequest
<1>10. CASE ServerTakesReply
  BY <1>1, <1>4, <1>10, AlikePipes DEF ServerTakesReply
<1>11. CASE \E w \in working : ClientReplies(w)
  <2>1. PICK w \in working :
          pipe' = Put(pipe, "fromClient", Reply(w.id, IF w.what = 0 THEN roots ELSE w.what))
    BY <1>11 DEF ClientReplies
  <2>2. (IF w.what = 0 THEN roots ELSE w.what) \in Nat
    BY <1>1
  <2>3. QED
    BY <1>1, <1>2, <2>1, <2>2, AlikePipes
<1>12. QED
  BY <1>5, <1>6, <1>7, <1>8, <1>9, <1>10, <1>11 DEF ReverseStep

LEMMA ReverseLists ==
  ASSUME IdsInv, ListsInv, ReverseStep, SessionTypes'
  PROVE  ListsInv'
<1>1. UNCHANGED <<phase, tools, client, results>>
  BY DEF ReverseStep, GivingUp, Prompt, AskRoots, ServerAsks, Ping, ServerCancels, RelayCancel,
         RelayTimeout, ClientTakesCancel, ServerTakesFailure, RelayRequest, RelayReply,
         ClientTakesRequest, ServerTakesReply, ClientReplies
<1>2. load'.tools = load.tools
  <2>1. \/ load' = load
        \/ Spend("prompts") \/ Spend("pings") \/ Spend("timeouts")
    BY DEF ReverseStep, GivingUp, Prompt, AskRoots, ServerAsks, Ping, ServerCancels,
           RelayCancel, RelayTimeout, ClientTakesCancel, ServerTakesFailure, RelayRequest,
           RelayReply, ClientTakesRequest, ServerTakesReply, ClientReplies
  <2>2. SessionTypes
    BY DEF ListsInv
  <2>3. QED
    BY <2>1, <2>2, SpendTypes
<1>3. QED
  BY <1>1, <1>2, ReverseAlike, AlikeKeeps

-----------------------------------------------------------------------------
(* The steps of the lists: where the one list is.                           *)

\* What a step that takes, puts or passes a message does to pipes and tokens.
LEMMA PlainPipes ==
  ASSUME PipesTyped, TokenInv, results' = results, client'.lists = client.lists,
         \/ \E d \in Directions : pipe[d] # <<>> /\ pipe' = Take(d)
         \/ \E d \in Directions, m \in SomeMessage : ~Token(m) /\ pipe' = Put(pipe, d, m)
         \/ \E d, f \in Directions, m \in SomeMessage :
              d # f /\ ~Token(m) /\ pipe[d] # <<>> /\ pipe' = Pass(d, f, m)
  PROVE  TokenInv'
<1>1. \A e \in Directions : pipe[e] \in Seq(SomeMessage)
  BY DEF PipesTyped
<1>2. \A e \in Directions :
        (Quiet(pipe[e]) => Quiet(pipe'[e])) /\ (Single(pipe[e]) => Single(pipe'[e]))
  <2>1. ASSUME NEW d \in Directions, pipe[d] # <<>>, pipe' = Take(d)
        PROVE  \A e \in Directions :
                 (Quiet(pipe[e]) => Quiet(pipe'[e])) /\ (Single(pipe[e]) => Single(pipe'[e]))
    <3>1. pipe'[d] = Tail(pipe[d]) /\ \A e \in Directions \ {d} : pipe'[e] = pipe[e]
      BY <2>1 DEF PipesTyped, Take
    <3>2. QED
      BY <1>1, <2>1, <3>1, TailTokens
  <2>2. ASSUME NEW d \in Directions, NEW m \in SomeMessage, ~Token(m), pipe' = Put(pipe, d, m)
        PROVE  \A e \in Directions :
                 (Quiet(pipe[e]) => Quiet(pipe'[e])) /\ (Single(pipe[e]) => Single(pipe'[e]))
    <3>1. pipe'[d] = Append(pipe[d], m) /\ \A e \in Directions \ {d} : pipe'[e] = pipe[e]
      BY <2>2 DEF PipesTyped, Put
    <3>2. QED
      BY <1>1, <2>2, <3>1, AppendTokens
  <2>3. ASSUME NEW d \in Directions, NEW f \in Directions, NEW m \in SomeMessage,
               d # f, ~Token(m), pipe[d] # <<>>, pipe' = Pass(d, f, m)
        PROVE  \A e \in Directions :
                 (Quiet(pipe[e]) => Quiet(pipe'[e])) /\ (Single(pipe[e]) => Single(pipe'[e]))
    <3>1. /\ pipe'[d] = Tail(pipe[d]) /\ pipe'[f] = Append(pipe[f], m)
          /\ \A e \in Directions \ {d, f} : pipe'[e] = pipe[e]
      BY <2>3 DEF PipesTyped, Pass, Put, Take
    <3>2. QED
      BY <1>1, <2>3, <3>1, TailTokens, AppendTokens
  <2>4. QED
    BY <2>1, <2>2, <2>3
<1>3. QED
  BY <1>2 DEF TokenInv

\* The list is in pipe d: it is nowhere else.
LEMMA ListIsIn ==
  ASSUME PipesTyped, TokenInv, NEW d \in Directions,
         Carries(d, "list") \/ Carries(d, "listed")
  PROVE  /\ pipe[d] # <<>> /\ Quiet(Tail(pipe[d])) /\ client.lists
         /\ Quiet(results) /\ \A e \in Directions \ {d} : Quiet(pipe[e])
<1>1. pipe[d] \in Seq(SomeMessage) /\ pipe[d] # <<>> /\ Token(Head(pipe[d]))
  BY DEF PipesTyped, Carries, Token
<1>2. ~Quiet(pipe[d])
  <2>1. 1 \in 1..Len(pipe[d]) /\ Head(pipe[d]) = pipe[d][1]
    BY <1>1
  <2>2. QED
    BY <1>1, <2>1 DEF Quiet
<1>3. Quiet(Tail(pipe[d]))
  BY <1>1, TailTokens DEF TokenInv
<1>4. QED
  BY <1>1, <1>2, <1>3 DEF TokenInv

\* Whatever pipe is not quiet is where the list is.
LEMMA OnePlace ==
  ASSUME NEW f \in Directions, client'.lists,
         \A e \in Directions \ {f} : Quiet(pipe'[e]), Quiet(results'), Single(pipe'[f])
  PROVE  TokenInv'
<1>1. \A s : Quiet(s) => Single(s)
  BY DEF Quiet, Single
<1>2. QED
  BY <1>1 DEF TokenInv

LEMMA ListTokens ==
  ASSUME SessionTypes, TokenInv,
         ClientLists \/ ListTools \/ ServerLists \/ TakeListed \/ ReturnListed \/ ClientTakesListed
  PROVE  TokenInv'
<1> USE FourDirections
<1>1. PipesTyped /\ \A e \in Directions : pipe[e] \in Seq(SomeMessage)
  BY DEF SessionTypes, PipesTyped
<1>2. \A s : Quiet(s) => Single(s)
  BY DEF Quiet, Single
<1>3. \A i \in Nat : List(i) \in SomeMessage /\ Listed(i) \in SomeMessage
  BY MessageTypes, PagesType DEF SessionTypes
<1>4. \A d, f \in Directions, m \in SomeMessage :
        (/\ d # f /\ pipe' = Pass(d, f, m) /\ results' = results /\ client' = client
         /\ Carries(d, "list") \/ Carries(d, "listed"))
          => TokenInv'
  <2> SUFFICES ASSUME NEW d \in Directions, NEW f \in Directions, NEW m \in SomeMessage,
                      d # f, pipe' = Pass(d, f, m), results' = results, client' = client,
                      Carries(d, "list") \/ Carries(d, "listed")
               PROVE  TokenInv'
    OBVIOUS
  <2>1. /\ pipe'[d] = Tail(pipe[d]) /\ pipe'[f] = Append(pipe[f], m)
        /\ \A e \in Directions \ {d, f} : pipe'[e] = pipe[e]
    BY <1>1 DEF PipesTyped, Pass, Put, Take
  <2>2. /\ Quiet(Tail(pipe[d])) /\ client.lists
        /\ Quiet(results) /\ \A e \in Directions \ {d} : Quiet(pipe[e])
    BY <1>1, ListIsIn
  <2>3. Single(Append(pipe[f], m))
    BY <1>1, <2>2, AppendTokens
  <2>4. \A e \in Directions \ {f} : Quiet(pipe'[e])
    BY <2>1, <2>2
  <2>5. QED
    BY <2>1, <2>2, <2>3, <2>4, OnePlace
<1>5. CASE ClientLists
  <2>1. /\ ~client.lists /\ results' = results /\ client'.lists = TRUE /\ client.next \in Nat
        /\ pipe' = Put(pipe, "fromClient", List(client.next))
    BY <1>5 DEF ClientLists, SessionTypes
  <2>2. /\ pipe'["fromClient"] = Append(pipe["fromClient"], List(client.next))
        /\ \A e \in Directions \ {"fromClient"} : pipe'[e] = pipe[e]
    BY <1>1, <2>1 DEF PipesTyped, Put
  <2>3. Quiet(results) /\ \A e \in Directions : Quiet(pipe[e])
    BY <2>1 DEF TokenInv
  <2>4. Single(pipe'["fromClient"])
    BY <1>1, <1>3, <2>1, <2>2, <2>3, AppendTokens
  <2>5. QED
    BY <2>1, <2>2, <2>3, <2>4, OnePlace
<1>6. CASE ListTools
  BY <1>3, <1>4, <1>6 DEF ListTools
<1>7. CASE ServerLists
  <2>1. Carries("toServer", "list") /\ Head(pipe["toServer"]) \in SomeMessage
    BY <1>1, <1>7, TailContents DEF ServerLists, Carries
  <2>2. Head(pipe["toServer"]).cursor \in Nat
    BY <2>1, ReadTypes DEF Carries
  <2>3. QED
    BY <1>3, <1>4, <1>7, <2>2 DEF ServerLists
<1>8. CASE TakeListed
  <2>1. /\ Carries("fromServer", "listed") /\ pipe' = Take("fromServer") /\ client' = client
        /\ results' = Append(results, Head(pipe["fromServer"]))
    BY <1>8 DEF TakeListed
  <2>2. /\ pipe["fromServer"] # <<>> /\ Quiet(Tail(pipe["fromServer"])) /\ client.lists
        /\ Quiet(results) /\ \A e \in Directions \ {"fromServer"} : Quiet(pipe[e])
    BY <1>1, <2>1, ListIsIn
  <2>3. \A e \in Directions : Quiet(pipe'[e])
    BY <1>1, <2>1, <2>2 DEF PipesTyped, Take
  <2>4. Head(pipe["fromServer"]) \in ListedMessage
    BY <1>1, <2>1, TailContents, ReadTypes DEF Carries
  <2>5. Single(results')
    BY <2>1, <2>2, <2>4, AppendTokens DEF SessionTypes
  <2>6. QED
    BY <1>2, <2>1, <2>2, <2>3, <2>5 DEF TokenInv
<1>9. CASE ReturnListed
  <2>1. /\ results # <<>> /\ results \in Seq(ListedMessage) /\ client' = client
        /\ results' = Tail(results) /\ pipe' = Put(pipe, "toClient", Head(results))
    BY <1>9 DEF ReturnListed, SessionTypes
  <2>2. Head(results) \in ListedMessage /\ Head(results) \in SomeMessage /\ Token(Head(results))
    <3>1. Head(results) \in ListedMessage
      BY <2>1
    <3>2. QED
      BY <3>1 DEF ListedMessage, SomeMessage, Token
  <2>3. ~Quiet(results) /\ Quiet(Tail(results))
    <3>1. 1 \in 1..Len(results) /\ Head(results) = results[1]
      BY <2>1
    <3>2. ~Quiet(results)
      BY <2>2, <3>1 DEF Quiet
    <3>3. Quiet(Tail(results))
      BY <2>1, <2>2, TailTokens DEF TokenInv
    <3>4. QED
      BY <3>2, <3>3
  <2>4. client.lists /\ \A e \in Directions : Quiet(pipe[e])
    BY <2>3 DEF TokenInv
  <2>5. /\ pipe'["toClient"] = Append(pipe["toClient"], Head(results))
        /\ \A e \in Directions \ {"toClient"} : pipe'[e] = pipe[e]
    BY <1>1, <2>1 DEF PipesTyped, Put
  <2>6. Single(pipe'["toClient"])
    BY <1>1, <2>2, <2>4, <2>5, AppendTokens
  <2>7. QED
    BY <2>1, <2>3, <2>4, <2>5, <2>6, OnePlace
<1>10. CASE ClientTakesListed
  <2>1. /\ Carries("toClient", "listed") /\ pipe' = Take("toClient") /\ results' = results
    BY <1>10 DEF ClientTakesListed
  <2>2. /\ Quiet(Tail(pipe["toClient"]))
        /\ Quiet(results) /\ \A e \in Directions \ {"toClient"} : Quiet(pipe[e])
    BY <1>1, <2>1, ListIsIn
  <2>3. \A e \in Directions : Quiet(pipe'[e])
    BY <1>1, <2>1, <2>2 DEF PipesTyped, Take
  <2>4. QED
    BY <1>2, <2>1, <2>2, <2>3 DEF TokenInv
<1>11. QED
  BY <1>5, <1>6, <1>7, <1>8, <1>9, <1>10

-----------------------------------------------------------------------------
(* The steps of the lists: what the client knows.                           *)

\* Word is kept, and no stale list appears: enough, if the client knows the
\* tools or something tells it.
LEMMA ToldKeeps ==
  ASSUME ListsInv, SessionTypes', TokenInv', BeforeServing', WillKnow',
         UNCHANGED tools, Word => Word',
         \A m \in Pending' : m.type = "listed" => m \in Pending \/ m.version = tools
  PROVE  ListsInv'
<1>1. StaleIsFollowed'
  BY DEF ListsInv, StaleIsFollowed
<1>2. QED
  BY <1>1 DEF ListsInv

\* The steps after which word is still, or now, on its way.
LEMMA WordKeeps ==
  ASSUME ListsInv, SessionTypes', TokenInv', Word', BeforeServing'
  PROVE  ListsInv'
  BY DEF ListsInv, StaleIsFollowed, WillKnow

LEMMA ChangedTypes == Changed \in SomeMessage /\ Changed.type = "list_changed" /\ ~Token(Changed)
  BY DEF Changed, SomeMessage, Token

LEMMA ChangeToolsLists ==
  ASSUME ListsInv, ChangeTools, SessionTypes'
  PROVE  ListsInv'
<1> USE FourDirections, ChangedTypes
<1>1. /\ pipe' = Put(pipe, "fromServer", Changed) /\ tools' = tools + 1 /\ Spend("tools")
      /\ UNCHANGED <<phase, client, results>>
  BY DEF ChangeTools
<1>2. PipesTyped /\ SessionTypes
  BY DEF ListsInv, SessionTypes
<1>3. TokenInv'
  BY <1>1, <1>2, PlainPipes DEF ListsInv
<1>4. Changed \in In("fromServer")'
  BY <1>1, <1>2, PutPipes
<1>5. Changed' = Changed
  BY DEF Changed
<1>6. Word'
  BY <1>4, <1>5 DEF Word
<1>7. BeforeServing'
  <2>1. load.tools # 0 /\ load["tools"] \in Nat
    BY <1>1, <1>2, SpendTypes
  <2>2. QED
    BY <1>1, <2>1 DEF ListsInv, BeforeServing
<1>8. QED
  BY <1>3, <1>6, <1>7, WordKeeps

\* While the proxy connects, nothing is listed.
LEMMA IgnoreLists ==
  ASSUME ListsInv, Ignore, SessionTypes'
  PROVE  ListsInv'
<1> USE FourDirections
<1>1. /\ phase = "connecting" /\ pipe["fromServer"] # <<>> /\ pipe' = Take("fromServer")
      /\ UNCHANGED <<load, phase, tools, client, results>>
  BY DEF Ignore
<1>2. PipesTyped
  BY DEF ListsInv, SessionTypes
<1>3. TokenInv'
  BY <1>1, <1>2, PlainPipes DEF ListsInv
<1>4. \A m \in Pending' : m.type # "listed"
  <2>1. ~client.lists /\ client' = client
    BY <1>1 DEF ListsInv, BeforeServing
  <2>2. Quiet(results') /\ Quiet(pipe'["fromServer"]) /\ Quiet(pipe'["toClient"])
    BY <1>3, <2>1 DEF TokenInv
  <2>3. QED
    BY <2>2 DEF Pending, In, Contents, Quiet, Token
<1>5. BeforeServing'
  BY <1>1 DEF ListsInv, BeforeServing
<1>6. WillKnow' /\ StaleIsFollowed'
  BY <1>1, <1>4 DEF WillKnow, StaleIsFollowed
<1>7. QED
  BY <1>3, <1>5, <1>6 DEF ListsInv

LEMMA ServeLists ==
  ASSUME ListsInv, Serve, SessionTypes'
  PROVE  ListsInv'
<1>1. /\ phase = "connecting" /\ phase' = "serving"
      /\ UNCHANGED <<load, tools, client, pipe, results>>
  BY DEF Serve
<1>2. /\ Word' = Word /\ Pending' = Pending
  BY <1>1 DEF Word, Pending, In, Contents, Changed
<1>3. TokenInv' /\ StaleIsFollowed' /\ BeforeServing'
  BY <1>1, <1>2 DEF ListsInv, TokenInv, StaleIsFollowed, BeforeServing
<1>4. WillKnow'
  BY <1>1, <1>2 DEF ListsInv, BeforeServing, WillKnow, Word
<1>5. QED
  BY <1>3, <1>4 DEF ListsInv

\* The client asks only while nothing is listed.
LEMMA ClientListsLists ==
  ASSUME ListsInv, ClientLists, SessionTypes'
  PROVE  ListsInv'
<1> USE FourDirections
<1>1. /\ phase = "serving" /\ ~client.lists /\ pipe' = Put(pipe, "fromClient", List(client.next))
      /\ UNCHANGED <<phase, tools, results>>
  BY DEF ClientLists
<1>2. PipesTyped /\ SessionTypes /\ TokenInv /\ client.next \in Nat
  BY DEF ListsInv, SessionTypes
<1>3. List(client.next) \in SomeMessage /\ List(client.next).type = "list"
  BY <1>2, MessageTypes, PagesType DEF SessionTypes
<1>4. TokenInv'
  BY <1>2, ListTokens
<1>5. In("fromServer")' = In("fromServer") /\ In("toClient")' = In("toClient")
      /\ List(client.next) \in In("fromClient")'
  BY <1>1, <1>2, <1>3, PutPipes
<1>6. \A m \in Pending' : m.type # "listed"
  <2>1. Quiet(results) /\ Quiet(pipe["fromServer"]) /\ Quiet(pipe["toClient"])
    BY <1>1, <1>2 DEF TokenInv
  <2>2. Pending' = Pending
    BY <1>1, <1>5 DEF Pending, Contents
  <2>3. QED
    BY <2>1, <2>2 DEF Pending, In, Contents, Quiet, Token
<1>7. StaleIsFollowed' /\ BeforeServing'
  BY <1>1, <1>6 DEF StaleIsFollowed, BeforeServing
<1>8. WillKnow'
  BY <1>3, <1>5 DEF WillKnow
<1>9. QED
  BY <1>4, <1>7, <1>8 DEF ListsInv

\* Facts about a head that is taken.
LEMMA Taken ==
  ASSUME PipesTyped, NEW d \in Directions, NEW type, Carries(d, type)
  PROVE  /\ pipe[d] # <<>> /\ Head(pipe[d]).type = type
         /\ Head(pipe[d]) \in In(d) /\ Head(pipe[d]) \in SomeMessage
  BY TailContents DEF PipesTyped, Carries, In

LEMMA ListToolsLists ==
  ASSUME ListsInv, ListTools, SessionTypes'
  PROVE  ListsInv'
<1> USE FourDirections
<1>1. /\ Carries("fromClient", "list") /\ pipe' = Pass("fromClient", "toServer", List(0))
      /\ UNCHANGED <<load, phase, tools, client, results>>
  BY DEF ListTools
<1>2. PipesTyped /\ SessionTypes /\ TokenInv
  BY DEF ListsInv, SessionTypes
<1>3. List(0) \in SomeMessage /\ List(0).type = "list"
  BY MessageTypes, PagesType, <1>2 DEF SessionTypes
<1>4. TokenInv'
  BY <1>2, ListTokens
<1>5. /\ In("fromServer")' = In("fromServer") /\ In("toClient")' = In("toClient")
      /\ List(0) \in In("toServer")'
  <2>1. pipe["fromClient"] # <<>>
    BY <1>1 DEF Carries
  <2>2. QED
    BY <1>1, <1>2, <1>3, <2>1, PassPipes
<1>6. Pending' = Pending /\ Word' = Word
  BY <1>1, <1>5 DEF Pending, Contents, Word, Changed
<1>7. BeforeServing' /\ WillKnow'
  BY <1>1, <1>3, <1>5 DEF ListsInv, BeforeServing, WillKnow
<1>8. QED
  BY <1>1, <1>4, <1>6, <1>7, ToldKeeps

LEMMA ServerListsLists ==
  ASSUME ListsInv, ServerLists, SessionTypes'
  PROVE  ListsInv'
<1> USE FourDirections
<1> DEFINE m == Listed(Head(pipe["toServer"]).cursor)
<1>1. /\ Carries("toServer", "list") /\ pipe' = Pass("toServer", "fromServer", m)
      /\ UNCHANGED <<load, phase, tools, client, results>>
  BY DEF ServerLists
<1>2. PipesTyped /\ SessionTypes /\ TokenInv /\ tools \in Nat
  BY DEF ListsInv, SessionTypes
<1>3. Head(pipe["toServer"]).cursor \in Nat
  BY <1>1, <1>2, Taken, ReadTypes
<1>4. m \in ListedMessage /\ m \in SomeMessage /\ m.version = tools
  BY <1>2, <1>3, MessageTypes, PagesType
<1>5. m.type = "listed"
  BY <1>4 DEF ListedMessage
<1> HIDE DEF m
<1>6. TokenInv'
  BY <1>2, ListTokens
<1>7. /\ In("fromServer")' = In("fromServer") \cup {m} /\ In("toClient")' = In("toClient")
  <2>1. pipe["toServer"] # <<>>
    BY <1>1 DEF Carries
  <2>2. QED
    BY <1>1, <1>2, <1>4, <2>1, PassPipes
<1>8. Pending' = Pending \cup {m}
  BY <1>1, <1>7 DEF Pending, Contents
<1>9. Word => Word'
  BY <1>1, <1>7 DEF Word, Changed
<1>10. BeforeServing' /\ WillKnow'
  BY <1>1, <1>4, <1>5, <1>8 DEF ListsInv, BeforeServing, WillKnow
<1>11. \A n \in Pending' : n.type = "listed" => n \in Pending \/ n.version = tools
  BY <1>4, <1>8
<1>12. QED
  BY <1>1, <1>6, <1>9, <1>10, <1>11, ToldKeeps

\* The answer moves into the proxy.
LEMMA TakeListedLists ==
  ASSUME ListsInv, TakeListed, SessionTypes'
  PROVE  ListsInv'
<1> USE FourDirections
<1> DEFINE m == Head(pipe["fromServer"])
<1>1. /\ Carries("fromServer", "listed") /\ pipe' = Take("fromServer")
      /\ results' = Append(results, m)
      /\ UNCHANGED <<load, phase, tools, client>>
  BY DEF TakeListed
<1>2. PipesTyped /\ SessionTypes /\ TokenInv /\ results \in Seq(ListedMessage)
  BY DEF ListsInv, SessionTypes
<1>3. /\ pipe["fromServer"] # <<>> /\ m \in SomeMessage /\ m.type = "listed"
      /\ m \in In("fromServer")
  BY <1>1, <1>2, Taken
<1>4. m \in ListedMessage
  BY <1>3, ReadTypes
<1>5. TokenInv'
  BY <1>2, ListTokens
<1>6. /\ In("fromServer")' \subseteq In("fromServer")
      /\ In("fromServer") \subseteq In("fromServer")' \cup {m}
      /\ \A e \in {"toServer", "fromClient", "toClient"} : In(e)' = In(e)
  BY <1>1, <1>2, <1>3, TakePipes
<1>7. Contents(results') = Contents(results) \cup {m}
  BY <1>1, <1>2, <1>4, AppendContents
<1> HIDE DEF m
<1>8. Pending' = Pending
  BY <1>3, <1>6, <1>7 DEF Pending, Contents
<1>9. Word' = Word
  <2>1. Changed # m
    BY <1>3, ChangedTypes
  <2>2. Changed' = Changed
    BY DEF Changed
  <2>3. QED
    BY <1>1, <1>6, <2>1, <2>2 DEF Word
<1>10. BeforeServing' /\ WillKnow'
  BY <1>1, <1>6, <1>8, <1>9 DEF ListsInv, BeforeServing, WillKnow
<1>11. QED
  BY <1>1, <1>5, <1>8, <1>9, <1>10, ToldKeeps

\* And out of it.
LEMMA ReturnListedLists ==
  ASSUME ListsInv, ReturnListed, SessionTypes'
  PROVE  ListsInv'
<1> USE FourDirections
<1> DEFINE m == Head(results)
<1>1. /\ results # <<>> /\ pipe' = Put(pipe, "toClient", m) /\ results' = Tail(results)
      /\ UNCHANGED <<load, phase, tools, client>>
  BY DEF ReturnListed
<1>2. PipesTyped /\ SessionTypes /\ TokenInv /\ results \in Seq(ListedMessage)
  BY DEF ListsInv, SessionTypes
<1>3. /\ m \in ListedMessage /\ m \in Contents(results)
      /\ Contents(results') \subseteq Contents(results)
      /\ Contents(results) \subseteq Contents(results') \cup {m}
  BY <1>1, <1>2, TailContents
<1>4. m \in SomeMessage
  BY <1>3 DEF ListedMessage, SomeMessage
<1>5. TokenInv'
  BY <1>2, ListTokens
<1>6. /\ In("toClient")' = In("toClient") \cup {m}
      /\ \A e \in {"toServer", "fromClient", "fromServer"} : In(e)' = In(e)
  BY <1>1, <1>2, <1>4, PutPipes
<1> HIDE DEF m
<1>7. Pending' = Pending
  BY <1>3, <1>6 DEF Pending, Contents
<1>8. Word => Word'
  BY <1>1, <1>6 DEF Word, Changed
<1>9. BeforeServing' /\ WillKnow'
  BY <1>1, <1>6, <1>7, <1>8 DEF ListsInv, BeforeServing, WillKnow
<1>10. QED
  BY <1>1, <1>5, <1>7, <1>8, <1>9, ToldKeeps

LEMMA RelayChangedLists ==
  ASSUME ListsInv, RelayChanged, SessionTypes'
  PROVE  ListsInv'
<1> USE FourDirections, ChangedTypes
<1>1. /\ phase = "serving" /\ Carries("fromServer", "list_changed")
      /\ pipe' = Pass("fromServer", "toClient", Changed)
      /\ UNCHANGED <<phase, tools, client, results>>
  BY DEF RelayChanged
<1>2. PipesTyped /\ pipe["fromServer"] # <<>>
  BY <1>1 DEF ListsInv, SessionTypes, Carries
<1>3. TokenInv'
  BY <1>1, <1>2, PlainPipes DEF ListsInv
<1>4. Changed \in In("toClient")' /\ Changed' = Changed
  BY <1>1, <1>2, PassPipes DEF Changed
<1>5. Word'
  BY <1>4 DEF Word
<1>6. BeforeServing'
  BY <1>1 DEF BeforeServing
<1>7. QED
  BY <1>3, <1>5, <1>6, WordKeeps

\* A stale page is one that word will follow.
LEMMA ClientTakesListedLists ==
  ASSUME ListsInv, ClientTakesListed, SessionTypes'
  PROVE  ListsInv'
<1> USE FourDirections
<1> DEFINE m == Head(pipe["toClient"])
<1>1. /\ Carries("toClient", "listed") /\ pipe' = Take("toClient")
      /\ client' = [client EXCEPT !.lists = FALSE, !.wants = @ \/ m.next # 0, !.next = m.next,
                                  !.view = IF m.next = 0 THEN m.version ELSE @]
      /\ UNCHANGED <<load, phase, tools, results>>
  BY DEF ClientTakesListed
<1>2. /\ PipesTyped /\ SessionTypes /\ TokenInv
      /\ client \in [view : Int, wants : BOOLEAN, lists : BOOLEAN, next : Nat, asks : Nat]
  BY DEF ListsInv, SessionTypes
<1>3. /\ pipe["toClient"] # <<>> /\ m \in SomeMessage /\ m.type = "listed"
      /\ m \in In("toClient")
  BY <1>1, <1>2, Taken
<1>4. TokenInv'
  BY <1>2, ListTokens
<1>5. /\ In("toClient")' \subseteq In("toClient")
      /\ In("toClient") \subseteq In("toClient")' \cup {m}
      /\ \A e \in {"toServer", "fromClient", "fromServer"} : In(e)' = In(e)
  BY <1>1, <1>2, <1>3, TakePipes
<1>6. /\ client'.lists = FALSE
      /\ client'.view = IF m.next = 0 THEN m.version ELSE client.view
  BY <1>1, <1>2
<1>7. client.wants \/ m.next # 0 => client'.wants
  BY <1>1, <1>2
<1> HIDE DEF m
<1>8. Word => Word'
  <2>1. Changed # m /\ Changed' = Changed
    BY <1>3, ChangedTypes DEF Changed
  <2>2. QED
    BY <1>5, <1>7, <2>1 DEF Word
<1>9. Pending' \subseteq Pending /\ m \in Pending
  BY <1>1, <1>3, <1>5 DEF Pending, Contents
<1>10. WillKnow'
  <2> SUFFICES ASSUME client'.view # tools PROVE Word'
    BY <1>1 DEF WillKnow
  <2>1. CASE m.next # 0
    BY <1>7, <2>1 DEF Word
  <2>2. CASE m.next = 0
    <3>1. m.version # tools
      BY <1>6, <2>2
    <3>2. Word
      BY <1>3, <1>9, <3>1 DEF ListsInv, StaleIsFollowed
    <3>3. QED
      BY <1>8, <3>2
  <2>3. QED
    BY <2>1, <2>2
<1>11. BeforeServing'
  <2>1. phase # "connecting"
    <3>1. client.lists
      BY <1>1, <1>2, ListIsIn
    <3>2. QED
      BY <3>1 DEF ListsInv, BeforeServing
  <2>2. QED
    BY <1>1, <2>1 DEF BeforeServing
<1>12. QED
  BY <1>1, <1>4, <1>8, <1>9, <1>10, <1>11, ToldKeeps

LEMMA ClientTakesChangedLists ==
  ASSUME ListsInv, ClientTakesChanged, SessionTypes'
  PROVE  ListsInv'
<1> USE FourDirections
<1>1. /\ Carries("toClient", "list_changed") /\ pipe' = Take("toClient")
      /\ client' = [client EXCEPT !.wants = TRUE, !.next = 0]
      /\ UNCHANGED <<load, phase, tools, results>>
  BY DEF ClientTakesChanged
<1>2. /\ PipesTyped /\ pipe["toClient"] # <<>>
      /\ client \in [view : Int, wants : BOOLEAN, lists : BOOLEAN, next : Nat, asks : Nat]
  BY <1>1 DEF ListsInv, SessionTypes, Carries
<1>3. client'.wants /\ client'.lists = client.lists
  BY <1>1, <1>2
<1>4. TokenInv'
  BY <1>1, <1>2, <1>3, PlainPipes DEF ListsInv
<1>5. Word'
  BY <1>3 DEF Word
<1>6. BeforeServing'
  BY <1>1, <1>3 DEF ListsInv, BeforeServing
<1>7. QED
  BY <1>4, <1>5, <1>6, WordKeeps

\* The roots travel the other way: all that concerns tools stays.
LEMMA RootsLists ==
  ASSUME ListsInv, ChangeRoots \/ RelayRootsChanged \/ ServerTakesChanged, SessionTypes'
  PROVE  ListsInv'
<1> USE FourDirections, ChangedTypes
<1>1. UNCHANGED <<phase, tools, client, results>>
  BY DEF ChangeRoots, RelayRootsChanged, ServerTakesChanged
<1>2. PipesTyped /\ SessionTypes
  BY DEF ListsInv, SessionTypes
<1>3. load'.tools = load.tools
  BY <1>2, SpendTypes DEF ChangeRoots, RelayRootsChanged, ServerTakesChanged
<1>4. /\ TokenInv'
      /\ In("fromServer")' = In("fromServer") /\ In("toClient")' = In("toClient")
      /\ \A m \in In("fromClient") \cup In("toServer") :
           m.type = "list" => m \in In("fromClient")' \cup In("toServer")'
  <2>1. CASE ChangeRoots
    <3>1. pipe' = Put(pipe, "fromClient", Changed)
      BY <2>1 DEF ChangeRoots
    <3>2. TokenInv'
      BY <1>1, <1>2, <3>1, PlainPipes DEF ListsInv
    <3>3. QED
      BY <1>2, <3>1, <3>2, PutPipes
  <2>2. CASE RelayRootsChanged
    <3>1. /\ pipe' = Pass("fromClient", "toServer", Changed) /\ pipe["fromClient"] # <<>>
          /\ Head(pipe["fromClient"]).type = "list_changed"
      BY <2>2 DEF RelayRootsChanged, Carries
    <3>2. TokenInv'
      BY <1>1, <1>2, <3>1, PlainPipes DEF ListsInv
    <3>3. QED
      BY <1>2, <3>1, <3>2, PassPipes
  <2>3. CASE ServerTakesChanged
    <3>1. /\ pipe' = Take("toServer") /\ pipe["toServer"] # <<>>
          /\ Head(pipe["toServer"]).type = "list_changed"
      BY <2>3 DEF ServerTakesChanged, Carries
    <3>2. TokenInv'
      BY <1>1, <1>2, <3>1, PlainPipes DEF ListsInv
    <3>3. QED
      BY <1>2, <3>1, <3>2, TakePipes
  <2>4. QED
    BY <2>1, <2>2, <2>3
<1>5. Pending' = Pending /\ Word' = Word
  BY <1>1, <1>4 DEF Pending, Contents, Word, Changed
<1>6. BeforeServing' /\ WillKnow'
  BY <1>1, <1>3, <1>4, <1>5 DEF ListsInv, BeforeServing, WillKnow
<1>7. QED
  BY <1>1, <1>4, <1>5, <1>6, ToldKeeps

LEMMA ListsNext == IdsInv /\ ListsInv /\ [SessionNext]_vars => ListsInv'
<1> SUFFICES ASSUME IdsInv, ListsInv, [SessionNext]_vars PROVE ListsInv'
  OBVIOUS
<1>1. SessionTypes'
  BY IdsNext DEF IdsInv
<1>2. CASE UNCHANGED vars
  BY <1>1, <1>2, AlikeKeeps, AlikeSelf DEF vars
<1>3. CASE ReverseStep
  BY <1>1, <1>3, ReverseLists
<1>4. CASE ListStep
  BY <1>1, <1>4, ChangeToolsLists, IgnoreLists, ServeLists, ClientListsLists, ListToolsLists,
     ServerListsLists, TakeListedLists, ReturnListedLists, RelayChangedLists,
     ClientTakesListedLists, ClientTakesChangedLists, RootsLists
     DEF ListStep
<1>5. QED
  BY <1>2, <1>3, <1>4
     DEF SessionNext, ProxyStep, ClientStep, ServerStep, ListStep, ReverseStep, GivingUp

LEMMA ListsInvariance == SessionSpec => []ListsInv
  BY ListsInit, ListsNext, IdsInvariance, PTL DEF SessionSpec

\* However a notification overtakes a listing, and from start-up on, a client
\* that does not know the server's tools is about to be told, or to ask.
THEOREM SessionNoChangeIsLost == SessionSpec => []NoChangeIsLost
<1>1. ListsInv => NoChangeIsLost
  <2> SUFFICES ASSUME ListsInv, phase = "serving", client.view # tools
               PROVE  NoChangeIsLost
    BY DEF NoChangeIsLost
  <2>1. \A d, m : m \in In(d) => \E i \in 1..Len(pipe[d]) : pipe[d][i] = m
    BY DEF In, Contents
  <2>2. CASE Word
    <3>1. CASE client.wants
      BY <3>1 DEF NoChangeIsLost
    <3>2. CASE \E d \in {"fromServer", "toClient"} : Changed \in In(d)
      BY <2>1, <3>2 DEF NoChangeIsLost
    <3>3. QED
      BY <2>2, <3>1, <3>2 DEF Word
  <2>3. CASE \E m \in In("fromClient") \cup In("toServer") : m.type = "list"
    <3>1. PICK m \in In("fromClient") \cup In("toServer") : m.type = "list"
      BY <2>3
    <3>2. HoldsType("fromClient", "list") \/ HoldsType("toServer", "list")
      BY <2>1, <3>1 DEF HoldsType
    <3>3. QED
      BY <3>2 DEF NoChangeIsLost
  <2>4. CASE \E m \in Pending : m.type = "listed" /\ m.version = tools
    <3>1. PICK m \in Pending : m.type = "listed" /\ m.version = tools
      BY <2>4
    <3>2. CASE \E d \in {"fromServer", "toClient"} : m \in In(d)
      BY <2>1, <3>1, <3>2 DEF NoChangeIsLost
    <3>3. CASE m \in Contents(results)
      BY <3>1, <3>3 DEF Contents, NoChangeIsLost
    <3>4. QED
      BY <3>1, <3>2, <3>3 DEF Pending
  <2>5. QED
    BY <2>2, <2>3, <2>4 DEF ListsInv, WillKnow
<1>2. QED
  BY <1>1, ListsInvariance, PTL
-----------------------------------------------------------------------------
(* What is withdrawn is withdrawn on both sides.                            *)
(*                                                                          *)
(* WithdrawnTogether is not inductive: it says nothing of requests and      *)
(* cancellations on their way.  WithdrawInv adds, for every prompt that is  *)
(* somewhere between the two sides, where its cancellation or failure then  *)
(* is; that the ids of requests that come later in a pipe are greater than  *)
(* those before them, so no cancellation overtakes what it cancels; and     *)
(* that what is settled is not also open.                                   *)

Requests(d) == {[id |-> m.id, what |-> m.what] : m \in {n \in In(d) : n.type = "request"}}
Ids(d, type) == {m.id : m \in {n \in In(d) : n.type = type}}

\* What the server waits for or the proxy may still turn to, under the
\* server's id, and what the client may work on, under the proxy's.
Up(r) == [id |-> r.up, what |-> r.what]
Open == asked \cup Requests("fromServer") \cup {Up(r) : r \in relays}
Held == working \cup Requests("toClient")
Settled == Ids("toServer", "reply") \cup Ids("toServer", "failed")

InOrder(s) ==
  \A i, j \in 1..Len(s) :
    i < j /\ s[i].type \in {"request", "cancelled"} /\ s[j].type = "request" => s[i].id < s[j].id

PromptsAreNew ==
  /\ \A o \in Open : o.what = 0 \/ o.what > load.prompts
  /\ revoked \subseteq Nat /\ \A what \in revoked : what > load.prompts
  /\ \A what \in dropped : what # 0
  /\ \A o, p \in Open : o.what = p.what /\ o.what # 0 => o.id = p.id

UpIsFresh ==
  /\ InOrder(pipe["fromServer"])
  /\ \A u \in Ids("fromServer", "cancelled") \cup Settled : u < serverId
  /\ \A q \in Requests("fromServer") :
       /\ \A r \in relays : r.up < q.id
       /\ \A u \in Settled : u < q.id
  /\ \A a, b \in asked : a.id = b.id => a = b
  /\ \A r \in relays : r.up \notin Settled
  /\ \A r, s \in relays : r.up = s.up => r = s
  /\ Ids("toServer", "reply") \cap Ids("toServer", "failed") = {}
  /\ phase = "connecting" =>
       asked = {} /\ Requests("fromServer") = {} /\ Ids("fromServer", "cancelled") = {}

DownIsFresh ==
  /\ InOrder(pipe["toClient"])
  /\ \A d \in Ids("toClient", "cancelled") : d < proxyId
  /\ \A q \in Requests("toClient") :
       /\ \A w \in working : w.id < q.id
       /\ \A d \in Ids("fromClient", "reply") : d < q.id
  /\ \A w \in working : w.id \notin Ids("fromClient", "reply")
  /\ \A v, w \in working : v.id = w.id => v = w

ToldFailed(what) == \E a \in asked : a.what = what /\ a.id \in Ids("toServer", "failed")

UpWithdrawn ==
  /\ \A q \in Requests("fromServer") : q.what = 0 \/ q.what \in revoked \/ q \in asked
  /\ \A r \in relays : r.what = 0 \/ r.what \in revoked \/ Up(r) \in asked
  /\ \A q \in Requests("fromServer") :
       q.what \in revoked <=> q.id \in Ids("fromServer", "cancelled")
  /\ \A r \in relays : r.up \in Ids("fromServer", "cancelled") => r.what \in revoked

DownWithdrawn ==
  /\ \A h \in Held : h.what # 0 =>
       \/ h.id \in Ids("toClient", "cancelled")
       \/ \E r \in relays : r.down = h.id
  /\ \A h \in Held : h.what # 0 /\ h.id \in Ids("toClient", "cancelled") =>
       h.what \in revoked \/ ToldFailed(h.what)
  /\ \A h \in Held : h.what \in revoked =>
       \/ h.id \in Ids("toClient", "cancelled")
       \/ \E r \in relays : r.down = h.id /\ r.up \in Ids("fromServer", "cancelled")
  /\ \A h \in Held : h.what # 0 /\ ToldFailed(h.what) => h.id \in Ids("toClient", "cancelled")
  /\ \A what \in dropped : what \in revoked \/ ToldFailed(what)

WithdrawInv == PromptsAreNew /\ UpIsFresh /\ DownIsFresh /\ UpWithdrawn /\ DownWithdrawn
LEMMA WithdrawInit == SessionInit => WithdrawInv
<1> SUFFICES ASSUME SessionInit PROVE WithdrawInv
  OBVIOUS
<1>1. \A d \in Directions : pipe[d] = <<>> /\ In(d) = {}
  BY DEF SessionInit, In, Contents
<1>2. \A d \in Directions : Requests(d) = {} /\ (\A type : Ids(d, type) = {}) /\ InOrder(pipe[d])
  BY <1>1 DEF Requests, Ids, InOrder
<1>3. asked = {} /\ relays = {} /\ working = {} /\ dropped = {} /\ revoked = {}
  BY DEF SessionInit
<1>4. Open = {} /\ Held = {} /\ Settled = {}
  BY <1>2, <1>3, FourDirections DEF Open, Held, Settled
<1>5. QED
  BY <1>2, <1>3, <1>4, FourDirections
     DEF WithdrawInv, PromptsAreNew, UpIsFresh, DownIsFresh, UpWithdrawn, DownWithdrawn

Kinds == {"reply", "failed", "cancelled"}

\* What requests and ids are, and what a change of the messages does to them.
LEMMA SetsTyped ==
  ASSUME PipesTyped, NEW d \in Directions
  PROVE  /\ In(d) \subseteq SomeMessage
         /\ Requests(d) \subseteq [id : Nat, what : Nat]
         /\ \A type \in Kinds : Ids(d, type) \subseteq Nat
<1>1. In(d) \subseteq SomeMessage
  BY DEF PipesTyped, In, Contents
<1>2. QED
  BY <1>1, ReadTypes DEF Requests, Ids, Kinds

LEMMA SetsKeep ==
  ASSUME NEW d, In(d)' = In(d)
  PROVE  Requests(d)' = Requests(d) /\ \A type \in Kinds : Ids(d, type)' = Ids(d, type)
  BY DEF Requests, Ids

LEMMA SetsGrow ==
  ASSUME NEW d, NEW m, In(d)' = In(d) \cup {m}
  PROVE  /\ m.type # "request" => Requests(d)' = Requests(d)
         /\ m.type = "request" =>
              Requests(d)' = Requests(d) \cup {[id |-> m.id, what |-> m.what]}
         /\ \A type \in Kinds :
              /\ m.type # type => Ids(d, type)' = Ids(d, type)
              /\ m.type = type => Ids(d, type)' = Ids(d, type) \cup {m.id}
  BY DEF Requests, Ids

LEMMA SetsShrink ==
  ASSUME NEW d, NEW m, In(d)' \subseteq In(d), In(d) \subseteq In(d)' \cup {m}
  PROVE  /\ m.type # "request" => Requests(d)' = Requests(d)
         /\ Requests(d)' \subseteq Requests(d)
         /\ Requests(d) \subseteq Requests(d)' \cup {[id |-> m.id, what |-> m.what]}
         /\ \A type \in Kinds :
              /\ m.type # type => Ids(d, type)' = Ids(d, type)
              /\ Ids(d, type)' \subseteq Ids(d, type)
              /\ Ids(d, type) \subseteq Ids(d, type)' \cup {m.id}
<1>1. /\ m.type # "request" => Requests(d)' = Requests(d)
      /\ Requests(d)' \subseteq Requests(d)
      /\ Requests(d) \subseteq Requests(d)' \cup {[id |-> m.id, what |-> m.what]}
  BY DEF Requests
<1>2. \A type \in Kinds :
        /\ m.type # type => Ids(d, type)' = Ids(d, type)
        /\ Ids(d, type)' \subseteq Ids(d, type)
        /\ Ids(d, type) \subseteq Ids(d, type)' \cup {m.id}
  BY DEF Ids
<1>3. QED
  BY <1>1, <1>2

LEMMA TailInOrder ==
  ASSUME NEW s \in Seq(SomeMessage), s # <<>>, InOrder(s)
  PROVE  /\ InOrder(Tail(s))
         /\ Head(s).type \in {"request", "cancelled"} =>
              \A n \in Contents(Tail(s)) : n.type = "request" => Head(s).id < n.id
<1>1. /\ Len(Tail(s)) = Len(s) - 1 /\ Len(s) \in Nat /\ Len(s) > 0
      /\ \A i \in 1..(Len(s) - 1) : Tail(s)[i] = s[i + 1]
      /\ Head(s) = s[1]
  OBVIOUS
<1>2. InOrder(Tail(s))
  BY <1>1 DEF InOrder
<1>3. ASSUME Head(s).type \in {"request", "cancelled"}, NEW n \in Contents(Tail(s)),
             n.type = "request"
      PROVE  Head(s).id < n.id
  <2>1. PICK i \in 1..(Len(s) - 1) : n = Tail(s)[i]
    BY <1>1 DEF Contents
  <2>2. n = s[i + 1] /\ i + 1 \in 1..Len(s) /\ 1 \in 1..Len(s) /\ 1 < i + 1
    BY <1>1, <2>1
  <2>3. QED
    BY <1>1, <1>3, <2>2 DEF InOrder
<1>4. QED
  BY <1>2, <1>3

LEMMA AppendInOrder ==
  ASSUME NEW s \in Seq(SomeMessage), NEW m \in SomeMessage, InOrder(s),
         m.type = "request" =>
           \A n \in Contents(s) : n.type \in {"request", "cancelled"} => n.id < m.id
  PROVE  InOrder(Append(s, m))
<1>1. /\ Len(Append(s, m)) = Len(s) + 1 /\ Len(s) \in Nat
      /\ \A i \in 1..Len(s) : Append(s, m)[i] = s[i] /\ s[i] \in Contents(s)
      /\ Append(s, m)[Len(s) + 1] = m
  BY DEF Contents
<1>2. SUFFICES ASSUME NEW i \in 1..(Len(s) + 1), NEW j \in 1..(Len(s) + 1), i < j,
                      Append(s, m)[i].type \in {"request", "cancelled"},
                      Append(s, m)[j].type = "request"
               PROVE  Append(s, m)[i].id < Append(s, m)[j].id
  BY <1>1 DEF InOrder
<1>3. i \in 1..Len(s)
  BY <1>1, <1>2
<1>4. CASE j = Len(s) + 1
  BY <1>1, <1>2, <1>3, <1>4
<1>5. CASE j \in 1..Len(s)
  BY <1>1, <1>2, <1>3, <1>5 DEF InOrder
<1>6. QED
  BY <1>1, <1>4, <1>5

\* The two pipes whose order matters.
Ordered == InOrder(pipe["fromServer"]) /\ InOrder(pipe["toClient"])

\* A message that comes first names another request than those behind it.
First(d, m) ==
  m.type \in {"request", "cancelled"} => \A q \in Requests(d)' : m.id < q.id

LEMMA TakeSets ==
  ASSUME PipesTyped, Ordered, NEW d \in Directions, pipe[d] # <<>>, pipe' = Take(d)
  PROVE  /\ PipesTyped' /\ Ordered' /\ Head(pipe[d]) \in SomeMessage
         /\ \A e \in Directions \ {d} : In(e)' = In(e)
         /\ In(d)' \subseteq In(d) /\ In(d) \subseteq In(d)' \cup {Head(pipe[d])}
         /\ Head(pipe[d]) \in In(d)
         /\ d \in {"fromServer", "toClient"} => First(d, Head(pipe[d]))
<1>1. pipe'[d] = Tail(pipe[d]) /\ \A e \in Directions \ {d} : pipe'[e] = pipe[e]
  BY DEF PipesTyped, Take
<1>2. pipe[d] \in Seq(SomeMessage)
  BY DEF PipesTyped
<1>3. Ordered'
  BY <1>1, <1>2, TailInOrder, FourDirections DEF Ordered
<1>4. ASSUME d \in {"fromServer", "toClient"} PROVE First(d, Head(pipe[d]))
  <2>1. InOrder(pipe[d])
    BY <1>4 DEF Ordered
  <2>2. Head(pipe[d]).type \in {"request", "cancelled"} =>
          \A n \in In(d)' : n.type = "request" => Head(pipe[d]).id < n.id
    BY <1>1, <1>2, <2>1, TailInOrder DEF In
  <2>3. QED
    BY <2>2 DEF First, Requests
<1>5. QED
  BY <1>3, <1>4, TakePipes

LEMMA PutSets ==
  ASSUME PipesTyped, Ordered, NEW d \in Directions, NEW m \in SomeMessage,
         pipe' = Put(pipe, d, m),
         m.type = "request" =>
           \A n \in In(d) : n.type \in {"request", "cancelled"} => n.id < m.id
  PROVE  /\ PipesTyped' /\ Ordered'
         /\ \A e \in Directions \ {d} : In(e)' = In(e)
         /\ In(d)' = In(d) \cup {m}
<1>1. pipe'[d] = Append(pipe[d], m) /\ \A e \in Directions \ {d} : pipe'[e] = pipe[e]
  BY DEF PipesTyped, Put
<1>2. pipe[d] \in Seq(SomeMessage)
  BY DEF PipesTyped
<1>3. Ordered'
  BY <1>1, <1>2, AppendInOrder, FourDirections DEF Ordered, In
<1>4. QED
  BY <1>3, PutPipes

LEMMA PassSets ==
  ASSUME PipesTyped, Ordered, NEW d \in Directions, NEW f \in Directions, d # f,
         pipe[d] # <<>>, NEW m \in SomeMessage, pipe' = Pass(d, f, m),
         m.type = "request" =>
           \A n \in In(f) : n.type \in {"request", "cancelled"} => n.id < m.id
  PROVE  /\ PipesTyped' /\ Ordered' /\ Head(pipe[d]) \in SomeMessage
         /\ \A e \in Directions \ {d, f} : In(e)' = In(e)
         /\ In(d)' \subseteq In(d) /\ In(d) \subseteq In(d)' \cup {Head(pipe[d])}
         /\ Head(pipe[d]) \in In(d)
         /\ In(f)' = In(f) \cup {m}
         /\ d \in {"fromServer", "toClient"} => First(d, Head(pipe[d]))
<1>1. /\ pipe'[d] = Tail(pipe[d]) /\ pipe'[f] = Append(pipe[f], m)
      /\ \A e \in Directions \ {d, f} : pipe'[e] = pipe[e]
  BY DEF PipesTyped, Pass, Put, Take
<1>2. pipe[d] \in Seq(SomeMessage) /\ pipe[f] \in Seq(SomeMessage)
  BY DEF PipesTyped
<1>3. Ordered'
  BY <1>1, <1>2, TailInOrder, AppendInOrder, FourDirections DEF Ordered, In
<1>4. ASSUME d \in {"fromServer", "toClient"} PROVE First(d, Head(pipe[d]))
  <2>1. InOrder(pipe[d])
    BY <1>4 DEF Ordered
  <2>2. Head(pipe[d]).type \in {"request", "cancelled"} =>
          \A n \in In(d)' : n.type = "request" => Head(pipe[d]).id < n.id
    BY <1>1, <1>2, <2>1, TailInOrder DEF In
  <2>3. QED
    BY <2>2 DEF First, Requests
<1>5. QED
  BY <1>3, <1>4, PassPipes

-----------------------------------------------------------------------------
(* The invariant, step by step.                                             *)

SameMessages ==
  /\ Requests("fromServer")' = Requests("fromServer")
  /\ Requests("toClient")' = Requests("toClient")
  /\ Ids("fromServer", "cancelled")' = Ids("fromServer", "cancelled")
  /\ Ids("toClient", "cancelled")' = Ids("toClient", "cancelled")
  /\ Ids("toServer", "reply")' = Ids("toServer", "reply")
  /\ Ids("toServer", "failed")' = Ids("toServer", "failed")
  /\ Ids("fromClient", "reply")' = Ids("fromClient", "reply")

\* A step of the lists moves no message of a request.
LEMMA ListMessages ==
  ASSUME PipesTyped, Ordered, UpIsFresh, SessionTypes, ListStep
  PROVE  SameMessages /\ Ordered'
<1> USE FourDirections
<1>1. \A d \in Directions, m \in {Changed} \cup {List(i) : i \in Nat} \cup ListedMessage :
        m \in SomeMessage /\ m.type \notin {"request", "reply", "failed", "cancelled"}
  <2>1. \A i \in Nat : List(i) \in SomeMessage /\ List(i).type = "list"
    BY MessageTypes, PagesType DEF SessionTypes
  <2>2. Changed \in SomeMessage /\ Changed.type = "list_changed"
    BY MessageTypes, PagesType DEF SessionTypes
  <2>3. ListedMessage \subseteq SomeMessage /\ \A m \in ListedMessage : m.type = "listed"
    BY MessageTypes, PagesType DEF SessionTypes, ListedMessage
  <2>4. QED
    BY <2>1, <2>2, <2>3
<1> DEFINE Plain == {Changed} \cup {List(i) : i \in Nat} \cup ListedMessage
<1>2. \A m \in Plain : m \in SomeMessage /\ m.type \notin {"request", "reply", "failed", "cancelled"}
  BY <1>1
<1>3. Changed \in Plain /\ (\A i \in Nat : List(i) \in Plain /\ Listed(i) \in Plain)
  BY MessageTypes, PagesType DEF SessionTypes
<1> HIDE DEF Plain
<1>4. ASSUME NEW d \in Directions, pipe[d] # <<>>, pipe' = Take(d),
             \/ Head(pipe[d]).type \notin {"request", "reply", "failed", "cancelled"}
             \/ Ignore
      PROVE  SameMessages /\ Ordered'
  <2>1. /\ Ordered' /\ Head(pipe[d]) \in In(d)
        /\ \A e \in Directions \ {d} : In(e)' = In(e)
        /\ In(d)' \subseteq In(d) /\ In(d) \subseteq In(d)' \cup {Head(pipe[d])}
    BY <1>4, TakeSets
  <2>2. \A e \in Directions \ {d} : Requests(e)' = Requests(e) /\ \A t \in Kinds : Ids(e, t)' = Ids(e, t)
    BY <2>1, SetsKeep
  <2>3. CASE Head(pipe[d]).type \notin {"request", "reply", "failed", "cancelled"}
    <3>1. /\ Requests(d)' = Requests(d)
          /\ \A t \in Kinds : Ids(d, t)' = Ids(d, t)
      BY <2>1, <2>3, SetsShrink DEF Kinds
    <3>2. QED
      BY <2>1, <2>2, <3>1 DEF SameMessages, Kinds
  <2>4. CASE Ignore
    <3>1. phase = "connecting" /\ pipe' = Take("fromServer") /\ pipe["fromServer"] # <<>>
      BY <2>4 DEF Ignore
    <3>2. /\ Ordered'
          /\ \A e \in Directions \ {"fromServer"} : In(e)' = In(e)
          /\ In("fromServer")' \subseteq In("fromServer")
      BY <3>1, TakeSets
    <3>3. \A e \in Directions \ {"fromServer"} :
            Requests(e)' = Requests(e) /\ \A t \in Kinds : Ids(e, t)' = Ids(e, t)
      BY <3>2, SetsKeep
    <3>4. Requests("fromServer") = {} /\ Ids("fromServer", "cancelled") = {}
      BY <3>1 DEF UpIsFresh
    <3>5. Requests("fromServer")' = {} /\ Ids("fromServer", "cancelled")' = {}
      BY <3>2, <3>4 DEF Requests, Ids
    <3>6. QED
      BY <3>2, <3>3, <3>4, <3>5 DEF SameMessages, Kinds
  <2>5. QED
    BY <1>4, <2>3, <2>4
<1>5. ASSUME NEW d \in Directions, NEW m \in Plain, pipe' = Put(pipe, d, m)
      PROVE  SameMessages /\ Ordered'
  <2>1. /\ Ordered' /\ In(d)' = In(d) \cup {m}
        /\ \A e \in Directions \ {d} : In(e)' = In(e)
    BY <1>2, <1>5, PutSets
  <2>2. \A e \in Directions \ {d} : Requests(e)' = Requests(e) /\ \A t \in Kinds : Ids(e, t)' = Ids(e, t)
    BY <2>1, SetsKeep
  <2>3. /\ Requests(d)' = Requests(d)
        /\ \A t \in Kinds : Ids(d, t)' = Ids(d, t)
    BY <1>2, <2>1, SetsGrow DEF Kinds
  <2>4. QED
    BY <2>1, <2>2, <2>3 DEF SameMessages, Kinds
<1>6. ASSUME NEW d \in Directions, NEW f \in Directions, d # f, NEW m \in Plain,
             pipe[d] # <<>>, pipe' = Pass(d, f, m),
             Head(pipe[d]).type \notin {"request", "reply", "failed", "cancelled"}
      PROVE  SameMessages /\ Ordered'
  <2>1. /\ Ordered' /\ In(f)' = In(f) \cup {m}
        /\ In(d)' \subseteq In(d) /\ In(d) \subseteq In(d)' \cup {Head(pipe[d])}
        /\ \A e \in Directions \ {d, f} : In(e)' = In(e)
    BY <1>2, <1>6, PassSets
  <2>2. \A e \in Directions \ {d, f} : Requests(e)' = Requests(e) /\ \A t \in Kinds : Ids(e, t)' = Ids(e, t)
    BY <2>1, SetsKeep
  <2>3. /\ Requests(f)' = Requests(f)
        /\ \A t \in Kinds : Ids(f, t)' = Ids(f, t)
    BY <1>2, <2>1, SetsGrow DEF Kinds
  <2>4. /\ Requests(d)' = Requests(d)
        /\ \A t \in Kinds : Ids(d, t)' = Ids(d, t)
    BY <1>6, <2>1, SetsShrink DEF Kinds
  <2>5. QED
    BY <2>1, <2>2, <2>3, <2>4 DEF SameMessages, Kinds
<1>7. CASE ChangeTools \/ ChangeRoots \/ ClientLists
  BY <1>3, <1>5, <1>7 DEF ChangeTools, ChangeRoots, ClientLists, SessionTypes
<1>8. CASE Ignore \/ TakeListed \/ ClientTakesListed \/ ClientTakesChanged \/ ServerTakesChanged
  <2>1. CASE Ignore
    BY <1>4, <2>1 DEF Ignore
  <2>2. CASE TakeListed
    BY <1>4, <2>2 DEF TakeListed, Carries
  <2>3. CASE ClientTakesListed
    BY <1>4, <2>3 DEF ClientTakesListed, Carries
  <2>4. CASE ClientTakesChanged
    BY <1>4, <2>4 DEF ClientTakesChanged, Carries
  <2>5. CASE ServerTakesChanged
    BY <1>4, <2>5 DEF ServerTakesChanged, Carries
  <2>6. QED
    BY <1>8, <2>1, <2>2, <2>3, <2>4, <2>5
<1>9. CASE Serve
  BY <1>9 DEF Serve, SameMessages, Ordered, Requests, Ids, In
<1>10. CASE ListTools
  BY <1>3, <1>6, <1>10 DEF ListTools, Carries
<1>11. CASE ServerLists
  <2>1. pipe["toServer"] # <<>> /\ Head(pipe["toServer"]) \in SomeMessage
    BY <1>11, TailContents DEF ServerLists, Carries, PipesTyped
  <2>2. Head(pipe["toServer"]).cursor \in Nat
    BY <1>11, <2>1, ReadTypes DEF ServerLists, Carries
  <2>3. Listed(Head(pipe["toServer"]).cursor) \in Plain
    BY <1>3, <2>2
  <2>4. QED
    BY <1>6, <1>11, <2>3 DEF ServerLists, Carries
<1>12. CASE ReturnListed
  <2>1. Head(results) \in Plain
    BY <1>12 DEF ReturnListed, SessionTypes, Plain
  <2>2. QED
    BY <1>5, <1>12, <2>1 DEF ReturnListed
<1>13. CASE RelayChanged \/ RelayRootsChanged
  BY <1>3, <1>6, <1>13 DEF RelayChanged, RelayRootsChanged, Carries
<1>14. QED
  BY <1>7, <1>8, <1>9, <1>10, <1>11, <1>12, <1>13 DEF ListStep

\* What stays as it is, withdraws nothing.
LEMMA SameWithdrawn ==
  ASSUME IdsInv, WithdrawInv, SameMessages, Ordered',
         serverId' \in Nat, serverId <= serverId', load'.prompts = load.prompts,
         phase' \in {phase, "serving"},
         UNCHANGED <<proxyId, relays, asked, working, dropped, revoked>>
  PROVE  WithdrawInv'
<1>1. Open' = Open /\ Held' = Held /\ Settled' = Settled
  BY DEF SameMessages, Open, Held, Settled, Up
<1>2. \A what : ToldFailed(what)' <=> ToldFailed(what)
  BY DEF SameMessages, ToldFailed
<1>3. PromptsAreNew'
  BY <1>1 DEF WithdrawInv, PromptsAreNew
<1>4. UpIsFresh'
  <2>1. \A u \in Ids("fromServer", "cancelled") \cup Settled : u \in Nat
    BY SetsTyped, IdsUnfolded, FourDirections DEF Settled, Kinds
  <2>2. \A u \in Ids("fromServer", "cancelled") \cup Settled : u < serverId'
    BY <2>1, IdsUnfolded DEF WithdrawInv, UpIsFresh
  <2>3. QED
    BY <1>1, <2>2 DEF WithdrawInv, UpIsFresh, SameMessages, Ordered
<1>5. DownIsFresh'
  BY <1>1 DEF WithdrawInv, DownIsFresh, SameMessages, Ordered
<1>6. UpWithdrawn'
  BY <1>1 DEF WithdrawInv, UpWithdrawn, SameMessages, Up
<1>7. DownWithdrawn'
  BY <1>1, <1>2 DEF WithdrawInv, DownWithdrawn, SameMessages
<1>8. QED
  BY <1>3, <1>4, <1>5, <1>6, <1>7 DEF WithdrawInv

\* The types of the sets, and what IdsInv says of them.
LEMMA OpenTypes ==
  ASSUME IdsInv, UpIsFresh
  PROVE  /\ Open \subseteq [id : Nat, what : Nat]
         /\ asked \subseteq Open /\ Requests("fromServer") \subseteq Open
         /\ \A r \in relays : /\ Up(r) \in Open /\ Up(r).id = r.up /\ Up(r).what = r.what
                              /\ r.up \in Nat /\ r.down \in Nat /\ r.what \in Nat
         /\ \A o \in Open : \/ o \in asked \/ o \in Requests("fromServer")
                            \/ \E r \in relays : o = Up(r)
         /\ \A o \in Open : o.id < serverId /\ \A a \in asked : a.id = o.id => a.what = o.what
         /\ Ids("fromServer", "cancelled") \subseteq Nat /\ Settled \subseteq Nat
<1> USE FourDirections
<1>1. /\ Requests("fromServer") \subseteq [id : Nat, what : Nat]
      /\ Ids("fromServer", "cancelled") \subseteq Nat /\ Settled \subseteq Nat
  BY IdsUnfolded, SetsTyped DEF Settled, Kinds
<1>2. \A r \in relays : /\ Up(r) \in Open /\ Up(r).id = r.up /\ Up(r).what = r.what
                        /\ r.up \in Nat /\ r.down \in Nat /\ r.what \in Nat
                        /\ Up(r) \in [id : Nat, what : Nat]
  BY IdsUnfolded DEF Open, Up
<1>3. /\ asked \subseteq Open /\ Requests("fromServer") \subseteq Open
      /\ \A o \in Open : \/ o \in asked \/ o \in Requests("fromServer")
                         \/ \E r \in relays : o = Up(r)
  BY DEF Open
<1>4. Open \subseteq [id : Nat, what : Nat]
  BY <1>1, <1>2, <1>3, IdsUnfolded
<1>5. ASSUME NEW o \in Open
      PROVE  o.id < serverId /\ \A a \in asked : a.id = o.id => a.what = o.what
  <2>1. CASE o \in asked
    BY <2>1, IdsUnfolded DEF UpIsFresh, UpstreamIds
  <2>2. CASE o \in Requests("fromServer")
    <3>1. PICK m \in In("fromServer") :
            m.type = "request" /\ o = [id |-> m.id, what |-> m.what]
      BY <2>2 DEF Requests
    <3>2. /\ m.id \in 0..(serverId - 1)
          /\ \A a \in asked : a.id = m.id => a.what = m.what
      BY <3>1, IdsUnfolded DEF UpstreamIds
    <3>3. QED
      BY <3>1, <3>2, IdsUnfolded
  <2>3. CASE \E r \in relays : o = Up(r)
    BY <1>2, <2>3, IdsUnfolded DEF UpstreamIds
  <2>4. QED
    BY <1>3, <2>1, <2>2, <2>3
<1>6. QED
  BY <1>1, <1>2, <1>3, <1>4, <1>5

LEMMA HeldTypes ==
  ASSUME IdsInv
  PROVE  /\ Held \subseteq [id : Nat, what : Nat]
         /\ working \subseteq Held /\ Requests("toClient") \subseteq Held
         /\ \A h \in Held : h \in working \/ h \in Requests("toClient")
         /\ \A h \in Held : h.id < proxyId /\ \A r \in relays : r.down = h.id => r.what = h.what
         /\ \A d \in Ids("fromClient", "reply") : d \in Nat /\ d < proxyId
         /\ Ids("toClient", "cancelled") \subseteq Nat
         /\ \A r \in relays : r.down < proxyId
<1> USE FourDirections
<1>1. /\ Requests("toClient") \subseteq [id : Nat, what : Nat]
      /\ Ids("toClient", "cancelled") \subseteq Nat /\ Ids("fromClient", "reply") \subseteq Nat
  BY IdsUnfolded, SetsTyped DEF Kinds
<1>2. /\ working \subseteq Held /\ Requests("toClient") \subseteq Held
      /\ \A h \in Held : h \in working \/ h \in Requests("toClient")
  BY DEF Held
<1>3. Held \subseteq [id : Nat, what : Nat]
  BY <1>1, <1>2, IdsUnfolded
<1>4. ASSUME NEW h \in Held
      PROVE  h.id < proxyId /\ \A r \in relays : r.down = h.id => r.what = h.what
  <2>1. CASE h \in working
    BY <2>1, IdsUnfolded DEF DownstreamIds
  <2>2. CASE h \in Requests("toClient")
    <3>1. PICK m \in In("toClient") :
            m.type = "request" /\ h = [id |-> m.id, what |-> m.what]
      BY <2>2 DEF Requests
    <3>2. /\ m.id \in 0..(proxyId - 1)
          /\ \A r \in relays : r.down = m.id => r.what = m.what
      BY <3>1, IdsUnfolded DEF DownstreamIds
    <3>3. QED
      BY <3>1, <3>2, IdsUnfolded
  <2>3. QED
    BY <1>2, <2>1, <2>2
<1>5. \A d \in Ids("fromClient", "reply") : d < proxyId
  BY IdsUnfolded DEF DownstreamIds, Ids
<1>6. \A r \in relays : r.down < proxyId
  BY IdsUnfolded DEF DownstreamIds
<1>7. QED
  BY <1>1, <1>2, <1>3, <1>4, <1>5, <1>6

\* The server asks, with the next prompt or for the roots.
LEMMA AskWithdrawn ==
  ASSUME IdsInv, WithdrawInv, load.prompts \in Nat, NEW what \in Nat, ServerAsks(what),
         \/ what = 0 /\ load'.prompts = load.prompts
         \/ what = load.prompts /\ what > 0 /\ load'.prompts = what - 1
  PROVE  WithdrawInv'
<1> USE FourDirections
<1> DEFINE q == [id |-> serverId, what |-> what]
           m == Request(serverId, what)
<1>1. /\ asked' = asked \cup {q} /\ serverId' = serverId + 1 /\ phase = "serving"
      /\ pipe' = Put(pipe, "fromServer", m)
      /\ UNCHANGED <<phase, relays, proxyId, working, dropped, revoked>>
  BY DEF ServerAsks
<1>2. m \in SomeMessage /\ m.type = "request" /\ q = [id |-> m.id, what |-> m.what]
      /\ m.id = serverId
  BY IdsUnfolded DEF Request, SomeMessage
<1>0. q.id = serverId /\ q.what = what
  OBVIOUS
<1> HIDE DEF m, q
<1>3. \A n \in In("fromServer") : n.type \in {"request", "cancelled"} => n.id < serverId
  <2> SUFFICES ASSUME NEW n \in In("fromServer"), n.type \in {"request", "cancelled"}
               PROVE  n.id < serverId
    OBVIOUS
  <2>1. CASE n.type = "request"
    BY <2>1, IdsUnfolded DEF UpstreamIds
  <2>2. CASE n.type = "cancelled"
    <3>1. n.id \in Ids("fromServer", "cancelled")
      BY <2>2 DEF Ids
    <3>2. QED
      BY <3>1 DEF WithdrawInv, UpIsFresh
  <2>3. QED
    BY <2>1, <2>2
<1>4. /\ Ordered' /\ In("fromServer")' = In("fromServer") \cup {m}
      /\ \A e \in Directions \ {"fromServer"} : In(e)' = In(e)
  BY <1>1, <1>2, <1>3, IdsUnfolded, PutSets DEF WithdrawInv, UpIsFresh, DownIsFresh, Ordered
<1>5. /\ Requests("fromServer")' = Requests("fromServer") \cup {q}
      /\ Ids("fromServer", "cancelled")' = Ids("fromServer", "cancelled")
  BY <1>2, <1>4, SetsGrow DEF Kinds
<1>6. /\ Requests("toClient")' = Requests("toClient")
      /\ Ids("toClient", "cancelled")' = Ids("toClient", "cancelled")
      /\ Ids("toServer", "reply")' = Ids("toServer", "reply")
      /\ Ids("toServer", "failed")' = Ids("toServer", "failed")
      /\ Ids("fromClient", "reply")' = Ids("fromClient", "reply")
  BY <1>4, SetsKeep DEF Kinds
<1>7. Open' = Open \cup {q} /\ Held' = Held /\ Settled' = Settled
  BY <1>1, <1>5, <1>6 DEF Open, Held, Settled, Up
<1>8. serverId \notin Ids("fromServer", "cancelled") /\ serverId \notin Settled
  BY IdsUnfolded DEF WithdrawInv, UpIsFresh
<1>9. \A w : ToldFailed(w)' <=> ToldFailed(w)
  BY <1>0, <1>1, <1>6, <1>8 DEF ToldFailed, Settled
<1>10. what \notin revoked /\ \A o \in Open : what # 0 => o.what # what
  BY DEF WithdrawInv, PromptsAreNew
<1>11. PromptsAreNew'
  <2>1. \A o \in Open' : o.what = 0 \/ o.what > load'.prompts
    BY <1>0, <1>7, OpenTypes DEF WithdrawInv, PromptsAreNew
  <2>2. \A w \in revoked' : w > load'.prompts
    BY <1>1 DEF WithdrawInv, PromptsAreNew
  <2>3. \A o, p \in Open' : o.what = p.what /\ o.what # 0 => o.id = p.id
    BY <1>0, <1>7, <1>10 DEF WithdrawInv, PromptsAreNew
  <2>4. QED
    BY <1>1, <2>1, <2>2, <2>3 DEF WithdrawInv, PromptsAreNew
<1>12. UpIsFresh'
  <2>0. \A a, b \in asked' : a.id = b.id => a = b
    BY <1>0, <1>1, OpenTypes DEF WithdrawInv, UpIsFresh
  <2>1. \A u \in (Ids("fromServer", "cancelled") \cup Settled)' : u < serverId'
    BY <1>1, <1>5, <1>7, IdsUnfolded, OpenTypes DEF WithdrawInv, UpIsFresh
  <2>2. \A p \in Requests("fromServer")' :
          (\A r \in relays' : r.up < p.id) /\ \A u \in Settled' : u < p.id
    <3>1. \A r \in relays : r.up < serverId
      BY OpenTypes DEF WithdrawInv
    <3>2. \A u \in Settled : u < serverId
      BY DEF WithdrawInv, UpIsFresh
    <3>3. QED
      BY <1>0, <1>1, <1>5, <1>7, <3>1, <3>2 DEF WithdrawInv, UpIsFresh
  <2>3. QED
    BY <1>1, <1>4, <1>6, <1>7, <2>0, <2>1, <2>2 DEF WithdrawInv, UpIsFresh, Ordered
<1>13. DownIsFresh'
  BY <1>1, <1>4, <1>6 DEF WithdrawInv, DownIsFresh, Ordered
<1>14. UpWithdrawn'
  <2>1. \A p \in Requests("fromServer")' :
          /\ p.what = 0 \/ p.what \in revoked' \/ p \in asked'
          /\ p.what \in revoked' <=> p.id \in Ids("fromServer", "cancelled")'
    BY <1>0, <1>1, <1>5, <1>8, <1>10 DEF WithdrawInv, UpWithdrawn
  <2>2. \A r \in relays' :
          /\ r.what = 0 \/ r.what \in revoked' \/ Up(r)' \in asked'
          /\ r.up \in Ids("fromServer", "cancelled")' => r.what \in revoked'
    BY <1>1, <1>5 DEF WithdrawInv, UpWithdrawn, Up
  <2>3. QED
    BY <2>1, <2>2 DEF UpWithdrawn, Up
<1>15. DownWithdrawn'
  BY <1>1, <1>5, <1>6, <1>7, <1>9 DEF WithdrawInv, DownWithdrawn
<1>16. QED
  BY <1>11, <1>12, <1>13, <1>14, <1>15 DEF WithdrawInv

\* A cancelled prompt may be with the proxy or with the client by now, and
\* then its cancellation is sent after it.
LEMMA ServerCancelsWithdrawn ==
  ASSUME IdsInv, WithdrawInv, NEW a \in asked, ServerCancels(a)
  PROVE  WithdrawInv'
<1> USE FourDirections DEF WithdrawInv
<1>1. /\ asked' = asked \ {a} /\ revoked' = revoked \cup {a.what} /\ a.what # 0
      /\ pipe' = Put(pipe, "fromServer", Cancelled(a.id))
      /\ UNCHANGED <<load, phase, relays, serverId, proxyId, working, dropped>>
  BY DEF ServerCancels
<1>2. a \in Open /\ a.id \in Nat /\ a.what \in Nat
  BY OpenTypes
<1>3. /\ Cancelled(a.id) \in SomeMessage /\ Cancelled(a.id).type = "cancelled"
      /\ Cancelled(a.id).id = a.id
  BY <1>2 DEF Cancelled, SomeMessage
<1>4. /\ Ordered' /\ In("fromServer")' = In("fromServer") \cup {Cancelled(a.id)}
      /\ \A e \in Directions \ {"fromServer"} : In(e)' = In(e)
  BY <1>1, <1>3, IdsUnfolded, PutSets DEF UpIsFresh, DownIsFresh, Ordered
<1>5. /\ Requests("fromServer")' = Requests("fromServer")
      /\ Ids("fromServer", "cancelled")' = Ids("fromServer", "cancelled") \cup {a.id}
  BY <1>3, <1>4, SetsGrow DEF Kinds
<1>6. /\ Requests("toClient")' = Requests("toClient")
      /\ Ids("toClient", "cancelled")' = Ids("toClient", "cancelled")
      /\ Ids("toServer", "reply")' = Ids("toServer", "reply")
      /\ Ids("toServer", "failed")' = Ids("toServer", "failed")
      /\ Ids("fromClient", "reply")' = Ids("fromClient", "reply")
  BY <1>4, SetsKeep DEF Kinds
<1>7. Open' \subseteq Open /\ Held' = Held /\ Settled' = Settled
  BY <1>1, <1>5, <1>6 DEF Open, Held, Settled, Up
<1>8. PromptsAreNew'
  BY <1>1, <1>2, <1>7 DEF PromptsAreNew
<1>9. UpIsFresh'
  <2>1. a.id < serverId
    BY <1>2, OpenTypes
  <2>2. phase # "connecting"
    BY DEF UpIsFresh
  <2>3. QED
    BY <1>1, <1>4, <1>5, <1>6, <1>7, <2>1, <2>2 DEF UpIsFresh, Ordered
<1>10. DownIsFresh'
  BY <1>1, <1>4, <1>6 DEF DownIsFresh, Ordered
<1>11. UpWithdrawn'
  <2>1. \A o \in Open : o.id = a.id <=> o.what = a.what
    BY <1>1, <1>2, OpenTypes DEF PromptsAreNew
  <2>2. \A q \in Requests("fromServer")' :
          /\ q.what = 0 \/ q.what \in revoked' \/ q \in asked'
          /\ q.what \in revoked' <=> q.id \in Ids("fromServer", "cancelled")'
    BY <1>1, <1>5, <2>1, OpenTypes DEF UpWithdrawn
  <2>3. \A r \in relays' :
          /\ r.what = 0 \/ r.what \in revoked' \/ Up(r) \in asked'
          /\ r.up \in Ids("fromServer", "cancelled")' => r.what \in revoked'
    BY <1>1, <1>5, <2>1, OpenTypes DEF UpWithdrawn
  <2>4. QED
    BY <2>2, <2>3 DEF UpWithdrawn, Up
<1>12. DownWithdrawn'
  <2>1. \A w : ToldFailed(w) => ToldFailed(w)' \/ w = a.what
    BY <1>1, <1>6 DEF ToldFailed
  <2>2. \A w : ToldFailed(w)' => ToldFailed(w)
    BY <1>1, <1>6 DEF ToldFailed
  <2>3. ASSUME NEW h \in Held, h.what = a.what
        PROVE  \/ h.id \in Ids("toClient", "cancelled")
               \/ \E r \in relays : r.down = h.id /\ r.up = a.id
    <3>1. \A r \in relays : r.down = h.id => r.up = a.id
      BY <1>1, <1>2, <2>3, OpenTypes, HeldTypes DEF PromptsAreNew
    <3>2. QED
      BY <1>1, <2>3, <3>1 DEF DownWithdrawn
  <2>4. \A h \in Held' : h.what \in revoked' =>
          \/ h.id \in Ids("toClient", "cancelled")'
          \/ \E r \in relays' : r.down = h.id /\ r.up \in Ids("fromServer", "cancelled")'
    BY <1>1, <1>5, <1>6, <1>7, <2>3 DEF DownWithdrawn
  <2>5. QED
    BY <1>1, <1>5, <1>6, <1>7, <2>1, <2>2, <2>4 DEF DownWithdrawn
<1>13. QED
  BY <1>8, <1>9, <1>10, <1>11, <1>12

\* The proxy passes a request on under an id of its own.
LEMMA RelayRequestWithdrawn ==
  ASSUME IdsInv, WithdrawInv, RelayRequest
  PROVE  WithdrawInv'
<1> USE FourDirections DEF WithdrawInv
<1> DEFINE m == Head(pipe["fromServer"])
           r == [up |-> m.id, down |-> proxyId, what |-> m.what]
           n == Request(proxyId, m.what)
           q == [id |-> m.id, what |-> m.what]
           h == [id |-> proxyId, what |-> m.what]
<1>1. /\ pipe["fromServer"] # <<>> /\ m.type = "request"
      /\ relays' = relays \cup {r} /\ proxyId' = proxyId + 1
      /\ pipe' = Pass("fromServer", "toClient", n) /\ phase = "serving"
      /\ UNCHANGED <<load, phase, serverId, asked, working, dropped, revoked>>
  BY DEF RelayRequest, Carries
<1>2. m \in SomeMessage /\ m \in In("fromServer")
  BY <1>1, IdsUnfolded, TailContents DEF PipesTyped, In
<1>3. m.id \in Nat /\ m.what \in Nat
  BY <1>1, <1>2, ReadTypes
<1>4. /\ n \in SomeMessage /\ n.type = "request" /\ h = [id |-> n.id, what |-> n.what]
      /\ n.id = proxyId /\ h.id = proxyId /\ h.what = m.what
      /\ r.up = m.id /\ r.down = proxyId /\ r.what = m.what /\ Up(r) = q
      /\ q.id = m.id /\ q.what = m.what
  BY <1>3, IdsUnfolded DEF Request, SomeMessage, Up
<1> HIDE DEF n, r
<1>5. \A k \in In("toClient") : k.type \in {"request", "cancelled"} => k.id < proxyId
  <2> SUFFICES ASSUME NEW k \in In("toClient"), k.type \in {"request", "cancelled"}
               PROVE  k.id < proxyId
    OBVIOUS
  <2>1. CASE k.type = "request"
    BY <2>1, IdsUnfolded DEF DownstreamIds
  <2>2. CASE k.type = "cancelled"
    <3>1. k.id \in Ids("toClient", "cancelled")
      BY <2>2 DEF Ids
    <3>2. QED
      BY <3>1 DEF DownIsFresh
  <2>3. QED
    BY <2>1, <2>2
<1>6. /\ Ordered' /\ In("toClient")' = In("toClient") \cup {n}
      /\ In("fromServer")' \subseteq In("fromServer")
      /\ In("fromServer") \subseteq In("fromServer")' \cup {m}
      /\ \A e \in Directions \ {"fromServer", "toClient"} : In(e)' = In(e)
      /\ First("fromServer", m)
  BY <1>1, <1>4, <1>5, IdsUnfolded, PassSets DEF UpIsFresh, DownIsFresh, Ordered
<1> HIDE DEF m
<1>7. /\ Requests("toClient")' = Requests("toClient") \cup {h}
      /\ Ids("toClient", "cancelled")' = Ids("toClient", "cancelled")
  BY <1>4, <1>6, SetsGrow DEF Kinds
<1>8. /\ Requests("fromServer")' \subseteq Requests("fromServer")
      /\ Requests("fromServer") \subseteq Requests("fromServer")' \cup {q}
      /\ Ids("fromServer", "cancelled")' = Ids("fromServer", "cancelled")
  BY <1>1, <1>6, SetsShrink DEF Kinds
<1>9. /\ Ids("toServer", "reply")' = Ids("toServer", "reply")
      /\ Ids("toServer", "failed")' = Ids("toServer", "failed")
      /\ Ids("fromClient", "reply")' = Ids("fromClient", "reply")
  BY <1>6, SetsKeep DEF Kinds
<1>10. q \in Requests("fromServer") /\ \A p \in Requests("fromServer")' : m.id < p.id
  BY <1>1, <1>2, <1>6 DEF Requests, First
<1> HIDE DEF q, h
<1>11. Open' = Open /\ Held' = Held \cup {h} /\ Settled' = Settled
  <2>1. {Up(s) : s \in relays'} = {Up(s) : s \in relays} \cup {q}
    BY <1>1, <1>4
  <2>2. QED
    BY <1>1, <1>7, <1>8, <1>9, <1>10, <2>1 DEF Open, Held, Settled, Up
<1>12. \A w : ToldFailed(w)' <=> ToldFailed(w)
  BY <1>1, <1>9 DEF ToldFailed
<1>13. PromptsAreNew'
  BY <1>1, <1>11 DEF PromptsAreNew
<1>14. UpIsFresh'
  <2>1. \A s \in relays : s.up < m.id
    BY <1>4, <1>10 DEF UpIsFresh
  <2>2. r.up \notin Settled
    BY <1>3, <1>4, <1>10 DEF UpIsFresh
  <2>3. \A s, t \in relays' : s.up = t.up => s = t
    BY <1>1, <1>3, <1>4, <2>1, OpenTypes DEF UpIsFresh
  <2>4. \A s \in relays' : s.up \notin Settled'
    BY <1>1, <1>11, <2>2 DEF UpIsFresh
  <2>5. \A p \in Requests("fromServer")' : \A s \in relays' : s.up < p.id
    BY <1>1, <1>4, <1>8, <1>10 DEF UpIsFresh
  <2>6. QED
    BY <1>1, <1>6, <1>8, <1>9, <1>11, <2>3, <2>4, <2>5 DEF UpIsFresh, Ordered
<1>15. DownIsFresh'
  <2>1. \A p \in Requests("toClient")' :
          (\A w \in working : w.id < p.id) /\ \A d \in Ids("fromClient", "reply") : d < p.id
    BY <1>4, <1>7, HeldTypes DEF DownIsFresh
  <2>2. \A d \in Ids("toClient", "cancelled") : d < proxyId + 1
    BY HeldTypes, IdsUnfolded DEF DownIsFresh
  <2>3. QED
    BY <1>1, <1>6, <1>7, <1>9, <2>1, <2>2 DEF DownIsFresh, Ordered
<1>16. UpWithdrawn'
  <2>1. \A p \in Requests("fromServer")' :
          /\ p.what = 0 \/ p.what \in revoked' \/ p \in asked'
          /\ p.what \in revoked' <=> p.id \in Ids("fromServer", "cancelled")'
    BY <1>1, <1>8 DEF UpWithdrawn
  <2>2. \A s \in relays' :
          /\ s.what = 0 \/ s.what \in revoked' \/ Up(s) \in asked'
          /\ s.up \in Ids("fromServer", "cancelled")' => s.what \in revoked'
    BY <1>1, <1>4, <1>8, <1>10 DEF UpWithdrawn
  <2>3. QED
    BY <2>1, <2>2 DEF UpWithdrawn, Up
<1>17. DownWithdrawn'
  <2>1. r \in relays' /\ r.down = h.id
    BY <1>1, <1>4
  <2>2. h.id \notin Ids("toClient", "cancelled")
    BY <1>4, IdsUnfolded DEF DownIsFresh
  <2>3. h.what \in revoked => r.up \in Ids("fromServer", "cancelled")
    BY <1>4, <1>10 DEF UpWithdrawn
  <2>4. ~(h.what # 0 /\ ToldFailed(h.what))
    <3> SUFFICES ASSUME h.what # 0, NEW a \in asked, a.what = h.what,
                        a.id \in Ids("toServer", "failed")
                 PROVE  FALSE
      BY DEF ToldFailed
    <3>1. a \in Open /\ q \in Open
      BY <1>10, OpenTypes
    <3>2. a.id = q.id
      BY <1>4, <3>1 DEF PromptsAreNew
    <3>3. a.id < q.id /\ a.id \in Nat
      BY <1>10, OpenTypes DEF UpIsFresh, Settled
    <3>4. QED
      BY <3>2, <3>3
  <2>5. \A k \in Held' : k.what # 0 =>
          k.id \in Ids("toClient", "cancelled")' \/ \E s \in relays' : s.down = k.id
    BY <1>1, <1>7, <1>11, <2>1 DEF DownWithdrawn
  <2>6. \A k \in Held' : k.what \in revoked' =>
          \/ k.id \in Ids("toClient", "cancelled")'
          \/ \E s \in relays' : s.down = k.id /\ s.up \in Ids("fromServer", "cancelled")'
    BY <1>1, <1>7, <1>8, <1>11, <2>1, <2>3 DEF DownWithdrawn
  <2>7. QED
    BY <1>1, <1>7, <1>11, <1>12, <2>2, <2>4, <2>5, <2>6 DEF DownWithdrawn
<1>18. QED
  BY <1>13, <1>14, <1>15, <1>16, <1>17

\* A cancellation finds the request that it names, or one that is settled.
LEMMA RelayCancelWithdrawn ==
  ASSUME IdsInv, WithdrawInv, RelayCancel
  PROVE  WithdrawInv'
<1> USE FourDirections DEF WithdrawInv
<1> DEFINE m == Head(pipe["fromServer"])
           hit == {r \in relays : r.up = m.id}
<1>1. /\ pipe["fromServer"] # <<>> /\ m.type = "cancelled"
      /\ relays' = relays \ hit
      /\ \/ hit = {} /\ pipe' = Take("fromServer")
         \/ \E r \in hit : pipe' = Pass("fromServer", "toClient", Cancelled(r.down))
      /\ UNCHANGED <<load, phase, serverId, proxyId, asked, working, dropped, revoked>>
  BY DEF RelayCancel, Carries, CancelDown
<1>2. m \in SomeMessage /\ m \in In("fromServer")
  BY <1>1, IdsUnfolded, TailContents DEF PipesTyped, In
<1>3. m.id \in Ids("fromServer", "cancelled")
  BY <1>1, <1>2 DEF Ids
<1>4. PICK gone \in SUBSET Nat :
        /\ Ordered' /\ First("fromServer", m)
        /\ In("fromServer")' \subseteq In("fromServer")
        /\ In("fromServer") \subseteq In("fromServer")' \cup {m}
        /\ In("toServer")' = In("toServer") /\ In("fromClient")' = In("fromClient")
        /\ Requests("toClient")' = Requests("toClient")
        /\ Ids("toClient", "cancelled")' = Ids("toClient", "cancelled") \cup gone
        /\ gone = {r.down : r \in hit}
  <2>1. CASE hit = {} /\ pipe' = Take("fromServer")
    <3>1. /\ Ordered' /\ First("fromServer", m)
          /\ In("fromServer")' \subseteq In("fromServer")
          /\ In("fromServer") \subseteq In("fromServer")' \cup {m}
          /\ \A e \in Directions \ {"fromServer"} : In(e)' = In(e)
      BY <1>1, <2>1, IdsUnfolded, TakeSets DEF UpIsFresh, DownIsFresh, Ordered
    <3>2. /\ Requests("toClient")' = Requests("toClient")
          /\ Ids("toClient", "cancelled")' = Ids("toClient", "cancelled")
      BY <3>1, SetsKeep DEF Kinds
    <3>3. {r.down : r \in hit} = {}
      BY <2>1
    <3> HIDE DEF hit
    <3> WITNESS {} \in SUBSET Nat
    <3>4. QED
      BY <3>1, <3>2, <3>3
  <2>2. CASE \E r \in hit : pipe' = Pass("fromServer", "toClient", Cancelled(r.down))
    <3>1. PICK r \in hit : pipe' = Pass("fromServer", "toClient", Cancelled(r.down))
      BY <2>2
    <3>2. r \in relays /\ r.down \in Nat /\ \A s \in hit : s = r
      BY OpenTypes DEF UpIsFresh
    <3>3. /\ Cancelled(r.down) \in SomeMessage /\ Cancelled(r.down).type = "cancelled"
          /\ Cancelled(r.down).id = r.down
      BY <3>2 DEF Cancelled, SomeMessage
    <3>4. /\ Ordered' /\ First("fromServer", m)
          /\ In("fromServer")' \subseteq In("fromServer")
          /\ In("fromServer") \subseteq In("fromServer")' \cup {m}
          /\ In("toClient")' = In("toClient") \cup {Cancelled(r.down)}
          /\ \A e \in Directions \ {"fromServer", "toClient"} : In(e)' = In(e)
      BY <1>1, <3>1, <3>3, IdsUnfolded, PassSets DEF UpIsFresh, DownIsFresh, Ordered
    <3>5. /\ Requests("toClient")' = Requests("toClient")
          /\ Ids("toClient", "cancelled")' = Ids("toClient", "cancelled") \cup {r.down}
      BY <3>3, <3>4, SetsGrow DEF Kinds
    <3>6. {s.down : s \in hit} = {r.down} /\ {r.down} \in SUBSET Nat
      BY <3>2
    <3> HIDE DEF hit
    <3> USE <3>6
    <3> WITNESS {r.down} \in SUBSET Nat
    <3>7. QED
      BY <3>4, <3>5, <3>6
  <2>3. QED
    BY <1>1, <2>1, <2>2
<1>5. /\ Requests("fromServer")' = Requests("fromServer")
      /\ Ids("fromServer", "cancelled")' \subseteq Ids("fromServer", "cancelled")
      /\ Ids("fromServer", "cancelled") \subseteq Ids("fromServer", "cancelled")' \cup {m.id}
  BY <1>1, <1>4, SetsShrink DEF Kinds
<1>6. /\ Ids("toServer", "reply")' = Ids("toServer", "reply")
      /\ Ids("toServer", "failed")' = Ids("toServer", "failed")
      /\ Ids("fromClient", "reply")' = Ids("fromClient", "reply")
  BY <1>4, SetsKeep DEF Kinds
<1>7. \A q \in Requests("fromServer") : m.id < q.id /\ m.id \in Nat /\ q.id \in Nat
  BY <1>1, <1>3, <1>4, <1>5, OpenTypes DEF First
<1>8. /\ \A r \in hit : r \in relays /\ r.up = m.id /\ r.down \in gone
      /\ \A d \in gone : \E r \in hit : d = r.down
      /\ \A r \in relays : r.up = m.id => r \in hit
  BY <1>4
<1> HIDE DEF m, hit
<1>9. Open' \subseteq Open /\ Held' = Held /\ Settled' = Settled
  BY <1>1, <1>4, <1>5, <1>6 DEF Open, Held, Settled, Up
<1>10. \A w : ToldFailed(w)' <=> ToldFailed(w)
  BY <1>1, <1>6 DEF ToldFailed
<1>11. PromptsAreNew'
  BY <1>1, <1>9 DEF PromptsAreNew
<1>12. UpIsFresh'
  BY <1>1, <1>4, <1>5, <1>6, <1>9 DEF UpIsFresh, Ordered
<1>13. DownIsFresh'
  <2>1. \A d \in Ids("toClient", "cancelled")' : d < proxyId
    BY <1>4, <1>8, HeldTypes DEF DownIsFresh
  <2>2. QED
    BY <1>1, <1>4, <1>6, <2>1 DEF DownIsFresh, Ordered
<1>14. UpWithdrawn'
  <2>1. \A q \in Requests("fromServer") : q.id # m.id
    BY <1>7
  <2>2. QED
    BY <1>1, <1>5, <2>1 DEF UpWithdrawn, Up
<1>15. DownWithdrawn'
  <2>1. \A d \in gone : \E r \in relays : r.down = d /\ r.what \in revoked
    BY <1>3, <1>8 DEF UpWithdrawn
  <2>2. \A h \in Held : h.what # 0 /\ h.id \in Ids("toClient", "cancelled")' =>
          h.what \in revoked \/ ToldFailed(h.what)
    BY <1>4, <2>1, HeldTypes DEF DownWithdrawn
  <2>3. \A h \in Held : h.what # 0 =>
          h.id \in Ids("toClient", "cancelled")' \/ \E r \in relays' : r.down = h.id
    BY <1>1, <1>4, <1>8 DEF DownWithdrawn
  <2>4. \A h \in Held : h.what \in revoked =>
          \/ h.id \in Ids("toClient", "cancelled")'
          \/ \E r \in relays' : r.down = h.id /\ r.up \in Ids("fromServer", "cancelled")'
    <3> SUFFICES ASSUME NEW h \in Held, h.what \in revoked,
                        h.id \notin Ids("toClient", "cancelled")'
                 PROVE  \E r \in relays' : r.down = h.id
                                           /\ r.up \in Ids("fromServer", "cancelled")'
      OBVIOUS
    <3>1. PICK r \in relays : r.down = h.id /\ r.up \in Ids("fromServer", "cancelled")
      BY <1>4 DEF DownWithdrawn
    <3>2. r \notin hit /\ r.up # m.id
      BY <1>4, <1>8, <3>1
    <3>3. QED
      BY <1>1, <1>5, <3>1, <3>2
  <2>5. QED
    BY <1>1, <1>4, <1>9, <1>10, <2>2, <2>3, <2>4 DEF DownWithdrawn
<1>16. QED
  BY <1>11, <1>12, <1>13, <1>14, <1>15

\* A reply settles the request that it answers; what is cancelled meanwhile
\* is no longer held.
LEMMA RelayReplyWithdrawn ==
  ASSUME IdsInv, WithdrawInv, RelayReply
  PROVE  WithdrawInv'
<1> USE FourDirections DEF WithdrawInv
<1> DEFINE m == Head(pipe["fromClient"])
           hit == {r \in relays : r.down = m.id}
<1>1. /\ pipe["fromClient"] # <<>> /\ m.type = "reply"
      /\ relays' = relays \ hit
      /\ \/ hit = {} /\ pipe' = Take("fromClient")
         \/ \E r \in hit : pipe' = Pass("fromClient", "toServer", Reply(r.up, m.value))
      /\ UNCHANGED <<load, phase, serverId, proxyId, asked, working, dropped, revoked>>
  BY DEF RelayReply, Carries, ReplyUp
<1>2. m \in SomeMessage /\ m \in In("fromClient") /\ m.value \in Nat
  BY <1>1, IdsUnfolded, TailContents, ReadTypes DEF PipesTyped, In
<1>3. m.id \in Ids("fromClient", "reply")
  BY <1>1, <1>2 DEF Ids
<1>4. PICK up \in SUBSET Nat :
        /\ Ordered'
        /\ In("fromClient")' \subseteq In("fromClient")
        /\ In("fromClient") \subseteq In("fromClient")' \cup {m}
        /\ In("fromServer")' = In("fromServer") /\ In("toClient")' = In("toClient")
        /\ Ids("toServer", "failed")' = Ids("toServer", "failed")
        /\ Ids("toServer", "reply")' = Ids("toServer", "reply") \cup up
        /\ \A u \in up : \E r \in hit : u = r.up
  <2>1. CASE hit = {} /\ pipe' = Take("fromClient")
    <3>1. /\ Ordered'
          /\ In("fromClient")' \subseteq In("fromClient")
          /\ In("fromClient") \subseteq In("fromClient")' \cup {m}
          /\ \A e \in Directions \ {"fromClient"} : In(e)' = In(e)
      BY <1>1, <2>1, IdsUnfolded, TakeSets DEF UpIsFresh, DownIsFresh, Ordered
    <3>2. /\ Ids("toServer", "failed")' = Ids("toServer", "failed")
          /\ Ids("toServer", "reply")' = Ids("toServer", "reply") \cup {}
      BY <3>1, SetsKeep DEF Kinds
    <3> HIDE DEF hit
    <3> WITNESS {} \in SUBSET Nat
    <3>3. QED
      BY <3>1, <3>2
  <2>2. CASE \E r \in hit : pipe' = Pass("fromClient", "toServer", Reply(r.up, m.value))
    <3>1. PICK r \in hit : pipe' = Pass("fromClient", "toServer", Reply(r.up, m.value))
      BY <2>2
    <3>2. r.up \in Nat
      BY OpenTypes
    <3>3. /\ Reply(r.up, m.value) \in SomeMessage /\ Reply(r.up, m.value).type = "reply"
          /\ Reply(r.up, m.value).id = r.up
      BY <1>2, <3>2 DEF Reply, SomeMessage
    <3>4. /\ Ordered'
          /\ In("fromClient")' \subseteq In("fromClient")
          /\ In("fromClient") \subseteq In("fromClient")' \cup {m}
          /\ In("toServer")' = In("toServer") \cup {Reply(r.up, m.value)}
          /\ \A e \in Directions \ {"fromClient", "toServer"} : In(e)' = In(e)
      BY <1>1, <3>1, <3>3, IdsUnfolded, PassSets DEF UpIsFresh, DownIsFresh, Ordered
    <3>5. /\ Ids("toServer", "failed")' = Ids("toServer", "failed")
          /\ Ids("toServer", "reply")' = Ids("toServer", "reply") \cup {r.up}
      BY <3>3, <3>4, SetsGrow DEF Kinds
    <3>6. r \in hit /\ {r.up} \in SUBSET Nat
      BY <3>1, <3>2
    <3> HIDE DEF hit
    <3> USE <3>6
    <3> WITNESS {r.up} \in SUBSET Nat
    <3>7. QED
      BY <3>4, <3>5, <3>6
  <2>3. QED
    BY <1>1, <2>1, <2>2
<1>5. /\ Ids("fromClient", "reply")' \subseteq Ids("fromClient", "reply")
  BY <1>4, SetsShrink DEF Kinds
<1>6. /\ Requests("fromServer")' = Requests("fromServer")
      /\ Ids("fromServer", "cancelled")' = Ids("fromServer", "cancelled")
      /\ Requests("toClient")' = Requests("toClient")
      /\ Ids("toClient", "cancelled")' = Ids("toClient", "cancelled")
  BY <1>4, SetsKeep DEF Kinds
<1>7. /\ \A r \in hit : r \in relays /\ r.down = m.id
      /\ \A r \in relays : r.down = m.id => r \in hit
  OBVIOUS
<1> HIDE DEF m, hit
<1>8. Open' \subseteq Open /\ Held' = Held /\ Settled' = Settled \cup up
  BY <1>1, <1>4, <1>6 DEF Open, Held, Settled, Up
<1>9. \A w : ToldFailed(w)' <=> ToldFailed(w)
  BY <1>1, <1>4 DEF ToldFailed
<1>10. PromptsAreNew'
  BY <1>1, <1>8 DEF PromptsAreNew
<1>11. \A u \in up : \E r \in relays : r \in hit /\ r.up = u
  BY <1>4, <1>7
<1>12. UpIsFresh'
  <2>1. \A u \in up : u < serverId /\ u \notin Settled
    BY <1>11, OpenTypes DEF UpIsFresh
  <2>2. \A q \in Requests("fromServer") : \A u \in up : u < q.id
    BY <1>11 DEF UpIsFresh
  <2>3. \A r \in relays' : r.up \notin Settled'
    BY <1>1, <1>8, <1>11 DEF UpIsFresh
  <2>4. (Ids("toServer", "reply") \cap Ids("toServer", "failed"))' = {}
    <3>1. \A u \in Ids("toServer", "reply") : u \notin Ids("toServer", "failed")
      BY DEF UpIsFresh
    <3>2. \A u \in up : u \notin Ids("toServer", "failed")
      BY <2>1 DEF Settled
    <3>3. \A u \in Ids("toServer", "reply")' : u \notin Ids("toServer", "failed")'
      BY <1>4, <3>1, <3>2
    <3>4. QED
      BY <3>3
  <2>5. QED
    BY <1>1, <1>4, <1>6, <1>8, <2>1, <2>2, <2>3, <2>4 DEF UpIsFresh, Ordered
<1>13. DownIsFresh'
  BY <1>1, <1>4, <1>5, <1>6 DEF DownIsFresh, Ordered
<1>14. UpWithdrawn'
  BY <1>1, <1>6 DEF UpWithdrawn, Up
<1>15. DownWithdrawn'
  <2>1. \A h \in Held : h.id # m.id
    <3> SUFFICES ASSUME NEW h \in Held PROVE h.id # m.id
      OBVIOUS
    <3>1. CASE h \in working
      BY <1>3, <3>1 DEF DownIsFresh
    <3>2. CASE h \in Requests("toClient")
      <4>1. m.id < h.id /\ m.id \in Nat /\ h.id \in Nat
        BY <1>3, <3>2, HeldTypes DEF DownIsFresh
      <4>2. QED
        BY <4>1
    <3>3. QED
      BY <3>1, <3>2, HeldTypes
  <2>2. \A h \in Held, r \in relays : r.down = h.id => r \in relays'
    BY <1>1, <1>7, <2>1
  <2>3. QED
    BY <1>1, <1>6, <1>8, <1>9, <2>2 DEF DownWithdrawn
<1>16. QED
  BY <1>10, <1>12, <1>13, <1>14, <1>15

\* After its sixty seconds a request is failed on one side and cancelled on the
\* other in one step.
LEMMA RelayTimeoutWithdrawn ==
  ASSUME IdsInv, WithdrawInv, NEW r \in relays, RelayTimeout(r)
  PROVE  WithdrawInv'
<1> USE FourDirections DEF WithdrawInv
<1>1. /\ relays' = relays \ {r} /\ Spend("timeouts")
      /\ pipe' = Put(Put(pipe, "toClient", Cancelled(r.down)), "toServer", Failed(r.up))
      /\ UNCHANGED <<phase, serverId, proxyId, asked, working, dropped, revoked>>
  BY DEF RelayTimeout
<1>2. load'.prompts = load.prompts
  BY <1>1, IdsUnfolded DEF Spend, SessionTypes
<1>3. /\ r.up \in Nat /\ r.down \in Nat /\ r.what \in Nat
      /\ Up(r) \in Open /\ Up(r).id = r.up /\ Up(r).what = r.what /\ r.up < serverId
  BY OpenTypes
<1>4. /\ Cancelled(r.down) \in SomeMessage /\ Cancelled(r.down).type = "cancelled"
      /\ Cancelled(r.down).id = r.down
      /\ Failed(r.up) \in SomeMessage /\ Failed(r.up).type = "failed" /\ Failed(r.up).id = r.up
  BY <1>3 DEF Cancelled, Failed, SomeMessage
<1>5. /\ Ordered'
      /\ In("toClient")' = In("toClient") \cup {Cancelled(r.down)}
      /\ In("toServer")' = In("toServer") \cup {Failed(r.up)}
      /\ In("fromServer")' = In("fromServer") /\ In("fromClient")' = In("fromClient")
  <2>1. /\ pipe'["toClient"] = Append(pipe["toClient"], Cancelled(r.down))
        /\ pipe'["toServer"] = Append(pipe["toServer"], Failed(r.up))
        /\ pipe'["fromServer"] = pipe["fromServer"]
        /\ pipe'["fromClient"] = pipe["fromClient"]
    BY <1>1, IdsUnfolded DEF PipesTyped, Put
  <2>2. pipe["toClient"] \in Seq(SomeMessage) /\ pipe["toServer"] \in Seq(SomeMessage)
    BY IdsUnfolded DEF PipesTyped
  <2>3. Ordered'
    BY <1>4, <2>1, <2>2, AppendInOrder DEF UpIsFresh, DownIsFresh, Ordered
  <2>4. QED
    BY <1>4, <2>1, <2>2, <2>3, AppendContents DEF In
<1>6. /\ Requests("toClient")' = Requests("toClient")
      /\ Ids("toClient", "cancelled")' = Ids("toClient", "cancelled") \cup {r.down}
      /\ Ids("toServer", "reply")' = Ids("toServer", "reply")
      /\ Ids("toServer", "failed")' = Ids("toServer", "failed") \cup {r.up}
  BY <1>4, <1>5, SetsGrow DEF Kinds
<1>7. /\ Requests("fromServer")' = Requests("fromServer")
      /\ Ids("fromServer", "cancelled")' = Ids("fromServer", "cancelled")
      /\ Ids("fromClient", "reply")' = Ids("fromClient", "reply")
  BY <1>5, SetsKeep DEF Kinds
<1>8. Open' \subseteq Open /\ Held' = Held /\ Settled' = Settled \cup {r.up}
  BY <1>1, <1>6, <1>7 DEF Open, Held, Settled, Up
<1>9. PromptsAreNew'
  BY <1>1, <1>2, <1>8 DEF PromptsAreNew
<1>10. UpIsFresh'
  <2>1. r.up \notin Settled
    BY DEF UpIsFresh
  <2>2. (Ids("toServer", "reply") \cap Ids("toServer", "failed"))' = {}
    <3>1. r.up \notin Ids("toServer", "reply")
      BY <2>1 DEF Settled
    <3>2. \A u \in Ids("toServer", "reply")' : u \notin Ids("toServer", "failed")'
      BY <1>6, <3>1 DEF UpIsFresh
    <3>3. QED
      BY <3>2
  <2>3. \A s \in relays' : s.up \notin Settled'
    BY <1>1, <1>8 DEF UpIsFresh
  <2>4. QED
    BY <1>1, <1>3, <1>5, <1>7, <1>8, <2>2, <2>3 DEF UpIsFresh, Ordered
<1>11. DownIsFresh'
  BY <1>1, <1>5, <1>6, <1>7, HeldTypes DEF DownIsFresh, Ordered
<1>12. UpWithdrawn'
  BY <1>1, <1>7 DEF UpWithdrawn, Up
<1>13. DownWithdrawn'
  <2>1. \A w : ToldFailed(w) => ToldFailed(w)'
    BY <1>1, <1>6 DEF ToldFailed
  <2>2. \A h \in Held : h.what # 0 =>
          h.id \in Ids("toClient", "cancelled")' \/ \E s \in relays' : s.down = h.id
    BY <1>1, <1>6 DEF DownWithdrawn
  <2>3. \A h \in Held : h.what \in revoked =>
          \/ h.id \in Ids("toClient", "cancelled")'
          \/ \E s \in relays' : s.down = h.id /\ s.up \in Ids("fromServer", "cancelled")'
    BY <1>1, <1>6, <1>7 DEF DownWithdrawn
  <2>4. r.what # 0 => r.what \in revoked \/ ToldFailed(r.what)'
    BY <1>1, <1>3, <1>6 DEF UpWithdrawn, ToldFailed
  <2>5. \A h \in Held : h.what # 0 /\ h.id \in Ids("toClient", "cancelled")' =>
          h.what \in revoked \/ ToldFailed(h.what)'
    BY <1>6, <2>1, <2>4, HeldTypes DEF DownWithdrawn
  <2>6. \A h \in Held : h.what # 0 /\ ToldFailed(h.what)' => h.id \in Ids("toClient", "cancelled")'
    <3> SUFFICES ASSUME NEW h \in Held, h.what # 0, NEW a \in asked, a.what = h.what,
                        a.id \in Ids("toServer", "failed")',
                        h.id \notin Ids("toClient", "cancelled")
                 PROVE  h.id = r.down
      BY <1>1, <1>6 DEF ToldFailed
    <3>1. CASE a.id \in Ids("toServer", "failed")
      BY <3>1 DEF ToldFailed, DownWithdrawn
    <3>2. CASE a.id = r.up
      <4>1. r.what = h.what
        BY <1>3, <3>2, OpenTypes
      <4>2. PICK s \in relays : s.down = h.id
        BY DEF DownWithdrawn
      <4>3. s.what = h.what
        BY <4>2, HeldTypes
      <4>4. s.up = r.up
        BY <1>3, <4>1, <4>3, OpenTypes DEF PromptsAreNew
      <4>5. QED
        BY <4>2, <4>4 DEF UpIsFresh
    <3>3. QED
      BY <1>6, <3>1, <3>2
  <2>7. QED
    BY <1>1, <1>8, <2>1, <2>2, <2>3, <2>5, <2>6 DEF DownWithdrawn
<1>14. QED
  BY <1>9, <1>10, <1>11, <1>12, <1>13

LEMMA ClientTakesRequestWithdrawn ==
  ASSUME IdsInv, WithdrawInv, ClientTakesRequest
  PROVE  WithdrawInv'
<1> USE FourDirections DEF WithdrawInv
<1> DEFINE m == Head(pipe["toClient"])
           h == [id |-> m.id, what |-> m.what]
<1>1. /\ pipe["toClient"] # <<>> /\ m.type = "request"
      /\ working' = working \cup {h}
      /\ pipe' = Take("toClient")
      /\ UNCHANGED <<load, phase, relays, serverId, proxyId, asked, dropped, revoked>>
  BY DEF ClientTakesRequest, Carries
<1>2. /\ Ordered' /\ First("toClient", m) /\ m \in In("toClient")
      /\ In("toClient")' \subseteq In("toClient")
      /\ In("toClient") \subseteq In("toClient")' \cup {m}
      /\ \A e \in Directions \ {"toClient"} : In(e)' = In(e)
  BY <1>1, IdsUnfolded, TakeSets DEF UpIsFresh, DownIsFresh, Ordered
<1>3. h.id = m.id
  OBVIOUS
<1> HIDE DEF m
<1>4. h \in Requests("toClient") /\ \A q \in Requests("toClient")' : h.id < q.id
  BY <1>1, <1>2 DEF Requests, First
<1>5. /\ Requests("toClient")' \subseteq Requests("toClient")
      /\ Requests("toClient") \subseteq Requests("toClient")' \cup {h}
      /\ Ids("toClient", "cancelled")' = Ids("toClient", "cancelled")
  BY <1>1, <1>2, SetsShrink DEF Kinds
<1> HIDE DEF h
<1>6. /\ Requests("fromServer")' = Requests("fromServer")
      /\ Ids("fromServer", "cancelled")' = Ids("fromServer", "cancelled")
      /\ Ids("toServer", "reply")' = Ids("toServer", "reply")
      /\ Ids("toServer", "failed")' = Ids("toServer", "failed")
      /\ Ids("fromClient", "reply")' = Ids("fromClient", "reply")
  BY <1>2, SetsKeep DEF Kinds
<1>7. Open' = Open /\ Held' = Held /\ Settled' = Settled
  BY <1>1, <1>4, <1>5, <1>6 DEF Open, Held, Settled, Up
<1>8. \A w : ToldFailed(w)' <=> ToldFailed(w)
  BY <1>1, <1>6 DEF ToldFailed
<1>9. PromptsAreNew' /\ UpIsFresh' /\ UpWithdrawn'
  BY <1>1, <1>2, <1>6, <1>7 DEF PromptsAreNew, UpIsFresh, UpWithdrawn, Up, Ordered
<1>10. DownIsFresh'
  <2>1. \A w \in working : w.id < h.id /\ w.id \in Nat /\ h.id \in Nat
    BY <1>4, HeldTypes DEF DownIsFresh
  <2>2. h.id \notin Ids("fromClient", "reply")
    <3>1. h.id \in Nat /\ \A d \in Ids("fromClient", "reply") : d \in Nat /\ d < h.id
      BY <1>4, HeldTypes DEF DownIsFresh
    <3>2. QED
      BY <3>1
  <2>3. \A v, w \in working' : v.id = w.id => v = w
    BY <1>1, <2>1 DEF DownIsFresh
  <2>4. QED
    BY <1>1, <1>2, <1>4, <1>5, <1>6, <2>2, <2>3 DEF DownIsFresh, Ordered
<1>11. DownWithdrawn'
  BY <1>1, <1>5, <1>6, <1>7, <1>8 DEF DownWithdrawn
<1>12. QED
  BY <1>9, <1>10, <1>11

LEMMA ClientTakesCancelWithdrawn ==
  ASSUME IdsInv, WithdrawInv, ClientTakesCancel
  PROVE  WithdrawInv'
<1> USE FourDirections DEF WithdrawInv
<1> DEFINE m == Head(pipe["toClient"])
           hit == {w \in working : w.id = m.id}
<1>1. /\ pipe["toClient"] # <<>> /\ m.type = "cancelled"
      /\ working' = working \ hit
      /\ dropped' = dropped \cup {w.what : w \in {v \in hit : v.what # 0}}
      /\ pipe' = Take("toClient")
      /\ UNCHANGED <<load, phase, relays, serverId, proxyId, asked, revoked>>
  BY DEF ClientTakesCancel, Carries
<1>2. /\ Ordered' /\ First("toClient", m) /\ m \in In("toClient")
      /\ In("toClient")' \subseteq In("toClient")
      /\ In("toClient") \subseteq In("toClient")' \cup {m}
      /\ \A e \in Directions \ {"toClient"} : In(e)' = In(e)
  BY <1>1, IdsUnfolded, TakeSets DEF UpIsFresh, DownIsFresh, Ordered
<1>3. /\ \A w \in hit : w \in working /\ w.id = m.id
      /\ \A w \in working' : w \in working /\ w.id # m.id
      /\ \A what \in dropped' : what \in dropped \/ \E w \in hit : w.what = what /\ what # 0
  BY <1>1
<1> HIDE DEF m, hit
<1>4. /\ m.id \in Ids("toClient", "cancelled")
      /\ \A q \in Requests("toClient")' : m.id < q.id
  BY <1>1, <1>2 DEF Ids, First
<1>5. /\ Requests("toClient")' = Requests("toClient")
      /\ Ids("toClient", "cancelled")' \subseteq Ids("toClient", "cancelled")
      /\ Ids("toClient", "cancelled") \subseteq Ids("toClient", "cancelled")' \cup {m.id}
  BY <1>1, <1>2, SetsShrink DEF Kinds
<1>6. /\ Requests("fromServer")' = Requests("fromServer")
      /\ Ids("fromServer", "cancelled")' = Ids("fromServer", "cancelled")
      /\ Ids("toServer", "reply")' = Ids("toServer", "reply")
      /\ Ids("toServer", "failed")' = Ids("toServer", "failed")
      /\ Ids("fromClient", "reply")' = Ids("fromClient", "reply")
  BY <1>2, SetsKeep DEF Kinds
<1>7. Open' = Open /\ Held' \subseteq Held /\ Settled' = Settled
  BY <1>1, <1>3, <1>5, <1>6 DEF Open, Held, Settled, Up
<1>8. \A h \in Held' : h.id # m.id
  <2> SUFFICES ASSUME NEW h \in Held' PROVE h.id # m.id
    OBVIOUS
  <2>1. CASE h \in working'
    BY <1>3, <2>1
  <2>2. CASE h \in Requests("toClient")'
    <3>1. m.id < h.id /\ m.id \in Nat /\ h.id \in Nat
      BY <1>4, <1>5, <2>2, HeldTypes
    <3>2. QED
      BY <3>1
  <2>3. QED
    BY <2>1, <2>2 DEF Held
<1>9. \A w : ToldFailed(w)' <=> ToldFailed(w)
  BY <1>1, <1>6 DEF ToldFailed
<1>10. PromptsAreNew'
  BY <1>1, <1>3, <1>7 DEF PromptsAreNew
<1>11. UpIsFresh' /\ UpWithdrawn'
  BY <1>1, <1>2, <1>6, <1>7 DEF UpIsFresh, UpWithdrawn, Up, Ordered
<1>12. DownIsFresh'
  BY <1>1, <1>2, <1>3, <1>5, <1>6 DEF DownIsFresh, Ordered
<1>13. DownWithdrawn'
  <2>1. \A h \in Held' :
          h.id \in Ids("toClient", "cancelled")' <=> h.id \in Ids("toClient", "cancelled")
    BY <1>5, <1>8
  <2>2. \A w \in hit : w.what # 0 => w.what \in revoked \/ ToldFailed(w.what)
    BY <1>3, <1>4, HeldTypes DEF DownWithdrawn
  <2>3. \A what \in dropped' : what \in revoked \/ ToldFailed(what)
    BY <1>3, <2>2 DEF DownWithdrawn
  <2>4. QED
    BY <1>1, <1>6, <1>7, <1>9, <2>1, <2>3 DEF DownWithdrawn
<1>14. QED
  BY <1>10, <1>11, <1>12, <1>13

LEMMA ClientRepliesWithdrawn ==
  ASSUME IdsInv, WithdrawInv, NEW w \in working, ClientReplies(w)
  PROVE  WithdrawInv'
<1> USE FourDirections DEF WithdrawInv
<1> DEFINE m == Reply(w.id, IF w.what = 0 THEN roots ELSE w.what)
<1>1. /\ working' = working \ {w}
      /\ pipe' = Put(pipe, "fromClient", m)
      /\ UNCHANGED <<load, phase, relays, serverId, proxyId, asked, dropped, revoked>>
  BY DEF ClientReplies
<1>2. w.id \in Nat /\ w.id < proxyId /\ w.what \in Nat /\ roots \in Nat
  BY HeldTypes, IdsUnfolded DEF SessionTypes
<1>3. m \in SomeMessage /\ m.type = "reply" /\ m.id = w.id
  BY <1>2 DEF Reply, SomeMessage
<1> HIDE DEF m
<1>4. /\ Ordered' /\ In("fromClient")' = In("fromClient") \cup {m}
      /\ \A e \in Directions \ {"fromClient"} : In(e)' = In(e)
  BY <1>1, <1>3, IdsUnfolded, PutSets DEF UpIsFresh, DownIsFresh, Ordered
<1>5. Ids("fromClient", "reply")' = Ids("fromClient", "reply") \cup {w.id}
  BY <1>3, <1>4, SetsGrow DEF Kinds
<1>6. /\ Requests("fromServer")' = Requests("fromServer")
      /\ Ids("fromServer", "cancelled")' = Ids("fromServer", "cancelled")
      /\ Ids("toServer", "reply")' = Ids("toServer", "reply")
      /\ Ids("toServer", "failed")' = Ids("toServer", "failed")
      /\ Requests("toClient")' = Requests("toClient")
      /\ Ids("toClient", "cancelled")' = Ids("toClient", "cancelled")
  BY <1>4, SetsKeep DEF Kinds
<1>7. Open' = Open /\ Held' \subseteq Held /\ Settled' = Settled
  BY <1>1, <1>6 DEF Open, Held, Settled, Up
<1>8. \A x : ToldFailed(x)' <=> ToldFailed(x)
  BY <1>1, <1>6 DEF ToldFailed
<1>9. PromptsAreNew' /\ UpIsFresh' /\ UpWithdrawn'
  BY <1>1, <1>4, <1>6, <1>7 DEF PromptsAreNew, UpIsFresh, UpWithdrawn, Up, Ordered
<1>10. DownIsFresh'
  BY <1>1, <1>4, <1>5, <1>6 DEF DownIsFresh, Ordered
<1>11. DownWithdrawn'
  BY <1>1, <1>6, <1>7, <1>8 DEF DownWithdrawn
<1>12. QED
  BY <1>9, <1>10, <1>11

\* What is answered has not failed.
LEMMA ServerTakesReplyWithdrawn ==
  ASSUME IdsInv, WithdrawInv, ServerTakesReply
  PROVE  WithdrawInv'
<1> USE FourDirections DEF WithdrawInv
<1> DEFINE m == Head(pipe["toServer"])
           hit == {a \in asked : a.id = m.id}
<1>1. /\ pipe["toServer"] # <<>> /\ m.type = "reply"
      /\ asked' = asked \ hit
      /\ pipe' = Take("toServer")
      /\ UNCHANGED <<load, phase, relays, serverId, proxyId, working, dropped, revoked>>
  BY DEF ServerTakesReply, Carries
<1>2. /\ Ordered' /\ m \in In("toServer")
      /\ In("toServer")' \subseteq In("toServer")
      /\ In("toServer") \subseteq In("toServer")' \cup {m}
      /\ \A e \in Directions \ {"toServer"} : In(e)' = In(e)
  BY <1>1, IdsUnfolded, TakeSets DEF UpIsFresh, DownIsFresh, Ordered
<1>3. asked' \subseteq asked /\ \A a \in asked : a.id # m.id => a \in asked'
  BY <1>1
<1> HIDE DEF m, hit
<1>4. m.id \in Ids("toServer", "reply") /\ m.id \in Settled
  BY <1>1, <1>2 DEF Ids, Settled
<1>5. /\ Ids("toServer", "reply")' \subseteq Ids("toServer", "reply")
      /\ Ids("toServer", "failed")' = Ids("toServer", "failed")
  BY <1>1, <1>2, SetsShrink DEF Kinds
<1>6. /\ Requests("fromServer")' = Requests("fromServer")
      /\ Ids("fromServer", "cancelled")' = Ids("fromServer", "cancelled")
      /\ Ids("fromClient", "reply")' = Ids("fromClient", "reply")
      /\ Requests("toClient")' = Requests("toClient")
      /\ Ids("toClient", "cancelled")' = Ids("toClient", "cancelled")
  BY <1>2, SetsKeep DEF Kinds
<1>7. Open' \subseteq Open /\ Held' = Held /\ Settled' \subseteq Settled
  BY <1>1, <1>3, <1>5, <1>6 DEF Open, Held, Settled, Up
<1>8. \A w : ToldFailed(w)' <=> ToldFailed(w)
  <2>1. \A a \in asked : a.id \in Ids("toServer", "failed") => a \in asked'
    BY <1>3, <1>4 DEF UpIsFresh
  <2>2. QED
    BY <1>3, <1>5, <2>1 DEF ToldFailed
<1>9. PromptsAreNew'
  BY <1>1, <1>7 DEF PromptsAreNew
<1>10. UpIsFresh'
  <2>1. (Ids("toServer", "reply") \cap Ids("toServer", "failed"))' = {}
    BY <1>5 DEF UpIsFresh
  <2>2. QED
    BY <1>1, <1>2, <1>3, <1>6, <1>7, <2>1 DEF UpIsFresh, Ordered
<1>11. DownIsFresh'
  BY <1>1, <1>2, <1>6 DEF DownIsFresh, Ordered
<1>12. UpWithdrawn'
  <2>1. \A q \in Requests("fromServer") : q.id # m.id
    <3>1. \A q \in Requests("fromServer") : m.id < q.id /\ m.id \in Nat /\ q.id \in Nat
      BY <1>4, OpenTypes DEF UpIsFresh
    <3>2. QED
      BY <3>1
  <2>2. \A r \in relays : Up(r).id # m.id
    BY <1>4, OpenTypes DEF UpIsFresh
  <2>3. QED
    BY <1>1, <1>3, <1>6, <2>1, <2>2 DEF UpWithdrawn, Up
<1>13. DownWithdrawn'
  BY <1>1, <1>6, <1>7, <1>8 DEF DownWithdrawn
<1>14. QED
  BY <1>9, <1>10, <1>11, <1>12, <1>13

\* Word of a failure takes the prompt back.
LEMMA ServerTakesFailureWithdrawn ==
  ASSUME IdsInv, WithdrawInv, ServerTakesFailure
  PROVE  WithdrawInv'
<1> USE FourDirections DEF WithdrawInv
<1> DEFINE m == Head(pipe["toServer"])
           hit == {a \in asked : a.id = m.id}
           gone == {a.what : a \in {b \in hit : b.what # 0}}
<1>1. /\ pipe["toServer"] # <<>> /\ m.type = "failed"
      /\ asked' = asked \ hit /\ revoked' = revoked \cup gone
      /\ pipe' = Take("toServer")
      /\ UNCHANGED <<load, phase, relays, serverId, proxyId, working, dropped>>
  BY DEF ServerTakesFailure, Carries
<1>2. /\ Ordered' /\ m \in In("toServer")
      /\ In("toServer")' \subseteq In("toServer")
      /\ In("toServer") \subseteq In("toServer")' \cup {m}
      /\ \A e \in Directions \ {"toServer"} : In(e)' = In(e)
  BY <1>1, IdsUnfolded, TakeSets DEF UpIsFresh, DownIsFresh, Ordered
<1>3. /\ asked' \subseteq asked /\ \A a \in asked : a.id # m.id => a \in asked'
      /\ \A what \in gone : \E a \in asked : a.id = m.id /\ a.what = what /\ what # 0
      /\ \A a \in asked : a.id = m.id /\ a.what # 0 => a.what \in gone
  BY <1>1
<1> HIDE DEF m, hit, gone
<1>4. m.id \in Ids("toServer", "failed") /\ m.id \in Settled
  BY <1>1, <1>2 DEF Ids, Settled
<1>5. /\ Ids("toServer", "reply")' = Ids("toServer", "reply")
      /\ Ids("toServer", "failed")' \subseteq Ids("toServer", "failed")
      /\ Ids("toServer", "failed") \subseteq Ids("toServer", "failed")' \cup {m.id}
  BY <1>1, <1>2, SetsShrink DEF Kinds
<1>6. /\ Requests("fromServer")' = Requests("fromServer")
      /\ Ids("fromServer", "cancelled")' = Ids("fromServer", "cancelled")
      /\ Ids("fromClient", "reply")' = Ids("fromClient", "reply")
      /\ Requests("toClient")' = Requests("toClient")
      /\ Ids("toClient", "cancelled")' = Ids("toClient", "cancelled")
  BY <1>2, SetsKeep DEF Kinds
<1>7. Open' \subseteq Open /\ Held' = Held /\ Settled' \subseteq Settled
  BY <1>1, <1>3, <1>5, <1>6 DEF Open, Held, Settled, Up
<1>8. PromptsAreNew'
  <2>1. \A what \in gone : what \in Nat /\ what > load.prompts
    BY <1>3, OpenTypes DEF PromptsAreNew
  <2>2. QED
    BY <1>1, <1>7, <2>1 DEF PromptsAreNew
<1>9. UpIsFresh'
  <2>1. (Ids("toServer", "reply") \cap Ids("toServer", "failed"))' = {}
    BY <1>5 DEF UpIsFresh
  <2>2. QED
    BY <1>1, <1>2, <1>3, <1>6, <1>7, <2>1 DEF UpIsFresh, Ordered
<1>10. DownIsFresh'
  BY <1>1, <1>2, <1>6 DEF DownIsFresh, Ordered
<1>11. \A q \in Requests("fromServer") : q.id # m.id /\ q.what \notin gone
  <2> SUFFICES ASSUME NEW q \in Requests("fromServer") PROVE q.id # m.id /\ q.what \notin gone
    OBVIOUS
  <2>1. q.id # m.id
    <3>1. m.id < q.id /\ m.id \in Nat /\ q.id \in Nat
      BY <1>4, OpenTypes DEF UpIsFresh
    <3>2. QED
      BY <3>1
  <2>2. q.what \notin gone
    BY <1>3, <2>1, OpenTypes DEF PromptsAreNew
  <2>3. QED
    BY <2>1, <2>2
<1>12. UpWithdrawn'
  <2>1. \A r \in relays : Up(r).id # m.id
    BY <1>4, OpenTypes DEF UpIsFresh
  <2>2. \A q \in Requests("fromServer")' :
          /\ q.what = 0 \/ q.what \in revoked' \/ q \in asked'
          /\ q.what \in revoked' <=> q.id \in Ids("fromServer", "cancelled")'
    BY <1>1, <1>3, <1>6, <1>11 DEF UpWithdrawn
  <2>3. \A r \in relays' :
          /\ r.what = 0 \/ r.what \in revoked' \/ Up(r) \in asked'
          /\ r.up \in Ids("fromServer", "cancelled")' => r.what \in revoked'
    BY <1>1, <1>3, <1>6, <2>1 DEF UpWithdrawn
  <2>4. QED
    BY <2>2, <2>3 DEF UpWithdrawn, Up
<1>13. DownWithdrawn'
  <2>1. \A w : ToldFailed(w) /\ w # 0 => w \in revoked' \/ ToldFailed(w)'
    <3> SUFFICES ASSUME NEW w, w # 0, NEW a \in asked, a.what = w,
                        a.id \in Ids("toServer", "failed")
                 PROVE  w \in revoked' \/ ToldFailed(w)'
      BY DEF ToldFailed
    <3>1. CASE a.id = m.id
      BY <1>1, <1>3, <3>1
    <3>2. CASE a.id # m.id
      BY <1>3, <1>5, <3>2 DEF ToldFailed
    <3>3. QED
      BY <3>1, <3>2
  <2>2. \A w : ToldFailed(w)' => ToldFailed(w)
    BY <1>3, <1>5 DEF ToldFailed
  <2>3. \A what \in gone : what # 0 /\ ToldFailed(what)
    BY <1>3, <1>4 DEF ToldFailed
  <2>4. \A h \in Held : h.what \in gone => h.id \in Ids("toClient", "cancelled")
    BY <2>3 DEF DownWithdrawn
  <2>5. \A what \in dropped' : what \in revoked' \/ ToldFailed(what)'
    BY <1>1, <2>1 DEF DownWithdrawn, PromptsAreNew
  <2>6. QED
    BY <1>1, <1>6, <1>7, <2>1, <2>2, <2>4, <2>5 DEF DownWithdrawn
<1>14. QED
  BY <1>8, <1>9, <1>10, <1>12, <1>13

LEMMA WithdrawNext == IdsInv /\ WithdrawInv /\ [SessionNext]_vars => WithdrawInv'
<1> SUFFICES ASSUME IdsInv, WithdrawInv, [SessionNext]_vars PROVE WithdrawInv'
  OBVIOUS
<1>0. /\ SessionTypes /\ PipesTyped /\ Ordered /\ serverId \in Nat /\ load.prompts \in Nat
      /\ load \in [tools : Nat, roots : Nat, prompts : Nat, pings : Nat, timeouts : Nat]
  BY IdsUnfolded DEF WithdrawInv, UpIsFresh, DownIsFresh, Ordered, SessionTypes
<1>1. CASE UNCHANGED vars
  <2>1. SameMessages /\ Ordered'
    BY <1>0, <1>1 DEF vars, SameMessages, Ordered, Requests, Ids, In
  <2>2. QED
    BY <1>0, <1>1, <2>1, SameWithdrawn DEF vars
<1>2. CASE ListStep
  <2>1. SameMessages /\ Ordered' /\ UNCHANGED reverseVars
    BY <1>0, <1>2, ListMessages, ListTypes DEF WithdrawInv
  <2>2. load'.prompts = load.prompts /\ phase' \in {phase, "serving"}
    BY <1>0, <1>2
       DEF Spend, ListStep, ChangeTools, Ignore, Serve, ClientLists, ListTools, ServerLists,
           TakeListed, ReturnListed, RelayChanged, ClientTakesListed, ClientTakesChanged,
           ChangeRoots, RelayRootsChanged, ServerTakesChanged
  <2>3. QED
    BY <1>0, <2>1, <2>2, SameWithdrawn DEF reverseVars
<1>3. CASE Ping
  <2>1. SameMessages /\ Ordered' /\ load'.prompts = load.prompts
    BY <1>0, <1>3 DEF Ping, Spend, SameMessages, Ordered, Requests, Ids, In
  <2>2. serverId' \in Nat /\ serverId <= serverId'
    BY <1>0, <1>3 DEF Ping
  <2>3. QED
    BY <1>3, <2>1, <2>2, SameWithdrawn DEF Ping
<1>4. CASE Prompt
  <2>1. load.prompts > 0 /\ load'.prompts = load.prompts - 1 /\ ServerAsks(load.prompts)
    BY <1>0, <1>4 DEF Prompt, Spend
  <2>2. QED
    BY <1>0, <2>1, AskWithdrawn
<1>5. CASE AskRoots
  BY <1>0, <1>5, AskWithdrawn DEF AskRoots
<1>6. QED
  BY <1>1, <1>2, <1>3, <1>4, <1>5, ServerCancelsWithdrawn, RelayRequestWithdrawn,
     RelayCancelWithdrawn, RelayReplyWithdrawn, RelayTimeoutWithdrawn,
     ClientTakesRequestWithdrawn, ClientTakesCancelWithdrawn, ClientRepliesWithdrawn,
     ServerTakesReplyWithdrawn, ServerTakesFailureWithdrawn
     DEF SessionNext, ProxyStep, ClientStep, ServerStep, ListStep

LEMMA WithdrawInvariance == SessionSpec => []WithdrawInv
  BY WithdrawInit, WithdrawNext, IdsInvariance, PTL DEF SessionSpec

\* Whatever is cancelled, answered or timed out in whatever order: the client
\* gives up only on what the server has taken back or is told to have failed,
\* and what is taken back is worked on only until its cancellation arrives.
THEOREM SessionWithdrawnTogether == SessionSpec => []WithdrawnTogether
<1>1. IdsInv /\ WithdrawInv => WithdrawnTogether
  <2> SUFFICES ASSUME IdsInv, WithdrawInv PROVE WithdrawnTogether
    OBVIOUS
  <2>1. ASSUME NEW d \in Directions, NEW i
        PROVE  /\ i \in Ids(d, "failed") => Holds(d, Failed(i))
               /\ i \in Ids(d, "cancelled") => Holds(d, Cancelled(i))
    <3>1. \A m \in In(d) : m \in SomeMessage /\ Holds(d, m)
      BY IdsUnfolded, SetsTyped DEF In, Contents, Holds
    <3>2. \A m \in SomeMessage : /\ m.type = "failed" => m = Failed(m.id)
                                 /\ m.type = "cancelled" => m = Cancelled(m.id)
      BY DEF SomeMessage, Failed, Cancelled
    <3>3. QED
      BY <3>1, <3>2 DEF Ids
  <2>2. \A w \in working : w \in Held
    BY DEF Held
  <2>3. \A what : ToldFailed(what) =>
          \E a \in asked : a.what = what /\ Holds("toServer", Failed(a.id))
    BY <2>1, FourDirections DEF ToldFailed
  <2>4. QED
    BY <2>1, <2>2, <2>3, FourDirections DEF WithdrawInv, DownWithdrawn, WithdrawnTogether
<1>2. QED
  BY <1>1, IdsInvariance, WithdrawInvariance, PTL
=============================================================================
