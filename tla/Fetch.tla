-------------------------------- MODULE Fetch --------------------------------
(***************************************************************************)
(* One request through each of the library's doors: leanpromptFetch        *)
(* (ts/src/fetch.ts), where the messages of the request body are replaced  *)
(* in place by the compressed list, found by a scan of the text, and the   *)
(* response is annotated; the clients (openai.ts, anthropic.ts) and a      *)
(* wrapped client (wrap.ts), which are given the request as an object.     *)
(*                                                                         *)
(* A text is a sequence of tokens: marks, string literals (with the value  *)
(* they decode to) and words (numbers, true, null).  Only texts that       *)
(* JSON.parse accepts are scanned, so the scanner's answers to malformed   *)
(* ones have no counterpart.                                               *)
(***************************************************************************)
EXTENDS FiniteSetsExt, Selection

CONSTANTS
  Members,    \* the members an object may have: a key and the tokens of a value
  MaxMembers, \* bound of the model: members of a body
  Condense,   \* Condense[v]: the compressed list for the array v, as JSON
              \* without white space
  Rounded     \* Rounded[w]: the word w after a trip through float64

Mark(c) == [kind |-> "mark", value |-> c]
Literal(v) == [kind |-> "string", value |-> v]
Word(w) == [kind |-> "word", value |-> w]

Space == Mark("space")
Comma == Mark("comma")
Colon == Mark("colon")
OpenBrace == Mark("openBrace")
CloseBrace == Mark("closeBrace")
OpenBracket == Mark("openBracket")
CloseBracket == Mark("closeBracket")
Openers == {OpenBrace, OpenBracket}
Closers == {CloseBrace, CloseBracket}
IsArray(v) == v[1] = OpenBracket
Dense(v) == Select(v, {k \in 1..Len(v) : v[k] # Space})

\* By how many the openers exceed the closers among the first k tokens.
Surplus(text, k, openers, closers) ==
  Cardinality({j \in 1..k : text[j] \in openers})
    - Cardinality({j \in 1..k : text[j] \in closers})

\* What the first token of v opens is closed by its last, and not before.
Embraces(v, openers, closers) ==
  /\ Surplus(v, Len(v), openers, closers) = 0
  /\ \A k \in 1..(Len(v) - 1) : Surplus(v, k, openers, closers) > 0

\* A literal or a word, or an object or an array.
IsValue(v) ==
  /\ Len(v) \in Nat \ {0} /\ v = [k \in 1..Len(v) |-> v[k]]
  /\ \/ Len(v) = 1 /\ v[1].kind # "mark"
     \/ v[1] \in Openers /\ Embraces(v, Openers, Closers)
  /\ IsArray(v) => Embraces(v, {OpenBracket}, {CloseBracket})

ASSUME FetchAssumption ==
  /\ \A m \in Members :
       /\ m = [key |-> m.key, value |-> m.value] /\ IsValue(m.value)
       /\ m.key = "messages" /\ IsArray(m.value) => Dense(m.value) \in DOMAIN Condense
  /\ \A v \in DOMAIN Condense :
       IsValue(Condense[v]) /\ IsArray(Condense[v]) /\ Dense(Condense[v]) = Condense[v]
  /\ MaxMembers \in Nat

\* A call that is not a POST to a messages endpoint, a body that is not read
\* (Blob, stream), one that is no JSON, JSON's null, another value that is no
\* object, and an object.
Call ==
  [form : {"elsewhere", "unread", "notJson", "null", "value"}]
  \cup [form : {"object"}, spaced : BOOLEAN,
        members : UNION {[1..n -> Members] : n \in 0..MaxMembers}]

\* What the upstream answers: JSON with usage, JSON without, JSON's null, a
\* body of another type, one that its header calls JSON and that is none, and
\* an HTTP error, whose body may have a usage as well.
Reply == {"usage", "noUsage", "null", "other", "broken", "failed", "failedUsage"}
Failed == {"failed", "failedUsage"}
WithUsage == {"usage", "failedUsage"}

VARIABLES
  door,      \* "fetch", "openai", "anthropic" or "wrap"
  call,      \* what the caller asks for
  rawBody,   \* the text of its body
  phase,     \* "called", "scan", "rebuild", "sent", "replied" or "over"
  at,        \* i of findTopLevelArraySpan
  depth,     \* depth of findTopLevelArraySpan
  found,     \* its found: at most one span <<first, last>>
  sent,      \* the body the upstream receives
  reply,     \* the upstream's response
  readable,  \* nobody has consumed the body of that response
  returned   \* what the caller gets

scanVars == <<at, depth, found>>
fetchVars == <<door, call, rawBody, phase, scanVars, sent, reply, readable, returned>>

-----------------------------------------------------------------------------
(* The body as its writer wrote it, and as JSON.parse reads it.             *)

MemberText(m, gap) ==
  <<Literal(m.key)>> \o gap \o <<Colon>> \o gap \o m.value

Write(members, gap) ==
  LET upTo[k \in 0..Len(members)] ==
        IF k = 0 THEN <<OpenBrace>>
        ELSE upTo[k - 1] \o (IF k = 1 THEN <<>> ELSE <<Comma>> \o gap)
               \o MemberText(members[k], gap)
  IN  upTo[Len(members)] \o <<CloseBrace>>

Written(c) ==
  IF c.form = "object" THEN Write(c.members, IF c.spaced THEN <<Space>> ELSE <<>>)
  ELSE <<Word(c.form)>>

\* Among members with the same key the last one counts.
Parsed(key) ==
  LET same == {k \in 1..Len(call.members) : call.members[k].key = key}
  IN  IF call.form # "object" \/ same = {} THEN {} ELSE {call.members[Max(same)].value}

Messages == {v \in Parsed("messages") : IsArray(v)}
Intercepted == Messages # {}
Streams == Parsed("stream") = {<<Word("true")>>}
Condensed == Condense[Dense(CHOOSE v \in Messages : TRUE)]

\* A value as JSON.stringify writes what JSON.parse has read.
Stringified(v) ==
  LET Round(t) == IF t.kind = "word" THEN Word(Rounded[t.value]) ELSE t
  IN  [k \in 1..Len(Dense(v)) |-> Round(Dense(v)[k])]

\* JSON.stringify of {...parsed, messages: compressed}: each key once, where
\* it came first.
Reserialized ==
  LET KeyOf(k) == call.members[k].key
      Value(key) == IF key = "messages" THEN Condensed
                    ELSE Stringified(CHOOSE v \in Parsed(key) : TRUE)
      all == [k \in 1..Len(call.members) |-> [key |-> KeyOf(k), value |-> Value(KeyOf(k))]]
  IN  Write(Select(all, {k \in 1..Len(all) : \A j \in 1..(k - 1) : KeyOf(j) # KeyOf(k)}), <<>>)

-----------------------------------------------------------------------------
(* Before the scan.                                                         *)

\* A request that is given as an object has one member of a key, and numbers
\* that are doubles; the clients' types ask for a list of messages.
Params ==
  {c \in Call :
     /\ c.form = "object" /\ ~c.spaced
     /\ \A k \in 1..Len(c.members) :
          /\ Stringified(c.members[k].value) = c.members[k].value
          /\ \A j \in 1..(k - 1) : c.members[j].key # c.members[k].key}

FetchInit ==
  /\ door \in {"fetch", "openai", "anthropic", "wrap"}
  /\ call \in IF door = "fetch" THEN Call ELSE Params
  /\ door \in {"openai", "anthropic"} => Intercepted
  /\ rawBody = Written(call) /\ phase = "called"
  /\ at = 1 /\ depth = 0 /\ found = {}
  /\ sent = <<>> /\ reply = "none" /\ readable = TRUE /\ returned = "none"

End(how) == phase' = "over" /\ returned' = how
Forward(body) == phase' = "sent" /\ sent' = body

\* baseFetch(input, init); fn.apply(target, args).
Relay ==
  /\ phase = "called" /\ ~Intercepted /\ call.form # "null"
  /\ Forward(rawBody)
  /\ UNCHANGED <<door, call, rawBody, scanVars, reply, readable, returned>>

\* parsed.messages of null throws outside of the try.
ThrowOnNull ==
  /\ phase = "called" /\ call.form = "null"
  /\ End("rejected")
  /\ UNCHANGED <<door, call, rawBody, scanVars, sent, reply, readable>>

\* compressMessagesAsync resolves, or rejects (SelfLLM with onError "throw").
Compress ==
  /\ phase = "called" /\ Intercepted
  /\ \/ phase' = (IF door = "fetch" THEN "scan" ELSE "rebuild") /\ UNCHANGED returned
     \/ End("rejected")
  /\ UNCHANGED <<door, call, rawBody, scanVars, sent, reply, readable>>

-----------------------------------------------------------------------------
(* findTopLevelArraySpan, one turn of its loop at a time.                   *)

\* The place of the first token from k on that is no white space.
Solid(k) == Min({j \in k..Len(rawBody) : rawBody[j] # Space} \cup {Len(rawBody) + 1})

\* What is at a place, or nothing behind the end.
Holds(k, t) == k <= Len(rawBody) /\ rawBody[k] = t

\* The array that is the value of the key at k.
ArrayAfter(k) ==
  LET start == Solid(Solid(k + 1) + 1)
  IN  IF Holds(Solid(k + 1), Colon) /\ Holds(start, OpenBracket) THEN {start} ELSE {}

\* findMatchingBracket: the first place where as many arrays end as began.
MatchingBracket(open) ==
  LET rest == SubSeq(rawBody, open, Len(rawBody))
  IN  Min({k \in 1..Len(rest) : Surplus(rest, k, {OpenBracket}, {CloseBracket}) = 0}) + open - 1

\* (mutant) A key counts at any depth.
AnyMessagesArray ==
  IF rawBody[at] = Literal("messages") THEN ArrayAfter(at) ELSE {}

\* Where the array starts if this is the key messages of the object itself.
MessagesArray ==
  IF depth = 1 /\ rawBody[at] = Literal("messages") THEN ArrayAfter(at) ELSE {}

Scanning == phase = "scan" /\ at <= Len(rawBody)

TakeArray ==
  /\ Scanning /\ found = {}
  /\ \E start \in MessagesArray :
       /\ found' = {<<start, MatchingBracket(start)>>}
       /\ at' = MatchingBracket(start) + 1
  /\ UNCHANGED <<door, call, rawBody, phase, depth, sent, reply, readable, returned>>

\* (mutant) The first array found is kept.
KeepFirst ==
  /\ Scanning /\ found # {} /\ MessagesArray # {}
  /\ at' = Len(rawBody) + 1
  /\ UNCHANGED <<door, call, rawBody, phase, depth, found, sent, reply, readable, returned>>

\* A second array: the scan returns null.
GiveUp ==
  /\ Scanning /\ found # {} /\ MessagesArray # {}
  /\ found' = {} /\ at' = Len(rawBody) + 1
  /\ UNCHANGED <<door, call, rawBody, phase, depth, sent, reply, readable, returned>>

DepthAfter(t) ==
  CASE t \in Openers -> depth + 1 [] t \in Closers -> depth - 1 [] OTHER -> depth

Advance ==
  /\ Scanning /\ MessagesArray = {}
  /\ at' = at + 1 /\ depth' = DepthAfter(rawBody[at])
  /\ UNCHANGED <<door, call, rawBody, phase, found, sent, reply, readable, returned>>

\* spliceTopLevelArrayField, or the whole body written anew.
Splice ==
  /\ phase = "scan" /\ at > Len(rawBody)
  /\ Forward(
       IF found = {} THEN Reserialized
       ELSE LET span == CHOOSE s \in found : TRUE
            IN  SubSeq(rawBody, 1, span[1] - 1) \o Condensed
                \o SubSeq(rawBody, span[2] + 1, Len(rawBody)))
  /\ UNCHANGED <<door, call, rawBody, scanVars, reply, readable, returned>>

\* {...params, messages: compressed}, written by the client or the wrapped one.
Rebuild ==
  /\ phase = "rebuild"
  /\ Forward(Reserialized)
  /\ UNCHANGED <<door, call, rawBody, scanVars, reply, readable, returned>>

-----------------------------------------------------------------------------
(* The response.                                                            *)

Respond(r) ==
  /\ phase = "sent"
  /\ phase' = "replied" /\ reply' = r
  /\ UNCHANGED <<door, call, rawBody, scanVars, sent, readable, returned>>

NetworkError ==
  /\ phase = "sent"
  /\ End("rejected")
  /\ UNCHANGED <<door, call, rawBody, scanVars, sent, reply, readable>>

\* What the caller of a relayed or streaming request gets is not looked into,
\* nor is a response of another type.
PassBack ==
  /\ phase = "replied" /\ door = "fetch"
  /\ ~Intercepted \/ Streams \/ reply = "other"
  /\ End("untouched")
  /\ UNCHANGED <<door, call, rawBody, scanVars, sent, reply, readable>>

\* (mutant) The response itself is read.
ReadItself == readable' = FALSE

\* response.clone().json().
ReadClone == UNCHANGED readable

\* With a usage object the response is made anew around it, whatever its
\* status; json.usage of null throws.
Annotate ==
  /\ phase = "replied" /\ door = "fetch"
  /\ Intercepted /\ ~Streams /\ reply # "other"
  /\ ReadClone
  /\ End(CASE reply \in WithUsage -> "annotated"
            [] reply = "null" -> "rejected"
            [] OTHER -> "untouched")
  /\ UNCHANGED <<door, call, rawBody, scanVars, sent, reply>>

\* attachTelemetry, on an answer that has been read: nothing without usage.
Attached(tell) == IF tell /\ reply = "usage" THEN "annotated" ELSE "untouched"

\* The clients read every answer as JSON, and OpenAI's is told nothing of a
\* request that streams.
ReadAnswer ==
  /\ phase = "replied" /\ door \in {"openai", "anthropic"}
  /\ End(IF reply \in Failed \cup {"broken", "other"} THEN "rejected"
         ELSE Attached(door = "anthropic" \/ ~Streams))
  /\ UNCHANGED <<door, call, rawBody, scanVars, sent, reply, readable>>

\* What the wrapped client makes of an answer is passed on.
Settle ==
  /\ phase = "replied" /\ door = "wrap"
  /\ End(IF reply \in Failed \cup {"broken"} THEN "rejected"
         ELSE Attached(Intercepted /\ ~Streams))
  /\ UNCHANGED <<door, call, rawBody, scanVars, sent, reply, readable>>

FetchNext ==
  \/ Relay \/ ThrowOnNull \/ Compress
  \/ TakeArray \/ GiveUp \/ Advance \/ Splice \/ Rebuild
  \/ \E r \in Reply : Respond(r)
  \/ NetworkError \/ PassBack \/ Annotate \/ ReadAnswer \/ Settle

FetchSpec == FetchInit /\ [][FetchNext]_fetchVars

-----------------------------------------------------------------------------
(* What a reader of a text makes of it: the members are parted by the       *)
(* commas of the outermost object.                                          *)

DepthAt(text, k) == Surplus(text, k, Openers, Closers)

ValueAfter(text, colon) ==
  LET ends == {k \in colon..Len(text) :
                 DepthAt(text, k) = 0 \/ (DepthAt(text, k) = 1 /\ text[k] = Comma)}
  IN  Dense(SubSeq(text, colon + 1, Min(ends) - 1))

\* The value of the last member with that key.
Reading(text, key) ==
  LET KeyOf(colon) == text[Max({k \in 1..(colon - 1) : text[k] # Space})]
      colons == {k \in 1..Len(text) : text[k] = Colon /\ DepthAt(text, k) = 1
                                      /\ KeyOf(k) = Literal(key)}
  IN  IF colons = {} THEN {} ELSE {ValueAfter(text, Max(colons))}

\* The comment on spliceTopLevelArrayField: with one array of messages in the
\* object, the body is sent as it was written but for that array -- whatever
\* else is called messages, wherever brackets occur.
SpliceIsSurgical ==
  LET lists == {k \in 1..Len(call.members) :
                  call.members[k].key = "messages" /\ IsArray(call.members[k].value)}
  IN  phase = "sent" /\ Intercepted => \A k \in lists :
        lists = {k} => sent = Written([call EXCEPT !.members[k].value = Condensed])

\* Through every door: the upstream reads the compressed list of the messages
\* it would have read, and in every other field what it would have read there,
\* duplicates or not.
UpstreamReadsCompressed ==
  phase = "sent" =>
    IF ~Intercepted THEN sent = rawBody
    ELSE /\ Reading(sent, "messages") = {Condense[v] : v \in Reading(rawBody, "messages")}
         /\ \A m \in Members :
              \/ m.key = "messages"
              \/ Reading(sent, m.key) = Reading(rawBody, m.key)
              \/ Reading(sent, m.key) = {Stringified(v) : v \in Reading(rawBody, m.key)}

\* CONFIG.md: non-streaming JSON responses are annotated, everything else is
\* forwarded untouched -- and can still be read.  Through every door the caller
\* gets what it would get without leanprompt, but for what was saved, and is
\* told that whenever there is a usage to tell it in.  Exempted is one quirk:
\* a response of JSON's null makes leanpromptFetch reject (fetch.ts:99).
AnswerIsIntact ==
  LET Without == CASE door = "fetch" -> "untouched"
                   [] door = "wrap"  -> IF reply \in Failed \cup {"broken"} THEN "rejected" ELSE "untouched"
                   [] OTHER          -> IF reply \in {"usage", "noUsage", "null"} THEN "untouched" ELSE "rejected"
      Quirk   == door = "fetch" /\ reply = "null" /\ returned = "rejected"
  IN  phase = "over" /\ reply # "none" =>
        /\ door = "fetch" /\ returned = "untouched" => readable
        /\ returned \in {Without, "annotated"} \/ Quirk
        /\ Intercepted /\ ~Streams /\ reply = "usage" => returned = "annotated"
        /\ returned = "annotated" =>
             /\ reply \in WithUsage /\ Intercepted
             /\ ~Streams \/ door = "anthropic"
=============================================================================
