# A model of leanprompt

leanprompt shortens what is sent to a language model: a middleware library
(`ts/src`, with ports in `go/` and `rust/`) that compresses the message list of
a request, and an MCP proxy (`mcp-proxy/src`) that compresses the results of
tools on their way from a server to a client and keeps the originals for a
while. This directory holds TLA+ modules of both, TLC configurations that check
them on small instances, and TLAPS proofs.

## Inventory

| component | state it keeps | operations | what makes it correct |
|---|---|---|---|
| Expand store (`expand-store.ts`) | insertion-ordered map, byte count, put counter | `put`, `get`, `evict` | a ref never names another original; both caps; LRU; nothing evicted without need |
| MCP proxy, requests of the client (`proxy.ts`, `compress.ts`) | one promise per request, the expand store | handlers for tools, tasks, the forwarded requests, cancellation, `leanprompt_expand` | answers are upstream's; what expands is the original; cancellations travel; every request ends; a restart kills all refs |
| MCP proxy, the session (`proxy.ts`) | the ids of two connections | start-up, list changes, requests of the server to the client | no change is lost; a completion reaches the request it completes; both sides end up knowing each other's lists |
| Sampling (`compress.ts`) | none | wrap, compress, unwrap a server's sampling request | every message keeps its own content |
| Middleware (`middleware.ts`, `router.ts`, `verbatim.ts`, `content.ts`) | none between calls | gate, strategies, protect, route, compress, statistics | blocks keep their kind, id and order; live turns and system messages intact; stable prefix; same output from all ports |
| Strategies (`strategies.ts`, `classifier.ts`) | a repeat tracker per call | normalize, dedup, purge-errors | tool pairs never orphaned; what is dropped repeats what stays; variants of a text meet in one form |
| Extract (`extract.ts`) | the selection loop's | guards, segment, rank, keep, finish, rejoin | prohibitions survive; greedy selection within a budget; antecedents follow; structure survives |
| Tokens (`tokens.ts`) | none | the token estimate | counts of parts add up |
| SelfLLM (`selfllm.ts`) | requests in flight, a timer each | fan-out over spans of text, timeout, fallback | a failing provider costs nothing but the saving |
| Fetch interceptor and client wrappers (`fetch.ts`, `openai.ts`, `anthropic.ts`, `wrap.ts`) | none | replace the messages of a request, annotate usage | all else in the request unchanged, the answer whole |
| Proxy command line (`args.ts`, `cli.ts`), benchmarks | none | parse options | |
| Go and Rust ports (`go/`, `rust/src/`) | as the originals, one request at a time | as the originals | the outputs of the TypeScript reference |

They interact by calls: a wrapper or the interceptor calls the middleware with
the whole history each time the model is asked; the middleware calls the
strategies and then one compressor per message; the proxy calls the middleware
on each tool result, alone, and puts the original into the expand store. The
only shared state is the expand store, which all handlers of the proxy use from
the one JavaScript thread; the only concurrency is between awaits. What is hard
is therefore: the order of answers, cancellations, timeouts, notifications and
connection loss around the proxy's awaits; eviction, and a restart, between
quoting a ref and expanding it; two id spaces; what a long conversation does to
a pipeline that sees all of it again each time; decisions made per message and
carried out per block; and the arithmetic of caps, windows, budgets and scans.

## Modules

| module | what it models |
|---|---|
| `ExpandCache` | what the store promises: an LRU list of contents, evicted from the front |
| `ExpandStore` | `expand-store.ts`, statement by statement; refines `ExpandCache` |
| `McpProxy` | the client's requests through the proxy, and its restarts; extends `ExpandStore` |
| `Session` | start-up, lists and their changes, the server's requests, two id spaces |
| `Selection` | the loop that pushes the elements it keeps, used throughout |
| `Middleware` | the pipeline as operators on lists of messages made of blocks |
| `Conversation` | a history that grows and is compressed whenever the model is asked |
| `GoPipeline`, `RustPipeline` | the pipelines of the ports, in their own idiom; extend `Middleware` |
| `Ports` | the three pipelines on the same conversations |
| `Sampling` | a sampling request through wrap, pipeline and unwrap |
| `Normalize`, `Tokens`, `Segment` | the algorithms on characters: normalize, the token estimate, segmentation and re-joining |
| `Texts` | texts that grow, and what those algorithms promise of each |
| `Extract` | `compressText` and `selectSentences` as a machine |
| `ExtractPorts` | the selections of the ports as functions, next to that machine |
| `SelfLLM` | one compression through a provider: requests, timers, promises, fallback |
| `Fetch` | one request through each of the library's four doors |
| `McpProxy_proofs` (with those of the store), `Session_proofs`, `Conversation_proofs`, `Extract_proofs`, `SelfLLM_proofs`, `Fetch_proofs`, `Texts_proofs` | the proofs |
| `Induction` | what they share: induction up to a bound, recursive functions, the lemmas about `Select` |
| `MC*` | the values of the constants for TLC |

### ExpandStore

`entries` is the Map in insertion order, `bytes` and `counter` are the class's
fields; `reply` is what the last call returned, `log` (every entry ever put) and
`recency` (all refs by last use) are history variables. `Put` is `put` with the
eviction loop of `evict` inside; `Get` is `get`, with the delete-and-set that
makes a hit the youngest. The ref `lp<n>-<time>` is a pair of the counter and a
clock stamp; the clock may repeat or go backwards. `EvictFrom` states the loop
by its result: the shortest prefix whose removal satisfies both caps. `storedAt`
and `tokens` are never read and are left out.

### McpProxy

Each request of the client is one of the kinds in `Ops` -- a listing, a call
(answered with a result, a task handle or an error), the payload of a task, an
expand call, or a request that is forwarded and never looked into -- and walks
through phases as the handler's awaits do: `Forward` runs the handler up to its
await of the upstream, `TakeResult` continues with the answer (compressing and
putting, in one step: there is no await between), `TakeCancel` and `Timeout`
abort the wait, `Reject` propagates an error. Requests that are answered without
the upstream take `HandleExpand` and `HandleLocally` (`config` says whether
expand is on and whether the upstream has tools). `Die` ends the upstream
connection. The SDK drops the result of an aborted request; whether the abort is
signalled to the upstream depends on the handler having passed `extra.signal`,
which is what `Signalled` says.

`Restart` kills the process and starts it again: store, counter and everything
under way are gone, while the client still has the refs of earlier lives in its
conversation and may ask to expand them. What keeps an old ref from naming a new
result is the stamp alone. It is the clock in milliseconds, modulo 36^4, so it
recurs every 28 minutes; `ClockReads` says what the clock shows in each life, and
`ExpandIsOriginal` is checked, and proved, for lives that share no stamp. A
process restarted within the same millisecond of that cycle could hand out a ref
a second time.

The MCP client, the upstream server and the SDK are modelled from how
`proxy.ts` uses them and are marked external, here and in `Session`.

### Session

The four directions of the two connections are sequences (`pipe`); the proxy's
handlers move messages from one to another. `phase` is where `createProxy` is:
before `Serve` a notification meets no handler (`Ignore`). The server's tools and
the client's roots are version numbers; `client.view` and `server.view` are the
versions each side knows. A result of `tools/list` goes through `results`,
because a handler's result is returned later than a notification that came after
it may be sent: the notification may overtake. The server's requests
(`sampling/createMessage`, `roots/list`) get an id of the downstream connection
in `RelayRequest`; `relays` remembers the pairs while they are pending, and
`RelayReply`, `RelayCancel` and `RelayTimeout` translate back. Pings, answered
by the SDK, make the two counters drift. What sampling does to the messages of a
request is the subject of `Sampling`, not of this module.

Assumed of the SDK and of the two sides: handlers are set before another message
is read (they are set without an await after `connect`); the server sends no
request before the session is initialized; a server whose `roots/list` fails asks
again; client and server list again when told of a change.

### Middleware, Conversation, Sampling

A message is a role and a sequence of blocks; a block has a kind (text,
tool use, document, a particular image), the id of the tool call it belongs to,
and a text. Texts are opaque: what `classify` finds in a text -- error marker,
lines of code, JSON keys, length -- its rewritten forms and its token count are
constant functions, and add up over the blocks as they do over the joined text.
Of them `MiddlewareAssumption` asks that an empty text counts nothing, stays empty
when it is normalized and is no error.
`at` is a message's place in the history, unknown to the code, which lets
properties say what became of it. `CompressMessages` is `compressMessages`: gate,
`Normalize`, `Dedup`, `Purge`, then per message `Pick` and `Compress`, then the
counts; `Rewrite` is the walk over nested blocks that normalize, purge and
extract share. `Conversation` grows a well-formed history (roles alternate, a
tool call is answered next, in Anthropic's blocks or OpenAI's fields) and calls
it at each question. `Sampling` takes the single-block messages of a
conversation for the messages of a sampling request and wraps, compresses and
unwraps them by position as `compressSamplingMessages` does.

### GoPipeline, RustPipeline, Ports

The same pipeline translated from the ports' own code: a configuration in which
zero stands for the default (Go), a cutoff counted with indices from 0, blocks
that are rewritten only if they change (Rust), `usize` subtraction that wraps
(Rust, `Minus`), an explicit tracker that travels along the list. What they find
in the characters of a text is taken to be what the reference finds; what the
comparison is about is counting, cutting and order over whole conversations,
which the single-message parity vectors of the repository do not reach.

### Normalize, Tokens, Segment, Texts

Texts are sequences of characters, and of the characters only the classes that
the scanners tell apart are kept, one representative each. `Normalize` has the
four rewritings of `normalizeSpan` (line ends, terminal escapes, invisible
characters and blank runs, JSON's white space), `Tokens` the estimate with its two
kinds of runs, `Segment` the cutting of a text into sentences and the re-joining
of those that are kept. They are written with recursive functions, one scanner
each, and `Texts` states what they are for against a reference definition: the
grammar of ECMA-48 (`IsEscape`) for escapes, lines and paragraphs (`Shape`) for
the rest. `Plain`, `Tidied` and `Minified` of `Middleware` stand for these
functions.

### Extract, ExtractPorts

A sentence carries what scoring and tokenizing computed of it. `Guard` is the
guards of `compressText`, `KeepProhibitions` the loop before the ranking, `Skip`
and `Keep` one turn of the ranked loop, `Finish` the rest: at least one sentence,
and the original if nothing is saved. `left` is the part of `ranked` not reached
yet; the next candidate is its `Best`. `Slack` stands for the rounding by which
the count of a joined text may differ from the sum of its sentences'.
`GoSelect` and `RustSelect` are the ports' loops as folds over the ranked indices.

### SelfLLM

What is compressed is a tree of lists -- of messages, of a message's blocks, of
what a tool result holds -- whose leaves are the spans of text; lists and spans
are named by the indices that lead to them (`Width`, `Spans`). `call[s]` is the
request of span s: idle, waiting for headers, reading a body or the text of a
refusal, or settled with a summary, the original (the span was guarded, the
summary empty or longer) or a rejection. In the reference `Start` sends every
span of every message at once (`Promise.all`); `Timer` is the abort that covers
the request until its body is read; `Resolve` and `Reject` are the two ways in
which a message's promise ends, `FallBack` the `catch` that returns the message
whole, `Finish` the promise over the messages.

The ports walk the tree in loops within loops. `at` is where they are, one index
per loop, and `ret` what the call at that place has returned. `EnterLoop` begins
a list, or returns at once if it is empty; `SummarizeText` sends a span, or
answers a guarded one itself; `ReturnSpan` returns when the request has settled;
`NextMember` takes a result in and goes on with the loop, or ends it;
`LeaveLoop` is the `if err != nil { return ... }` of every loop (`?` in Rust), one
loop at a time; `Return` ends `Compress`. Nothing in these actions looks at what
became of earlier spans: that none is sent after an error is a consequence.

The check beforehand, whether there is any text to compress at all, is left out
(it only saves the walk).

### Fetch

A request enters by one of four doors: the intercepted `fetch`, which is given
the text of a body, or the OpenAI client, the Anthropic client or a wrapped
client, which are given an object. A body is an object of members, written with
or without white space into a text of tokens (`Write`); `Parsed` is what
`JSON.parse` makes of the members (the last of a key counts), `Reserialized` what
`JSON.stringify` makes of the result, with its rounding of large integers.
`Advance`, `TakeArray` and `GiveUp` are the turns of the loop in
`findTopLevelArraySpan`, `Splice` puts the compressed list into the span or falls
back to `Reserialized`; `Rebuild` is what the other doors do. `Respond` and
`NetworkError` are the upstream's, `PassBack`, `Annotate`, `ReadAnswer` and
`Settle` what becomes of its response. `Reading` is a reader of texts, independent of
the scanner: it cuts an object at the commas of its depth. `FetchAssumption` says
what texts of values there are: a literal or a word, or something that the bracket
it begins with embraces, by all brackets and, if it is an array, by the square ones
alone. The latter is what `findMatchingBracket` counts on; it holds of every text
that `JSON.parse` accepts, and only such texts are scanned (`fetch.ts:56-64`). The
compressed list is one without white space, as `JSON.stringify` writes it.

## Runs

| run | shows | bounds |
|---|---|---|
| `store` | types, `Truthful`, `WithinCaps` (with the exact byte count), `KeepsWhatFits`, refinement of `ExpandCache` | four puts, contents of four sizes, caps of two entries and five characters: eviction by either cap and by both, oversized content, repeated stamps |
| `proxy` | answers are upstream's, cancellations reach the upstream, every request not taken back ends | two concurrent requests: calls, expand calls, listings and plain forwarded requests, in every configuration |
| `proxy_expand` | expansion returns the original and refs die with their process; nothing is put for nobody | three requests, task payloads and expand calls, a store of one entry, one restart: two results compete, within a life or across, while a third request expands either ref |
| `session` | no change of the tools is lost, completions match, both sides withdraw a prompt together, both end up knowing the other's list | six sessions of up to two changes, two prompts, a ping and a timeout, in the combinations in which they interact |
| `session_pages` | violation: the second page asked for is the first again | two pages, one change |
| `conversation` | blocks keep their shape, tool pairs kept, drops are repeats, only old prose and errors rewritten, stable prefix, both ports send the same, sampling keeps distinct messages in place | seven messages of fifteen kinds; threshold (9), protection (2) and purge age (4) are all crossed and passed |
| `conversation_images` | violation: the same words about another image are dropped with it | five messages |
| `sampling_roles` | violation: after a dropped repeat, contents move to other roles | seven messages |
| `texts` | escapes go and nothing else does, variants agree, blank runs only, minifying is lossless, sentences survive any selection, counts add up | every text of five or six characters of four alphabets, every JSON value of five tokens with and without blanks |
| `extract` | prohibitions, antecedents, greedy choice, budget, no twins, both ports keep the same | four sentences of nine kinds, budgets of 0, 50 and 90 % |
| `selfllm` | a failed message comes out whole, no late writes, the ports send in turn, compression ends | two messages with five spans: a text and a tool result of two texts; a structural text, an empty tool result and a text; both values of `onError`, and the ports |
| `fetch` | only the messages array is replaced; through each door the upstream reads the compressed list and all else as before, and the caller gets the answer | bodies of up to three members of eight kinds, with and without white space: duplicate, nested and non-list messages, brackets in strings, a big integer; seven kinds of response |

The bounds are small because the code's decisions are local: a store of two
entries already distinguishes oldest, youngest and neither; a sentence interacts
with its predecessor and one twin; two requests show every race between a put
and an expand, the third adds eviction by another; a message of three spans has
a failed one, one that was summarized before it and one still in flight, and an
error within a tool result has three loops to leave, each with members to come; a
scanner looks ahead by a run and two characters; a listing under way can be
overtaken by one change and made stale by a second.

**Deadlock** is checked where the system cannot stop (`store`) and off where a
bounded model does: a conversation at `MaxLength`, requests that have all ended,
a session without changes to come, a text that has been compressed.

**Fairness.** `ProxyFairness` is weak fairness of the proxy's own steps, of
the SDK's timeout and of the client reading: the event loop runs ready callbacks
and every request carries a timer. Neither the client nor the upstream is assumed
to do anything; an upstream that hangs is the case the timeout is there for.
`SessionFairness` is weak fairness of the proxy, of the client and of the server
each as one reader of its connections, and of the answer to `roots/list`; nobody
has to change, prompt, complete or cancel anything. `SelfFairness` is that of
`postJson`'s timers and of the promise callbacks; nothing is assumed of the
provider or the network. The ports set no timer of their own and leave timeouts
to the HTTP client they are given, so `CompressionEnds` is claimed for the
reference only. `ExtractSpec` has weak fairness because a loop runs to its end;
no property depends on that.

**Divergences.** The three violation runs are disagreements between the code and
what its comments or documents say, each listed in `PROJECT.json`:
`tools/list` drops the client's cursor (`proxy.ts:271`), dedup drops an image
with the words it repeats (`classifier.ts:175`), and sampling moves contents to
other roles after a dropped repeat (`compress.ts:117`). Others that
show up in the models but have no run of their own:

- The `isError` flag of a tool result never reaches the classifier, so a failure
  told in prose is condensed (`compress.ts:63`) under a note that says "code,
  JSON and errors were kept verbatim" (`compress.ts:83-84`). For the same reason
  a short JSON or code block beside prose in one message is condensed with it:
  the class belongs to the message, and `OnlyProseIsCondensed` says so.
- A paragraph whose first line is dropped is joined to the paragraph before:
  `paragraphBreak` belongs to the line after the blank one (`extract.ts:662`;
  `CHANGELOG.md:143-147`). `SentencesSurvive` claims lines for every selection
  and paragraphs only for the whole.
- An entry larger than the byte cap is evicted by its own `put`, so the ref in
  the note is dead when it is quoted (`expand-store.ts:50`; `CHANGELOG.md:78-80`).
- A cancelled `tools/list` is not signalled upstream: its handler passes no
  signal (`proxy.ts:271`), though the header promises it for every forwarded
  request (`proxy.ts:29-32`). `CancelReachesUpstream` leaves it out.
- An upstream tool that is itself called `leanprompt_expand` is shadowed, and
  `tasks/list` and `tasks/cancel` are advertised with the upstream's capabilities
  but not forwarded.
- Minifying joins two numbers that only white space parts (`[1 2]` becomes
  `[12]`), though "any malformed input is returned unchanged"
  (`strategies.ts:288-289`); `WriteToken` does not put two numbers side by side.
- Removing escapes once may leave a new one, so `stripAnsi` is not idempotent;
  `EscapesGo` speaks of one pass.
- A text split over two blocks has the repeat key of the two texts joined by a
  line end; two such messages count as repeats of each other. The model's key is
  the sequence of texts.
- With two arrays of messages in a body the interceptor writes the whole body
  anew and large integers elsewhere are rounded; `CHANGELOG.md:188-191` says they
  survive "including when the key is ... duplicated". `SpliceIsSurgical` is about
  bodies with one array.
- A JSON body or response that is just `null` makes the wrapped `fetch` reject
  (`fetch.ts:62`, `fetch.ts:99`); a bodiless `init` beside a `Request` is dropped
  with its signal and headers (`fetch.ts:358-360`).
- Dedup runs before protection, so a live message that repeats an old one is
  dropped, and the old copy is condensed if it is prose out of the last turns, or
  purged if it is an old error: the words of the live turn are then sent nowhere.
  `CONFIG.md:155-156` says "The most recent N messages are always routed to
  verbatim", `README.md:23` that "system messages and the most recent turns are
  never compressed". `DroppedIsRepeat` says for which drops this happens and that
  the words of every other one are sent; `OnlyProseIsCondensed` speaks of the
  messages that are sent. That the words of the last turns are all sent is
  violated by five messages of the model: the assistant says the same prose twice,
  the first time outside of the last two turns, the second time right before the
  question.
- The text of a document block is counted but never rewritten.
- After a purge the prose that stood beside an error in one message is condensed: the
  message is classified anew once the error's text has become a placeholder
  (`CONFIG.md:252-254`: only blocks whose own text contains an error marker are
  replaced). It changes then, and not on the turn it leaves the window
  (`README.md:205-206`).
- When a conversation crosses the threshold its old messages are rewritten at
  once (`README.md:204-208`); `StablePrefix` starts from there.
- A prohibition, and a sentence pulled in by its successor, do not pull in their
  own predecessors (`docs/parity-spec.md:229-230`); `AntecedentsSurvive` is about
  sentences kept for their own sake.
- Zero means the default in the Go configuration, and `GoPipeline` says so; the
  run compares the ports for values both can express.

## Proofs

All the proof modules follow one scheme: an inductive invariant, one lemma per
action (or group of alike actions) that preserves it, one lemma that collects
them, and the theorems from its invariance.

**`McpProxy_proofs`, the store**, for every set of contents, every pair of caps and every
clock (`StoreAssumption`: sizes and caps are natural numbers): `StoreTypes`,
`StoreIsTruthful` (a ref returns what was put under it and no two puts share
one), `StoreCountsBytes`, `StoreStaysWithinCaps`, `StoreKeepsWhatFits` (eviction
only when a cap demands it) and `StoreImplementsCache` (refinement).
`Inv` adds to the types that the log has one entry per put with ascending
numbers (`LogInv`), that every live entry is the logged one (`EntriesInv`), and
that the live entries are exactly the end of the list of all refs by last use,
in that order (`RecencyInv`): without the last, that the evicted prefix is the
least recently used part does not follow from types and counts. The summed size
of the entries is a recursive function: `HeadSizeRec` establishes its recursion
by induction over a set of naturals (`NatSetInduction`), and the other facts
about it (dropping a prefix, moving an entry to the end) rest on that one.

**`McpProxy_proofs`, the proxy**, for every set of requests and any number of restarts:
`ProxyAnswersAreUpstreams`, `ProxyCancelReachesUpstream`, `ProxyPutsAreQuoted`,
`ProxyExpandIsOriginal` and `ProxyStoreStaysWithinCaps`. `RequestsInv` describes
each request by itself: which messages may be on the wire in each phase of its
client, its handler and its upstream, and that a result on the wire is the one
the upstream gave. It is needed because a late result meets a handler that may
have been cancelled, timed out or lost its connection. `BooksInv` ties the
answers to the store: the store's own invariant (`CapInv`, used through the
store's lemmas rather than proved again), one note per put of this life
(`NotesInv`, `CountInv`), and for each expanded original the note of the same
life (`OriginalsInv`). `ProxyExpandIsOriginal` assumes that no stamp is read in
two lives, the others assume nothing beyond `ProxyAssumption`.

**`Session_proofs`**, for any number of changes, requests, timeouts and pages
(`SessionAssumption`): `SessionCompletionsMatch`, `SessionNoChangeIsLost` and
`SessionWithdrawnTogether`.
`IdsInv` says that whatever carries an id of a connection was given it before
and names the same request as everything else that carries it there
(`UpstreamIds`, `DownstreamIds`); ids are never reused, though a request may be
forgotten while its reply is on the way. `ListsInv` says that there is at most
one listing, or question for one, on the whole way (`TokenInv`), that a listing
made before the last change never comes without word of it (`StaleIsFollowed`),
and that before the proxy serves the client still wants to list
(`BeforeServing`): the change that is announced to nobody is caught by that.
`NoChangeIsLost` alone is not inductive: a stale page that arrives must find word
of the change behind it, or come with it. `WithdrawnTogether` speaks of the two ends
of a relayed prompt and of nothing between them; `WithdrawInv` follows a withdrawal
through what is between. `UpWithdrawn` says that what the server has taken back is
at most one cancellation away from the proxy, `DownWithdrawn` the same of the proxy
and the client, for a request that was failed by a timeout as well; both need that a
request precedes its cancellation in its pipe (`InOrder`) and that the next id of
either connection, and the next prompt, are on nothing yet (`UpIsFresh`, `DownIsFresh`,
`PromptsAreNew`).

**`Conversation_proofs`**, for every set of messages, threshold and window and
conversations of any length (`MiddlewareAssumption`, `ConversationAssumption`,
`PortsAssumption`): `BlocksStay`, `LinksStay`, `DropsAreRepeats`, `ProseIsCondensed`,
`PrefixStays` (the action property: what was sent when the model was last asked
remains a prefix of what is sent now), `PlacesStay` for sampling, and `PortsAgree`,
that both ports send the messages and report the counts of the reference. The
invariant `ConvInv` is small -- what was sent last is the compression of the history
up to the last question -- because all that happens happens in one call: the work is
in lemmas about the pipeline. `Alike` is what each of its steps preserves of a
message (role, place, links, the kinds and ids of its blocks), and `RewriteAlike`,
`NormalizeAlike`, `PurgeAlike`, `ExtractAlike` and `Compressed` carry it from one end
to the other; `Deduped` says which places dedup keeps; `CountRec` and `CountGrows` are
the sums behind the threshold, which a longer history never falls below again. For
the ports each strategy is shown to compute what the reference computes
(`RustNormalizes`, `RustDedups`, `RustPurges`, `GoNormalizes`, `GoDedups`, `GoPurges`);
`MinusFits` is where `usize` subtraction could have wrapped. `PortsAssumption` says
that a configuration is one that Go can express (zero is its default) and that a
history has fewer messages than `usize` counts.

**`Extract_proofs`**, for every text, ratio and limit (`ExtractAssumption`):
`ProhibitionsAreKept`, `AntecedentsAreKept`, `NothingIsDroppedForNothing`,
`TwinsAreDropped`, `BudgetIsRespected` and `PortsKeepWhatIsKept`. `RankInv` says that whatever has been considered outranks
whatever has not and was kept or repeats something kept; it needs
`BestOutranks`, that a non-empty set of sentences has a best one, shown by
well-founded descent on the subsets of the text. `Twinless` weakens `NoTwins` for
the sentences not ranked for themselves; `ShapeInv` and `AntecedentInv` say what
the kept set consists of. `BudgetInv` carries two things through the loop: what has
been spent is the cost of what is kept, which the two additions of a turn only keep if
candidate and antecedent are new and distinct; and there is a kept sentence that
fitted the budget without what came with it (`LastFits`), the last one. The sum
itself is a fold over a set, for which `Induction` gives the recursion.
`PortsKeepWhatIsKept` sets the machine next to the loops of the ports, which run over a
list that was sorted beforehand: `Ranking` shows that this list names every sentence once
and the better one earlier, and `PortInv` that after as many candidates a port has kept
and spent what the machine has, so that all of them stop at the same one.

**`SelfLLM_proofs`**, for any number of messages and lists however deep
(`SelfAssumption`: a list has the members it says, and whatever there is is a member
of a list): `SelfTypes`, `FailureIsWhole`, `ResultIsFinal` and `PortsSendInTurn`.
`ClosedInv` ties the result of a closed message to the requests of its spans, which no
later answer to one of its siblings may disturb; `OrderInv` what is returned to what
became of the messages. `LoopInv` is the invariant of the ports' loops: what lies before
`at` is through, what lies behind it has not been sent, and what lies at it or within it
is as `ret` says; `PassedInv` says which messages are done by then. `InTurn` follows of
all these together, but is not inductive: nothing in it says where an error has come
from. That going on to the next member moves `at` past exactly what was within the last
one, and leaving a loop past nothing, is in the lemmas about paths (`MemberOrder`,
`SpanWithin`, `AroundOrder`).

**`Fetch_proofs`**, for any members, bodies and compression (`FetchAssumption`):
`AnswersStayIntact`, `SplicesAreSurgical` and `UpstreamsReadCompressed`. `DoorInv` says what has been answered by
when, that nobody but the caller reads a response, and that the clients' requests are
always intercepted; the lemmas before `AnswerNextInv` are one per group of actions.

`SpliceIsSurgical` speaks of the text alone, the scan of three counters; `ScanInv` ties
the two together. Its `ScanAt` says that `depth` is the surplus of opening over closing
brackets in what has been read (`DepthAt`), and that the scan has found nothing and
stands at or before the key of every list (`Before`), or has found exactly the span of
one that it has passed, with all others ahead (`Behind`), or has met a second one
(`GivenUp`). To say where that is, `WriteLayout` shows by
induction over the members that a written body has a `Layout`: places at which each
member begins and its value stands. Along a layout `DepthOfMembers` gives the depth
everywhere: one between members, more inside of a value. So a literal `messages` before
an array, at depth one, is the key of a member (`OnlyKeys`), whatever is nested and whatever
strings contain, and `findMatchingBracket` stops where that member does
(`BracketOfMember`, from the assumption that the values are JSON values). `WriteOther`
says that two bodies that differ in one value are the same text before and behind it,
which is what makes the splice of that span the other body; for the clients
`RebuildsOther` shows that writing their object anew gives the same. What the upstream
reads is `Reading`, which cuts a text at the commas of its depth: `ReadingIs` shows that
cutting a written body gives its members back, and `ReserializedIs` that this is so as
well after `JSON.stringify` has taken the white space out of their values.

**`Texts_proofs`**, for texts and values of any length over any alphabet:
`JsonIsMinified`, `TerminalEscapesGo`, `VariantsNormalizeAlike` and `CountsAdd`. `TextsAssumption` says what
a token of JSON is: a bracket, a string whose quotes are escaped but for the first and the
last, or something without white space, brackets and quotes; and that the escapes which are
strewn into a text are escapes of the grammar. What the scan of `minifyJsonWhitespace` makes of
a text is the relation `Yields`, which has one result for each text and goes along with
concatenation; a token moves the scan as it moves the list of tokens (`TokenStands`), and
so the scan of what is written stands where the tokens do (`JsonInv`, inductive). For
escapes, `StripAnsi` is a recursion from the end of the text (`DescentExists`,
`DescentOnce`); what stands before the first ESC stays (`PrefixStays`), what `EscapeEnd`
finds is an escape of the grammar and the only one that begins there (`CsiIs`, `OscIs`,
`EscapeIs`), and what is made of the rest is what is made of the rest alone
(`StripBehind`). For variants, line ends of two texts in a row are those of each unless a
CRLF is cut (`CrlfThen`), so `StripCrlf` undoes the CRLFs (`CrlfVariant`) and reaches into an
escape without reaching out of it; the one kind of escape that may hold a carriage
return, a payload, is a payload afterwards (`EscapeEnded`), and goes as a whole (`StrewnGoes`).
For the token estimate, a count is `Cheaper` than another when it costs no more however
either kind of run goes on: that the costs alone are compared is not inductive, since a run
already begun is extended for less than a new one costs. `Cheaper` survives a character
both counts go over, and one that only the dearer goes over (`CheaperWith`,
`CheaperWithout`), so a text whose characters are drawn from another in their order, a space
for a space, costs no more (`DrawnCosts`); each stage of `normalizeSpan` draws what it
leaves (`CrlfDraws`, `AnsiDraws`, `InvisibleDraws`, `CollapseDraws`, `MinifyDraws`). For a cut,
`Joined` relates the counts of both parts and of the whole at each character behind it:
either all are still in the run that was cut, or the runs are the same and the tokens
differ by what the cut has cost, which stays (`JoinedStep`).

Only model-checked: liveness (`EveryRequestEnds`, `ViewsCatchUp`,
`CompressionEnds`), which is out of the prover's reach; and of the texts
`BlankRunsOnly` and `SentencesSurvive`, which compare lists of
lines whose form is given by an operator, and filter by a predicate (`SelectSeq`), of
which the prover knows nothing.

## Not modelled

The marker lists and scores behind a sentence's and a text's fields, and the
serialization of tool arguments: vocabularies and arithmetic, constant functions
here. The property paths that `wrap` intercepts, URLs, headers and the carriers
of a body (bytes, `Request`). The SDK's transports and JSON-RPC framing, progress
notifications. Prompts and provider formats of SelfLLM. The configuration
plumbing of the middleware (factories, warnings, `active: false`). Command line,
records of statistics, benchmarks and parity tooling: no state and no
interaction.

## Plan

Done: expand store, proxy with restarts, session, pipeline over blocks,
conversation, sampling, algorithms on characters, extract, SelfLLM, fetch and the
clients; the Go and Rust pipelines, selections and request loops next to the
reference; the safety of the store, the proxy, the session, the conversation with its
ports, Extract with its ports, SelfLLM, `Fetch`, minifying, escapes, variants and the token estimate, and the store's
refinement proved.

1. Scoring of sentences and the marker tables, as functions on words, with the
   ports next to the reference.
2. An abstract specification of a compression (each message is kept, condensed
   or dropped as a repeat), with the three pipelines as its implementations.
