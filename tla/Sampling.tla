----------------------------- MODULE Sampling -----------------------------
(***************************************************************************)
(* sampling/createMessage through the proxy: compressSamplingMessages      *)
(* (mcp-proxy/src/compress.ts) wraps each message's one content block in   *)
(* an array, runs the middleware over the list, and unwraps the blocks     *)
(* into the original messages -- by position.  What an upstream server     *)
(* sends is here the conversation: those of its messages that hold a       *)
(* single block and no tool linkage.                                       *)
(***************************************************************************)
EXTENDS Conversation

\* The request's messages, wrapped.
Wrap(ms) ==
  LET IsSingle(m) == Len(m.blocks) = 1 /\ ~Linked(m) /\ m.role # "system"
      single == Select(ms, {i \in 1..Len(ms) : IsSingle(ms[i])})
  IN  [i \in 1..Len(single) |-> [single[i] EXCEPT !.at = i]]

\* The i-th compressed block goes into the i-th message.
Unwrap(ms, out) == [i \in 1..Len(out) |-> [out[i] EXCEPT !.role = ms[i].role]]

CompressSampling(ms) == Unwrap(ms, CompressMessages(ms).messages)

-----------------------------------------------------------------------------

\* When no text repeats, every message keeps its place, its role and its own
\* content; images without text are no repeats of each other.
DistinctKeepPlaces ==
  LET request == Wrap(conv)
      relayed == CompressSampling(request)
      Distinct(m, n) ==
        m.at = n.at \/ m.role # n.role \/ Said(m) = <<>> \/ Said(Normalize(m)) # Said(Normalize(n))
  IN  (\A m, n \in ToSet(request) : Distinct(m, n)) =>
        /\ Len(relayed) = Len(request)
        /\ \A i \in 1..Len(relayed) : relayed[i].at = i /\ relayed[i].role = request[i].role

\* The comment in proxy.ts: only the text of a block is ever rewritten in
\* place -- nobody's words are put into another's mouth.
RolesMatch ==
  LET request == Wrap(conv)
      relayed == CompressSampling(request)
  IN  \A k \in 1..Len(relayed) : relayed[k].role = request[relayed[k].at].role
=============================================================================
