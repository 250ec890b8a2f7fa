--------------------------- MODULE Conversation ---------------------------
(***************************************************************************)
(* A conversation in front of the middleware, as the wrapped clients       *)
(* (openai.ts, anthropic.ts, fetch.ts) see it: the history grows by one    *)
(* message at a time and the whole of it goes through compressMessages     *)
(* whenever the model is asked.                                            *)
(***************************************************************************)
EXTENDS Middleware

CONSTANTS
  Messages,    \* the messages that may be said, without `at`
  Images,      \* the images; a block that is one has it for its kind
  MaxLength    \* bound of the model: messages in a conversation

Role == {"system", "user", "assistant", "tool"}
Block == [kind : {"text", "use", "document"} \cup Images, of : Nat, text : Text]

ASSUME ConversationAssumption ==
  /\ Messages \subseteq [role : Role, blocks : Seq(Block), call : Nat]
  /\ MaxLength \in Nat \ {0}

VARIABLES
  conv,   \* the history
  sent,   \* the result of compressing it, when the model was last asked
  past    \* the result before that one

conversationVars == <<conv, sent, past>>

Unsent == [messages |-> <<>>, inputTokens |-> 0, outputTokens |-> 0]

ConversationInit == conv = <<>> /\ sent = Unsent /\ past = Unsent

Stamped(m) ==
  [role |-> m.role, blocks |-> m.blocks, call |-> m.call, at |-> Len(conv) + 1]

Ids(m) == ({m.call} \cup {m.blocks[i].of : i \in 1..Len(m.blocks)}) \ {0}
LastRole == IF conv = <<>> THEN "none" ELSE conv[Len(conv)].role
LastIds == IF conv = <<>> THEN {} ELSE Ids(conv[Len(conv)])

\* A message that the model is asked with.
IsAsking(role) == role \in {"user", "tool"}

System(m) ==
  /\ m.role = "system" /\ conv = <<>>
  /\ conv' = <<Stamped(m)>>
  /\ UNCHANGED <<sent, past>>

\* The user, or the tool that was called, speaks and the model is asked.
Ask(m) ==
  /\ IsAsking(m.role) /\ ~IsAsking(LastRole) /\ Ids(m) = LastIds
  /\ Len(conv) < MaxLength
  /\ conv' = Append(conv, Stamped(m))
  /\ sent' = CompressMessages(conv')
  /\ past' = sent

Reply(m) ==
  /\ m.role = "assistant" /\ IsAsking(LastRole)
  /\ Len(conv) < MaxLength
  /\ conv' = Append(conv, Stamped(m))
  /\ UNCHANGED <<sent, past>>

ConversationNext == \E m \in Messages : System(m) \/ Ask(m) \/ Reply(m)

ConversationSpec == ConversationInit /\ [][ConversationNext]_conversationVars

-----------------------------------------------------------------------------

\* The part of the history that was compressed: all but a reply after it.
Asked ==
  IF sent = Unsent THEN <<>>
  ELSE SubSeq(conv, 1, IF IsAsking(LastRole) THEN Len(conv) ELSE Len(conv) - 1)
Out == sent.messages

Shape(m) == [i \in DOMAIN m.blocks |-> <<m.blocks[i].kind, m.blocks[i].of>>]

\* Whatever is rewritten, a message keeps its role and its blocks, with their
\* kinds and ids and in their order; only the text of text blocks and tool
\* results ever changes, and nothing of a system message, which is always sent.
BlocksIntact ==
  /\ \A i \in 1..Len(Asked) :
       Asked[i].role = "system" => \E k \in 1..Len(Out) : Out[k] = Asked[i]
  /\ \A k \in 1..Len(Out) :
       LET before == conv[Out[k].at]
       IN  /\ Out[k].role = before.role /\ Shape(Out[k]) = Shape(before)
           /\ before.role = "system" => Out[k] = before
           /\ \A i \in DOMAIN before.blocks :
                before.blocks[i].kind # "text" => Out[k].blocks[i] = before.blocks[i]

\* No tool call loses its result, no result its call, and they stay in order.
NothingOrphaned ==
  /\ \A k, n \in 1..Len(Out) : k < n => Out[k].at < Out[n].at
  /\ \A i \in 1..Len(Asked) : Ids(Asked[i]) # {} =>
       \E k \in 1..Len(Out) : Out[k].at = i /\ Ids(Out[k]) = Ids(Asked[i])

\* A message that is dropped repeats, normalized, an earlier one of the same
\* role that is not dropped.  Its words are sent in that one's place, unless
\* that one is prose outside of the protected turns or a failure older than
\* afterTurns messages: then they are sent nowhere, though the dropped message
\* may be the live question.
DroppedIsRepeat ==
  \A i \in 1..Len(Asked) :
    \/ \E k \in 1..Len(Out) : Out[k].at = i
    \/ \E j \in 1..(i - 1), k \in 1..Len(Out) :
         LET normal == Normalize(Asked[j])
         IN  /\ Asked[j].role = Asked[i].role
             /\ Said(normal) = Said(Normalize(Asked[i]))
             /\ Out[k].at = j
             /\ \/ Said(Out[k]) = Said(normal)
                \/ Classify(normal) = "prose" /\ k <= Len(Out) - LastTurns
                \/ Classify(normal) = "error" /\ k <= Len(Out) - AfterTurns

\* A text that was changed beyond its normal form belonged to a message of
\* prose outside of the protected turns, or to a failure older than afterTurns
\* messages: the error itself, or what beside it reads as prose once it is gone.
OnlyProseIsCondensed ==
  \A k \in 1..Len(Out) :
    LET before == conv[Out[k].at]
        normal == Normalize(before)
    IN  \A i \in DOMAIN before.blocks :
          Out[k].blocks[i].text \notin {before.blocks[i].text, normal.blocks[i].text} =>
            \/ Classify(normal) = "prose" /\ k <= Len(Out) - LastTurns
            \/ /\ Classify(normal) = "error" /\ k <= Len(Out) - AfterTurns
               /\ \/ normal.blocks[i].text \in Erred
                  \/ Classify(PurgeBlocks(normal)) = "prose" /\ k <= Len(Out) - LastTurns

\* README on prompt caching: what lay outside of the protected turns keeps its
\* bytes and its place in every later request, once the threshold is passed;
\* only a failure still changes, when it is purged and what it leaves is
\* condensed.
SamePrefix ==
  \A k \in 1..(Len(sent.messages) - LastTurns) :
    LET old == sent.messages[k]
    IN  /\ k <= Len(sent'.messages)
        /\ \/ sent'.messages[k] = old
           \/ /\ Classify(old) = "error"
              /\ sent'.messages[k] \in {PurgeBlocks(old), Extract(PurgeBlocks(old))}

StablePrefix ==
  [][sent' # sent /\ sent.inputTokens >= Threshold => SamePrefix]_conversationVars

\* README: image blocks pass through verbatim -- those of a message whose words
\* were said before as well.
ImagesAreSent ==
  \A i \in 1..Len(Asked) : \A n \in DOMAIN Asked[i].blocks :
    Asked[i].blocks[n].kind \in Images =>
      \E k \in 1..Len(Out) : Asked[i].blocks[n] \in ToSet(Out[k].blocks)
=============================================================================
