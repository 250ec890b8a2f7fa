------------------------------ MODULE MCFetch ------------------------------
(* Bodies of up to three members: two lists of messages with brackets in     *)
(* their strings and arrays in their blocks, fields called messages that are *)
(* no list or not the body's own, an integer beyond 2^53 and the stream flag.*)
EXTENDS Fetch

List(tokens) == <<OpenBracket>> \o tokens \o <<CloseBracket>>
Object(tokens) == <<OpenBrace>> \o tokens \o <<CloseBrace>>
Field(key, value) == <<Literal(key), Colon>> \o value

MCShort == List(Object(Field("content", <<Literal("]")>>)))
MCLong == List(Object(Field("content", List(<<Literal("[")>>))) \o <<Comma, Space>>
               \o Object(Field("messages", List(<<>>))))
MCGist == List(Object(Field("content", <<Literal("[ ... ]")>>)))

MCCondense ==
  [v \in {MCShort, Dense(MCLong)} |-> IF v = MCShort THEN MCShort ELSE MCGist]
MCRounded == [w \in {"2^53+1", "2^53", "true", "null"} |-> IF w = "2^53+1" THEN "2^53" ELSE w]

Member(key, value) == [key |-> key, value |-> value]

MCMembers ==
  {Member("messages", MCShort), Member("messages", MCLong),
   Member("messages", <<Word("null")>>), Member("messages", <<Literal("messages")>>),
   Member("metadata", Object(Field("messages", MCShort))),
   Member("metadata", <<Literal("messages")>>),
   Member("metadata", List(<<Word("2^53+1"), Comma, Space, Literal("}")>>)),
   Member("stream", <<Word("true")>>)}
=============================================================================
