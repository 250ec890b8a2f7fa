-------------------------- MODULE MCConversation --------------------------
(* A system prompt that normalizing would change; prose and its CRLF        *)
(* variant; a question short enough to survive; two questions of the same   *)
(* words about two pictures; a call in Anthropic's blocks, whose failed     *)
(* result holds a picture and is followed by a question, and in OpenAI's    *)
(* fields, answered by records; an error whose mark an invisible character  *)
(* hides; two blocks that are code only together, and a document; and what  *)
(* these are condensed to.                                                  *)
EXTENDS Ports, Sampling

CONSTANTS prompt, tidyPrompt, prose, proseCrlf, gist, question, error, oops, hidden,
          records, spacedRecords, call, line, empty, placeholder, image1, image2

MCText == {prompt, tidyPrompt, prose, proseCrlf, gist, question, error, oops, hidden,
           records, spacedRecords, call, line, empty, placeholder}
MCCodeLines == [t \in MCText |-> IF t = line THEN 1 ELSE 0]
MCHundreds == [t \in MCText |-> IF t \in {prose, proseCrlf, records, spacedRecords} THEN 2 ELSE 0]
MCKeys == [t \in MCText |-> IF t \in {records, spacedRecords} THEN 3 ELSE 0]
MCPlain == [t \in MCText |-> IF t = proseCrlf THEN prose ELSE t]
MCTidied == [t \in MCText |->
               CASE t = prompt -> tidyPrompt [] t = hidden -> oops [] OTHER -> t]
MCMinified == [t \in MCText |-> IF t = spacedRecords THEN records ELSE t]
MCExtracted == [t \in MCText |->
                  IF t \in {prose, proseCrlf, call, error, line, records} THEN gist ELSE t]
MCTokens == [t \in MCText |->
               CASE t = error -> 6 [] t = empty -> 0
                 [] t \in {prose, proseCrlf, spacedRecords} -> 4
                 [] t = placeholder -> 2 [] OTHER -> 1]

Of(kind, id, text) == [kind |-> kind, of |-> id, text |-> text]
Message(role, call1, blocks) == [role |-> role, call |-> call1, blocks |-> blocks]
Says(role, text) == Message(role, 0, <<Of("text", 0, text)>>)
Picture(image, id) == Of(image, id, empty)

MCMessages ==
  {Says("system", prompt), Says("user", prose), Says("user", proseCrlf),
   Says("user", question), Says("assistant", prose), Says("assistant", question),
   Message("user", 0, <<Picture(image1, 0)>>),
   Message("assistant", 0, <<Of("text", 0, line), Of("text", 0, line)>>),
   Message("user", 0, <<Of("document", 0, prose), Of("text", 0, prose)>>),
   Message("assistant", 0, <<Of("text", 0, prose), Of("use", 1, call)>>),
   Message("user", 0, <<Of("text", 1, error), Picture(image1, 1), Of("text", 0, prose)>>),
   Message("user", 0, <<Of("text", 1, hidden)>>),
   Message("assistant", 2, <<Of("text", 0, empty)>>),
   Message("tool", 2, <<Of("text", 0, spacedRecords)>>),
   Message("tool", 2, <<Of("text", 0, oops)>>)}

\* Two questions of the same words about two pictures.
MCPictures ==
  {Message("user", 0, <<Of("text", 0, question), Picture(image1, 0)>>),
   Message("user", 0, <<Of("text", 0, question), Picture(image2, 0)>>),
   Says("assistant", prose)}
=============================================================================
