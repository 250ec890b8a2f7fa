------------------------------ MODULE MCSelfLLM ------------------------------
(* Two messages: a text and a tool result that holds a list of two texts;   *)
(* a structural text, an empty tool result and a text.                      *)
EXTENDS SelfLLM

MCWidth == <<>> :> 2 @@ <<1>> :> 2 @@ <<1, 2>> :> 2 @@ <<2>> :> 3 @@ <<2, 2>> :> 0
MCSpans == {<<1, 1>>, <<1, 2, 1>>, <<1, 2, 2>>, <<2, 1>>, <<2, 3>>}
MCGuarded == {<<2, 1>>}
MCModes ==
  {[sending |-> "together", onError |-> "fallback"],
   [sending |-> "together", onError |-> "throw"],
   [sending |-> "inTurn", onError |-> "throw"]}
=============================================================================
