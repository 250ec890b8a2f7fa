------------------------------- MODULE Ports -------------------------------
(***************************************************************************)
(* The three implementations on the same conversations.  README and        *)
(* docs/parity-spec.md promise byte-identical output of all of them.       *)
(***************************************************************************)
EXTENDS Conversation, GoPipeline, RustPipeline

\* What all three can be told -- zero is no value in Go -- and count.
ASSUME PortsAssumption ==
  /\ Threshold # 0 /\ AfterTurns # 0
  /\ Usize \in Nat /\ MaxLength < Usize

\* Whatever the conversation, both ports send the messages and report the
\* counts of the reference.
PortsSendTheSame ==
  IsAsking(LastRole) => GoCompressMessages(conv) = sent /\ RustCompressMessages(conv) = sent
=============================================================================
