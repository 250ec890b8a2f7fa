------------------------------- MODULE SelfLLM -------------------------------
(***************************************************************************)
(* compressMessagesAsync with every message routed to SelfLLM              *)
(* (ts/src/compressors/selfllm.ts): one provider request per span of text, *)
(* all of them at once, each with a timer; Promise.all per message and     *)
(* over the messages; and what onError makes of a failure.  The Go and     *)
(* Rust ports (go/selfllm.go, rust/src/compressors/selfllm.rs) walk the    *)
(* same content in loops within loops, wait for each request where they    *)
(* stand, without a timer of their own, and return the first error.        *)
(*                                                                         *)
(* What is compressed is a tree: the list of messages, a message's list of *)
(* blocks, the list within a tool_result, and so on; its leaves are the    *)
(* spans: contents that are strings and blocks with a text.  Lists and     *)
(* spans are named by their path, the indices that lead to them.           *)
(*                                                                         *)
(* `call` follows the one request of a span: waiting for headers, for the  *)
(* JSON body or for the text of a refusal, then settled.                   *)
(***************************************************************************)
EXTENDS SequencesExt

CONSTANTS
  Width,      \* Width[p]: how many members the list at p has
  Spans,      \* the paths of the spans
  Guarded,    \* the spans that never reach the provider: short, structural...
  Modes       \* the implementations and options: [sending, onError]

Lists == DOMAIN Width
Paths == Lists \cup Spans
Messages == 1..Width[<<>>]

\* The members of a list are there, and whatever is there is a member of a
\* list that is there.
ASSUME SelfAssumption ==
  /\ Paths \subseteq Seq(Nat \ {0})
  /\ Lists \cap Spans = {} /\ <<>> \in Lists
  /\ Width \in [Lists -> Nat]
  /\ \A p \in Lists : \A n \in 1..Width[p] : Append(p, n) \in Paths
  /\ \A p \in Paths : \A n \in 0..(Len(p) - 1) :
       SubSeq(p, 1, n) \in Lists /\ p[n + 1] <= Width[SubSeq(p, 1, n)]
  /\ Guarded \subseteq Spans
  /\ Modes \subseteq [sending : {"together"}, onError : {"fallback", "throw"}]
                     \cup [sending : {"inTurn"}, onError : {"throw"}]

VARIABLES
  mode,      \* which implementation this is, with which onError
  call,      \* call[s]: how far the request of span s is
  message,   \* message[m]: what became of compressAsync([m])
  result,    \* result[s]: the span in the message m resolved to
  outcome,   \* what compressMessagesAsync, or Compress of a port, returned
  at,        \* the ports: where the loops are, one index per loop
  ret        \* the ports: what the call at that place returned, if it has

walkVars == <<at, ret>>
selfVars == <<mode, call, message, result, outcome, walkVars>>

InFlight == {"headers", "body", "refusal"}
Settled == {"summary", "original", "rejected"}
Through == {"summary", "original"}
SpansOf(m) == {s \in Spans : s[1] = m}

SelfInit ==
  /\ mode \in Modes
  /\ call = [s \in Spans |-> "idle"]
  /\ message = [m \in Messages |-> "pending"]
  /\ result = [s \in Spans |-> "original"]
  /\ outcome = "idle"
  /\ at = <<>> /\ ret = "none"

\* Up to its first await every span is handled in one go: all the requests
\* are sent before the first answer.  A port enters its outermost loop.
Start ==
  /\ outcome = "idle"
  /\ outcome' = "pending"
  /\ call' = IF mode.sending = "together"
             THEN [s \in Spans |-> IF s \in Guarded THEN "original" ELSE "headers"]
             ELSE call
  /\ UNCHANGED <<mode, message, result, walkVars>>

-----------------------------------------------------------------------------
(* The requests.                                                            *)

\* (mutant) The span is rewritten in place.
SettleInPlace(s, v) ==
  /\ call' = [call EXCEPT ![s] = v]
  /\ result' = [result EXCEPT ![s] = IF v = "summary" THEN v ELSE @]
  /\ UNCHANGED <<mode, message, outcome, walkVars>>

Settle(s, v) ==
  /\ call' = [call EXCEPT ![s] = v]
  /\ UNCHANGED <<mode, message, result, outcome, walkVars>>

Headers(s) ==
  /\ call[s] = "headers"
  /\ \/ Settle(s, "body")
     \/ Settle(s, "refusal")

\* A summary is taken when it is neither empty nor longer than the text; a
\* body that is not JSON rejects.
Body(s) ==
  /\ call[s] = "body"
  /\ \/ Settle(s, "summary")
     \/ Settle(s, "original")
     \/ Settle(s, "rejected")

\* The text of a refusal, or the failure to read it, makes the error.
Refusal(s) == call[s] = "refusal" /\ Settle(s, "rejected")

NetworkError(s) == call[s] \in {"headers", "body"} /\ Settle(s, "rejected")

\* (mutant) The timer is cleared once the headers are there.
RunningBeforeHeaders(s) == call[s] = "headers"

\* The timer runs until the body has been read.
TimerRunning(s) == call[s] \in InFlight

Timer(s) == mode.sending = "together" /\ TimerRunning(s) /\ Settle(s, "rejected")

-----------------------------------------------------------------------------
(* The promises over them.                                                  *)

Close(m, how, spans) ==
  /\ message' = [message EXCEPT ![m] = how]
  /\ result' = [s \in Spans |-> IF s \in SpansOf(m) THEN spans[s] ELSE result[s]]

Pending(m) ==
  mode.sending = "together" /\ outcome # "idle" /\ message[m] = "pending"

\* Promise.all over the spans resolves.
Resolve(m) ==
  /\ Pending(m)
  /\ \A s \in SpansOf(m) : call[s] \in Through
  /\ Close(m, "done", call)
  /\ UNCHANGED <<mode, call, outcome, walkVars>>

\* (mutant) The summaries that are there are kept.
FallBackPartly(m) ==
  Close(m, "fallback",
        [s \in Spans |-> IF call[s] = "summary" THEN "summary" ELSE "original"])

FallBack(m) == Close(m, "fallback", [s \in Spans |-> "original"])

\* Promise.all rejects with the first rejection; its siblings stay in flight.
Reject(m) ==
  /\ Pending(m)
  /\ \E s \in SpansOf(m) : call[s] = "rejected"
  /\ IF mode.onError = "throw"
     THEN message' = [message EXCEPT ![m] = "rejected"] /\ UNCHANGED result
     ELSE FallBack(m)
  /\ UNCHANGED <<mode, call, outcome, walkVars>>

Finish ==
  /\ mode.sending = "together" /\ outcome = "pending"
  /\ \/ /\ \A m \in Messages : message[m] \in {"done", "fallback"}
        /\ outcome' = "resolved"
     \/ /\ \E m \in Messages : message[m] = "rejected"
        /\ outcome' = "rejected"
  /\ UNCHANGED <<mode, call, message, result, walkVars>>

-----------------------------------------------------------------------------
(* The loops of the ports: over the messages, over the blocks of each, over *)
(* what is within a tool result.                                            *)

Walking(r) == mode.sending = "inTurn" /\ outcome = "pending" /\ ret = r

EnterLoop ==
  /\ Walking("none") /\ at \in Lists
  /\ IF Width[at] = 0
     THEN ret' = "ok" /\ UNCHANGED at
     ELSE at' = Append(at, 1) /\ UNCHANGED ret
  /\ UNCHANGED <<mode, call, message, result, outcome>>

\* A guarded span is returned as it is, any other is sent and waited for.
SummarizeText ==
  /\ Walking("none") /\ at \in Spans /\ call[at] = "idle"
  /\ call' = [call EXCEPT ![at] = IF at \in Guarded THEN "original" ELSE "headers"]
  /\ UNCHANGED <<mode, message, result, outcome, walkVars>>

ReturnSpan ==
  /\ Walking("none") /\ at \in Spans /\ call[at] \in Settled
  /\ ret' = IF call[at] = "rejected" THEN "error" ELSE "ok"
  /\ UNCHANGED <<mode, call, message, result, outcome, at>>

\* What a member became is appended to the output; the loop goes on with the
\* next one, or ends and returns to the loop around it.
NextMember ==
  /\ Walking("ok") /\ at # <<>>
  /\ LET list == Front(at)
     IN  IF Last(at) < Width[list]
         THEN at' = Append(list, Last(at) + 1) /\ ret' = "none"
         ELSE at' = list /\ UNCHANGED ret
  /\ IF Len(at) = 1 THEN Close(at[1], "done", call) ELSE UNCHANGED <<message, result>>
  /\ UNCHANGED <<mode, call, outcome>>

\* (mutant) The loop within a tool result keeps the member that failed and
\* goes on.
KeepFailedMember ==
  /\ Walking("error") /\ at # <<>>
  /\ IF Len(at) = 3 THEN ret' = "ok" /\ UNCHANGED at ELSE at' = Front(at) /\ UNCHANGED ret
  /\ UNCHANGED <<mode, call, message, result, outcome>>

\* if err != nil { return nil, ..., err }, in each of the loops.
LeaveLoop ==
  /\ Walking("error") /\ at # <<>>
  /\ at' = Front(at)
  /\ UNCHANGED <<mode, call, message, result, outcome, ret>>

Return ==
  /\ at = <<>>
  /\ \/ Walking("ok") /\ outcome' = "resolved"
     \/ Walking("error") /\ outcome' = "rejected"
  /\ UNCHANGED <<mode, call, message, result, walkVars>>

-----------------------------------------------------------------------------

SelfNext ==
  \/ Start
  \/ \E s \in Spans : Headers(s) \/ Body(s) \/ Refusal(s) \/ NetworkError(s) \/ Timer(s)
  \/ \E m \in Messages : Resolve(m) \/ Reject(m)
  \/ Finish
  \/ EnterLoop \/ SummarizeText \/ ReturnSpan \/ NextMember \/ LeaveLoop \/ Return

SelfSpec == SelfInit /\ [][SelfNext]_selfVars

\* Timers run off and the event loop goes on; nothing is assumed of the
\* provider or the network.
SelfFairness ==
  /\ \A s \in Spans : WF_selfVars(Timer(s))
  /\ \A m \in Messages : WF_selfVars(Resolve(m)) /\ WF_selfVars(Reject(m))
  /\ WF_selfVars(Finish)

FairSelfSpec == SelfSpec /\ SelfFairness

-----------------------------------------------------------------------------

SelfTypeOK ==
  /\ mode \in Modes
  /\ call \in [Spans -> {"idle"} \cup InFlight \cup Settled]
  /\ message \in [Messages -> {"pending", "done", "fallback", "rejected"}]
  /\ result \in [Spans -> {"summary", "original"}]
  /\ outcome \in {"idle", "pending", "resolved", "rejected"}
  /\ at \in Paths /\ ret \in {"none", "ok", "error"}

\* CONFIG.md: on an error the original message comes out unchanged -- all of
\* it, and also when a sibling of the failed span answers later; a message
\* that did not fail comes out with all of its summaries.  The ports, which
\* return the error, come out with what every span has become.
FallbackIsWhole ==
  outcome = "resolved" =>
    \A m \in Messages :
      LET failed == \E s \in SpansOf(m) : call[s] = "rejected"
      IN  \/ failed /\ \A s \in SpansOf(m) : result[s] = "original"
          \/ ~failed /\ \A s \in SpansOf(m) : result[s] = call[s]

\* What has been handed to the caller is never written again, whatever is
\* still in flight.
NoLateWrites == [][outcome = "resolved" => result' = result]_selfVars

\* The order in which the text is read.
Earlier(s, t) ==
  \E n \in 1..Len(s) :
    n <= Len(t) /\ s[n] < t[n] /\ \A k \in 1..(n - 1) : s[k] = t[k]

\* The ports have one request in flight at a time, in the order of the text,
\* and pay for none after an error, however deep within the loops it happens.
InTurn ==
  mode.sending = "inTurn" =>
    \A s, t \in Spans : Earlier(s, t) /\ call[t] # "idle" => call[s] \in Through

\* The request ends whatever the provider does -- with the timers of the
\* reference; the ports leave them to the HTTP client they are given.
CompressionEnds ==
  outcome = "pending" /\ mode.sending = "together" ~> outcome \in {"resolved", "rejected"}
=============================================================================
