---------------------------- MODULE RouterEngine ----------------------------
(***************************************************************************)
(* One request of the data API on its way through the router: the engine's *)
(* loop over the destinations of a snapshot (Run and RunStream), the       *)
(* adapter's call of one upstream, the relay of an event stream, and what  *)
(* the handler records and answers.  The client may leave, the attempt and *)
(* the total deadline may pass, and the transport's own goroutine may make *)
(* progress between any two steps of the handler.                          *)
(*                                                                         *)
(* A write to the client is a state of its own: it lasts as long as the    *)
(* client does not read, for no context interrupts it and the server sets  *)
(* no write timeout.  It ends in success, in an error, or in an error that *)
(* the code drops (Flush returns none, and the handler ignores Write's).   *)
(*                                                                         *)
(* Destinations are numbered in the order of the strategy.                 *)
(***************************************************************************)
EXTENDS Naturals, Sequences

CONSTANTS
    N,             \* destinations of the route's strategy
    MaxAttempts,   \* its maxAttempts
    None

\* Load refuses a strategy without destinations or attempts.
ASSUME RouterAssumption ==
    /\ N \in Nat \ {0} /\ MaxAttempts \in Nat \ {0}
    /\ None \notin Nat

Destination == 1..N

VARIABLES
    stream,          \* the request asks for an event stream
    excluded,        \* destinations with an exclusion reason in the snapshot
    pc,
    current,         \* destination of the attempt under way, or of the last one
    ret,             \* what the adapter or the relay returned
    attempts,        \* concluded attempts, in order
    gone,            \* the request's context has ended: the client left
    expired,         \* the total deadline has passed
    attemptExpired,  \* the deadline of the attempt under way has passed
    wire,            \* what of the request reached each upstream
    wrote,           \* destinations whose WroteRequest hook ran before Do returned
    responded,       \* destinations that sent a response header
    committed,       \* relay.Committed
    code,            \* how the run ended: success or a RunError code
    recorded,        \* the completion stored for the request
    lost,            \* a write to the client failed and the error was dropped
    source, answer   \* the client's side: see ClientAnswer

input    == <<stream, excluded>>
contexts == <<gone, expired>>
upstream == <<wire, wrote, responded>>
client   == <<lost, source, answer>>
vars == <<input, pc, current, ret, attempts, contexts, attemptExpired, upstream,
          committed, code, recorded, client>>

Statuses == {"rate_limited", "transient", "rejected"}   \* 429; 500, 502-504; other
Returns  == Statuses \cup {"local", "pre_send", "post_send", "read_response",
                           "invalid", "ok", "relay_ok", "relay_context", "relay_error"}
Outcomes == {"success", "error", "partial", "cancelled", "indeterminate"}
Codes    == {"success", "no_eligible_destination", "request_cancelled", "total_timeout",
             "stream_interrupted", "indeterminate_upstream", "fallback_exhausted",
             "upstream_failure"}   \* a code of the adapter, or provider_error
HTTPStatus == {200, 422, 429, 499, 502, 503, 504}

TypeOK ==
    /\ stream \in BOOLEAN /\ excluded \in SUBSET Destination
    /\ pc \in {"Loop", "Execute", "Relay", "WriteEvent", "WriteDone", "Returned", "Complete",
               "Respond", "Done"}
    /\ current \in Destination \cup {None} /\ ret \in Returns \cup {None}
    /\ attempts \in Seq([dest : Destination, result : Returns, outcome : Outcomes])
    /\ Len(attempts) <= MaxAttempts
    /\ gone \in BOOLEAN /\ expired \in BOOLEAN /\ attemptExpired \in BOOLEAN
    /\ wire \in [Destination -> {"none", "sending", "sent"}]
    /\ wrote \in SUBSET Destination /\ responded \in SUBSET Destination
    /\ committed \in BOOLEAN
    /\ code \in Codes \cup {None}
    /\ recorded \in [outcome : Outcomes, status : HTTPStatus] \cup {None}
    /\ lost \in BOOLEAN /\ source \in Destination \cup {None}
    /\ answer \in {"none", "streaming", "whole", "cut", "failed", "silent"}

\* A snapshot has been loaded and the request row inserted.
Init ==
    /\ stream \in BOOLEAN /\ excluded \in SUBSET Destination
    /\ pc = "Loop" /\ current = None /\ ret = None /\ attempts = <<>>
    /\ gone = FALSE /\ expired = FALSE /\ attemptExpired = FALSE
    /\ wire = [d \in Destination |-> "none"] /\ wrote = {} /\ responded = {}
    /\ committed = FALSE /\ code = None /\ recorded = None
    /\ lost = FALSE /\ source = None /\ answer = "none"

Eligible  == Destination \ excluded
Tried     == {attempts[i].dest : i \in 1..Len(attempts)}
Remaining == Eligible \ Tried

\* eligible[index]: the first eligible destination not tried yet.
NextDestination == CHOOSE d \in Remaining : \A e \in Remaining : d <= e

----------------------------------------------------------------------------
(* The loop                                                                *)

Finish(c) == pc' = "Complete" /\ code' = c

NoEligible ==
    /\ pc = "Loop"
    /\ Eligible = {}
    /\ Finish("no_eligible_destination")
    /\ UNCHANGED <<input, current, ret, attempts, contexts, attemptExpired, upstream,
                   committed, recorded, client>>

\* terminalContextError
ContextEnded ==
    /\ pc = "Loop"
    /\ Eligible # {}
    /\ gone \/ expired
    /\ Finish(IF gone THEN "request_cancelled" ELSE "total_timeout")
    /\ UNCHANGED <<input, current, ret, attempts, contexts, attemptExpired, upstream,
                   committed, recorded, client>>

BeginAttempt ==
    /\ pc = "Loop"
    /\ Remaining # {}
    /\ ~gone /\ ~expired
    /\ current' = NextDestination
    /\ attemptExpired' = FALSE
    /\ pc' = "Execute"
    /\ UNCHANGED <<input, ret, attempts, contexts, upstream, committed, code, recorded, client>>

----------------------------------------------------------------------------
(* The adapter: Execute and OpenStream                                     *)

Return(r) ==
    /\ ret' = r
    /\ pc' = "Returned"
    /\ UNCHANGED <<input, current, attempts, contexts, attemptExpired, code, recorded>>

\* Destination, credential or encoding refused before the client is called.
LocalFailure ==
    /\ pc = "Execute"
    /\ wire[current] = "none"
    /\ Return("local")
    /\ UNCHANGED <<upstream, committed, client>>

\* The transport's goroutine: bytes go out, all of them are out, and only then
\* does the WroteRequest hook set the variable that Do's caller reads.
Transmit(s) ==
    /\ pc = "Execute"
    /\ wire[current] = IF s = "sending" THEN "none" ELSE "sending"
    /\ wire' = [wire EXCEPT ![current] = s]
    /\ UNCHANGED <<input, pc, current, ret, attempts, contexts, attemptExpired, wrote,
                   responded, committed, code, recorded, client>>

WroteRequest ==
    /\ pc = "Execute"
    /\ wire[current] # "none" /\ current \notin wrote
    /\ wrote' = wrote \cup {current}
    /\ UNCHANGED <<input, pc, current, ret, attempts, contexts, attemptExpired, wire,
                   responded, committed, code, recorded, client>>

\* client.Do returns an error: a network failure, or a context that ended.
DoFails ==
    /\ pc = "Execute"
    /\ Return(IF current \in wrote THEN "post_send" ELSE "pre_send")
    /\ UNCHANGED <<upstream, committed, client>>

\* A response header, and for a plain request its body.
Responds(r) ==
    /\ pc = "Execute"
    /\ wire[current] # "none"
    /\ r \in Statuses \cup {"invalid"} \cup (IF stream THEN {} ELSE {"ok", "read_response"})
    /\ responded' = responded \cup {current}
    /\ Return(r)
    /\ UNCHANGED <<wire, wrote, committed, client>>

OpenStream ==
    /\ pc = "Execute" /\ stream
    /\ wire[current] # "none"
    /\ responded' = responded \cup {current}
    /\ pc' = "Relay"
    /\ UNCHANGED <<input, current, ret, attempts, contexts, attemptExpired, wire, wrote,
                   committed, code, recorded, client>>

----------------------------------------------------------------------------
(* RelayChatCompletions                                                    *)

AttemptContextDone == gone \/ expired \/ attemptExpired

\* A valid chunk; the first one commits the response.  Its write begins.
RelayChunk ==
    /\ pc = "Relay" /\ ~AttemptContextDone
    /\ committed' = TRUE
    /\ source' = current /\ answer' = "streaming"
    /\ pc' = "WriteEvent"
    /\ UNCHANGED <<input, current, ret, attempts, contexts, attemptExpired, upstream, code,
                   recorded, lost>>

\* [DONE] after at least one chunk.
RelayDone ==
    /\ pc = "Relay" /\ ~AttemptContextDone
    /\ committed
    /\ pc' = "WriteDone"
    /\ UNCHANGED <<input, current, ret, attempts, contexts, attemptExpired, upstream, committed,
                   code, recorded, client>>

\* writeChatFrame returns: Write took the event, and what Flush met is not known.
EventWritten(dropped) ==
    /\ pc = "WriteEvent"
    /\ lost' = (lost \/ dropped)
    /\ pc' = "Relay"
    /\ UNCHANGED <<input, current, ret, attempts, contexts, attemptExpired, upstream, committed,
                   code, recorded, source, answer>>

\* The relay succeeds, whatever the contexts have become meanwhile.
DoneWritten(dropped) ==
    /\ pc = "WriteDone"
    /\ lost' = (lost \/ dropped)
    /\ answer' = IF lost' THEN "cut" ELSE "whole"
    /\ Return("relay_ok")
    /\ UNCHANGED <<upstream, committed, source>>

\* The write of a frame returns an error.
WriteFails ==
    /\ pc \in {"WriteEvent", "WriteDone"}
    /\ Return("relay_error")
    /\ UNCHANGED <<upstream, committed, client>>

\* End of file, a read error, an invalid event, or [DONE] before any chunk.
RelayBreaks ==
    /\ pc = "Relay" /\ ~AttemptContextDone
    /\ Return("relay_error")
    /\ UNCHANGED <<upstream, committed, client>>

\* Mutant: the relay watches the client but not the deadlines.
RelayIgnoresDeadline ==
    /\ pc = "Relay" /\ gone
    /\ Return("relay_context")
    /\ UNCHANGED <<upstream, committed, client>>

RelayContextEnds ==
    /\ pc = "Relay" /\ AttemptContextDone
    /\ Return("relay_context")
    /\ UNCHANGED <<upstream, committed, client>>

----------------------------------------------------------------------------
(* What an attempt's end leads to                                          *)

Conclude(o) ==
    /\ attempts' = Append(attempts, [dest |-> current, result |-> ret, outcome |-> o])
    /\ UNCHANGED <<input, current, ret, expired, attemptExpired, upstream, committed,
                   recorded, client>>

\* A valid answer is returned whatever the contexts have become.
Succeed ==
    /\ pc = "Returned" /\ ret \in {"ok", "relay_ok"}
    /\ Conclude("success")
    /\ Finish("success")
    /\ UNCHANGED gone

Interrupted ==
    /\ pc = "Returned" /\ ret \in {"relay_error", "relay_context"} /\ committed
    /\ Conclude(IF gone THEN "cancelled" ELSE "partial")
    /\ Finish(IF gone THEN "request_cancelled" ELSE "stream_interrupted")
    /\ UNCHANGED gone

\* A context ended before the first chunk.
StreamAborted ==
    /\ pc = "Returned" /\ ret = "relay_context" /\ ~committed
    /\ Conclude(IF gone THEN "cancelled" ELSE "indeterminate")
    /\ Finish(IF gone THEN "request_cancelled" ELSE "indeterminate_upstream")
    /\ UNCHANGED gone

RetryableReturns == {"pre_send", "invalid", "rate_limited", "transient", "relay_error"}

\* Mutant: every transport error is taken for one before the send.
ClassifySendAsUnsent(left) ==
    IF gone THEN [retry |-> FALSE, outcome |-> "cancelled", code |-> "request_cancelled"]
    ELSE IF expired \/ left THEN [retry |-> FALSE, outcome |-> "indeterminate", code |-> "total_timeout"]
    ELSE IF ret \in RetryableReturns \cup {"post_send"}
         THEN [retry |-> TRUE, outcome |-> "error", code |-> "fallback_exhausted"]
    ELSE [retry |-> FALSE, outcome |-> "error", code |-> "upstream_failure"]

\* Mutant: of the two contexts only the client's is consulted.
ClassifyIgnoresDeadline(left) ==
    IF gone THEN [retry |-> FALSE, outcome |-> "cancelled", code |-> "request_cancelled"]
    ELSE IF ret \in RetryableReturns
         THEN [retry |-> TRUE, outcome |-> "error", code |-> "fallback_exhausted"]
    ELSE IF ret = "post_send"
         THEN [retry |-> FALSE, outcome |-> "indeterminate", code |-> "indeterminate_upstream"]
    ELSE [retry |-> FALSE, outcome |-> "error", code |-> "upstream_failure"]

\* The client's context is read first, then the total one, which ends with it: a
\* client that leaves in between is taken for the deadline.
classifyAttempt(left) ==
    IF gone THEN [retry |-> FALSE, outcome |-> "cancelled", code |-> "request_cancelled"]
    ELSE IF expired \/ left THEN [retry |-> FALSE, outcome |-> "indeterminate", code |-> "total_timeout"]
    ELSE IF ret \in RetryableReturns
         THEN [retry |-> TRUE, outcome |-> "error", code |-> "fallback_exhausted"]
    ELSE IF ret = "post_send"
         THEN [retry |-> FALSE, outcome |-> "indeterminate", code |-> "indeterminate_upstream"]
    ELSE [retry |-> FALSE, outcome |-> "error", code |-> "upstream_failure"]

\* index+1 < limit, the limit being min(MaxAttempts, len(eligible))
BudgetLeft == Len(attempts) + 1 < MaxAttempts /\ Remaining \ {current} # {}

Classify(left) ==
    /\ pc = "Returned"
    /\ ret \notin {"ok", "relay_ok", "relay_context"}
    /\ left => ~gone
    /\ gone' = (gone \/ left)
    /\ LET c == classifyAttempt(left) IN
         /\ Conclude(c.outcome)
         /\ IF c.retry /\ BudgetLeft THEN pc' = "Loop" /\ UNCHANGED code ELSE Finish(c.code)

\* Mutant: a broken stream is retried whether or not it was committed.
ClassifyCommitted(left) == Classify(left)

Classified(left) == ~committed /\ Classify(left)

----------------------------------------------------------------------------
(* The handler: completeOperational, then the response                     *)

\* Mutant: the outcome of a stream that broke after commitment stays error.
OutcomeIgnoresCommitment ==
    CASE code = "success" -> "success"
      [] code = "request_cancelled" -> "cancelled"
      [] code = "indeterminate_upstream" -> "indeterminate"
      [] OTHER -> "error"

outcomeForRunError ==
    CASE code = "success" -> "success"
      [] code = "request_cancelled" -> "cancelled"
      [] code = "indeterminate_upstream" -> "indeterminate"
      [] OTHER -> IF committed THEN "partial" ELSE "error"

runErrorStatus ==
    IF code = "success" \/ committed THEN 200
    ELSE CASE code = "no_eligible_destination" -> 422
           [] code = "fallback_exhausted" ->
                  IF attempts[Len(attempts)].result = "rate_limited" THEN 429 ELSE 503
           [] code = "total_timeout" -> 504
           [] code = "request_cancelled" -> 499
           [] OTHER -> 502

\* recorder.Complete, whose failure is only logged.
Complete(stored) ==
    /\ pc = "Complete"
    /\ recorded' = IF stored THEN [outcome |-> outcomeForRunError, status |-> runErrorStatus]
                             ELSE recorded
    /\ pc' = "Respond"
    /\ UNCHANGED <<input, current, ret, attempts, contexts, attemptExpired, upstream,
                   committed, code, client>>

\* Nothing is left to write: the stream is what it is, or the client left.
Finished ==
    /\ pc = "Respond" /\ (answer # "none" \/ code = "request_cancelled")
    /\ pc' = "Done"
    /\ answer' = CASE answer = "streaming" -> "cut"
                   [] answer = "none" -> "silent"
                   [] OTHER -> answer
    /\ UNCHANGED <<input, current, ret, attempts, contexts, attemptExpired, upstream,
                   committed, code, recorded, lost, source>>

\* The answer of a plain request, or an error: the error of its write is ignored.
Respond(dropped) ==
    /\ pc = "Respond" /\ answer = "none" /\ code # "request_cancelled"
    /\ pc' = "Done"
    /\ lost' = dropped
    /\ answer' = CASE code = "success" -> IF dropped THEN "cut" ELSE "whole"
                   [] OTHER -> IF dropped THEN "silent" ELSE "failed"
    /\ source' = IF code = "success" THEN current ELSE source
    /\ UNCHANGED <<input, current, ret, attempts, contexts, attemptExpired, upstream,
                   committed, code, recorded>>

\* The handler is in Write or Flush, which may not return while the client stays
\* connected and does not read.
Writing ==
    \/ pc \in {"WriteEvent", "WriteDone"}
    \/ pc = "Respond" /\ answer = "none" /\ code # "request_cancelled"

----------------------------------------------------------------------------
(* Contexts                                                                *)

ClientLeaves ==
    /\ ~gone /\ pc # "Done"
    /\ gone' = TRUE
    /\ UNCHANGED <<input, pc, current, ret, attempts, expired, attemptExpired, upstream,
                   committed, code, recorded, client>>

TotalExpires ==
    /\ ~expired /\ pc \notin {"Complete", "Respond", "Done"}
    /\ expired' = TRUE
    /\ UNCHANGED <<input, pc, current, ret, attempts, gone, attemptExpired, upstream,
                   committed, code, recorded, client>>

AttemptExpires ==
    /\ ~attemptExpired /\ pc \in {"Execute", "Relay", "WriteEvent", "WriteDone"}
    /\ attemptExpired' = TRUE
    /\ UNCHANGED <<input, pc, current, ret, attempts, contexts, upstream, committed, code,
                   recorded, client>>

----------------------------------------------------------------------------

Terminated == pc = "Done" /\ UNCHANGED vars

Loop     == NoEligible \/ ContextEnded \/ BeginAttempt
Conclusion == Succeed \/ Interrupted \/ StreamAborted \/ \E left \in BOOLEAN : Classified(left)
Record   == \E stored \in BOOLEAN : Complete(stored)
Handler  == Record \/ Finished \/ \E dropped \in BOOLEAN : Respond(dropped)
Adapter  == \/ LocalFailure \/ WroteRequest \/ DoFails \/ OpenStream
            \/ \E s \in {"sending", "sent"} : Transmit(s)
            \/ \E r \in Returns : Responds(r)
Relay    == \/ RelayChunk \/ RelayDone \/ RelayBreaks \/ RelayContextEnds \/ WriteFails
            \/ \E dropped \in BOOLEAN : EventWritten(dropped) \/ DoneWritten(dropped)
Contexts == ClientLeaves \/ TotalExpires \/ AttemptExpires

Next == Loop \/ Adapter \/ Relay \/ Conclusion \/ Handler \/ Contexts \/ Terminated

Spec == Init /\ [][Next]_vars

\* The handler runs on, the total deadline passes, and a call or a read of the
\* relay whose context has ended returns; nothing is assumed of the upstream, nor
\* that a write to the client ever returns.
FairSpec ==
    /\ Spec
    /\ WF_vars(Loop) /\ WF_vars(Conclusion) /\ WF_vars(Record) /\ WF_vars(Finished)
    /\ WF_vars(TotalExpires)
    /\ WF_vars(AttemptContextDone /\ DoFails) /\ WF_vars(RelayContextEnds)

----------------------------------------------------------------------------
(* Properties                                                              *)

Answer == INSTANCE ClientAnswer

\* The client sees one answer from one destination: after the first event of a
\* stream no other destination contributes a byte, no error response follows,
\* and a stream is whole only if the relay saw [DONE] (RunStream's
\* relay.Committed branch, the handler's "err != nil && !result.Committed").
ImplementsAnswer == Answer!Spec

\* A request that the transport reported as written and that no response
\* confirmed is not sent to another destination, and its attempt is never
\* classified as a plain error (classifyAttempt's transport_error case).
WrittenRequestIsNotRepeated ==
    \A d \in wrote \ responded :
        /\ d = current
        /\ \A i \in 1..Len(attempts) :
             attempts[i].dest = d => attempts[i].outcome \in {"indeterminate", "cancelled"}

\* A request that went out whole to an upstream that never answered is not sent
\* to another destination: "automatic fallback never equates timeout with not
\* processed".  The hook that sets the adapter's written variable runs in the
\* transport's goroutine, after the last byte went out; nothing orders it before
\* the error that Do returns when a deadline passes at that moment.
SentRequestIsNotRepeated ==
    \A d \in Destination : wire[d] = "sent" /\ d \notin responded => d = current

\* However the attempt under way ends once the client has left or the total
\* deadline has passed (an answer, a refusal, a transport error, a broken stream),
\* the run ends with it, and neither the attempt nor the run is blamed on the
\* provider or on the fallback: they are a success, or are put down to the client
\* if it left, to the deadline or to an interrupted stream otherwise (the order of
\* the reads of the two contexts in Run, RunStream and classifyAttempt).
EndDecidesTheOutcome ==
    [][attempts' # attempts /\ (gone \/ expired) =>
         LET outcome == attempts'[Len(attempts')].outcome IN
           \/ outcome = "success" /\ code' = "success"
           \/ gone /\ outcome = "cancelled" /\ code' = "request_cancelled"
           \/ ~gone /\ outcome = "partial" /\ code' = "stream_interrupted"
           \/ ~gone /\ outcome = "indeterminate" /\ code' \in {"total_timeout", "indeterminate_upstream"}
      ]_vars

\* What is stored of a finished request is what the client was given: a whole
\* answer is a success, a success that is not whole is one whose write failed with
\* the error dropped, every other cut answer is partial or cancelled, and status
\* 200 goes with successful headers alone (completeOperational, which runs before
\* a plain answer is written and after a stream).
RecordMatchesAnswer ==
    pc = "Done" /\ recorded # None =>
        /\ answer = "whole" => recorded.outcome = "success"
        /\ recorded.outcome = "success" => answer = "whole" \/ (answer = "cut" /\ lost)
        /\ answer = "cut" => recorded.outcome \in {"success", "partial", "cancelled"}
        /\ recorded.outcome = "partial" => answer = "cut"
        /\ recorded.status = 200 <=> answer \in {"whole", "cut"}
        /\ recorded.outcome = "indeterminate" => current \in wrote \cup responded

\* Every request ends, whatever the upstreams do (they may accept a connection and
\* stay silent, or stream forever), unless its handler stays in one write to a
\* client that does not read.
RequestEnds == <>(pc = "Done" \/ []Writing)

\* "Budgets are finite: total timeout, per-attempt timeout": the request of a client
\* that stays ends with its deadlines.
DeadlineEndsRequest == <>(pc = "Done" \/ gone)
=============================================================================
