------------------------ MODULE RouterEngineProofs ------------------------
(***************************************************************************)
(* Safety of a request's run for any number of destinations and attempts:  *)
(* what was written and not confirmed stays with its destination, the      *)
(* record agrees with the answer, the end of a context decides what is     *)
(* reported, and the router implements the answer a client may observe.    *)
(*                                                                         *)
(* The argument: the attempt under way is of a destination not tried yet   *)
(* (AttemptInv); what the adapter returned says whether the request was    *)
(* written and answered (ReturnInv); a committed stream belongs to the     *)
(* attempt under way until the run ends (AnswerInv); and the code of the   *)
(* run determines record and answer alike (CodeInv, RecordInv).            *)
(*                                                                         *)
(* The last sections are about RequestRecords, which surrounds that run,   *)
(* for any routes, destinations, headers and number of requests.  A        *)
(* request's route is one its token named, and what it tried and has left  *)
(* to try are different targets of it (RequestInv), so that a completion   *)
(* has at most one reset for a destination; a cooldown's text only grows,  *)
(* and ends in no earlier second than any reset recorded (CooldownInv).    *)
(*                                                                         *)
(* Then ConfigGraph, whose published versions those routes are, for any    *)
(* resources and documents.  Between the changes of a document its rows    *)
(* follow the envelopes but for routes deleted so far, and every route has *)
(* a version of its strategy (Within, one lemma for a deletion and one for *)
(* a put).  The changes, sorted, are each applied once (SortedTakesEach),  *)
(* so the last of these databases has exactly the effective graph that was *)
(* validated (DocumentStep); validity then rules out what the foreign keys *)
(* do not: a token that names a deleted route, and a destination whose two *)
(* ends are of different providers (GraphInv).                             *)
(***************************************************************************)
EXTENDS RouterEngine, RequestRecords, ConfigGraph, FiniteSetTheorems, WellFoundedInduction, TLAPS

Relaying == pc \in {"Relay", "WriteEvent", "WriteDone"}
Underway == pc \in {"Execute", "Returned"} \/ Relaying
Over     == pc \in {"Complete", "Respond"}

AttemptInv ==
    /\ Underway => current \in Destination \ Tried
    /\ Underway \/ pc = "Loop" => Len(attempts) < MaxAttempts
    /\ wrote \cup responded \subseteq Tried \cup {current}
    /\ pc = "Loop" => wrote \cup responded \subseteq Tried /\ wrote \subseteq responded
    /\ pc = "Execute" => current \notin responded
    /\ Relaying => current \in responded
    /\ \A d \in wrote : wire[d] # "none"

ReturnInv ==
    pc = "Returned" =>
        /\ ret \in Returns
        /\ ret \in {"local", "pre_send"} => current \notin wrote
        /\ ret = "post_send" => current \in wrote
        /\ ret \notin {"local", "pre_send", "post_send"} => current \in responded

AnswerInv ==
    /\ committed => pc \notin {"Loop", "Execute"} /\ current \in Destination
    /\ pc # "Done" /\ committed => source = current /\ answer \in {"streaming", "whole", "cut"}
    /\ pc # "Done" /\ ~committed => source = None /\ answer = "none"
    /\ pc # "Done" /\ answer = "cut" => lost
    /\ pc \in {"WriteEvent", "WriteDone"} => committed
    /\ Relaying => answer \notin {"whole", "cut"}
    /\ pc = "Returned" => (ret = "relay_ok" <=> answer \in {"whole", "cut"})
    /\ pc = "Returned" /\ committed => ret \in {"relay_ok", "relay_error", "relay_context"}

CodeInv ==
    Over =>
        /\ code \in Codes
        /\ code = "success" => current \in Destination
        /\ answer \in {"whole", "cut"} => code = "success"
        /\ answer = "streaming" => code \in {"request_cancelled", "stream_interrupted"}
        /\ code = "stream_interrupted" => committed
        /\ code = "indeterminate_upstream" => current \in wrote \cup responded

RecordInv ==
    /\ pc \notin {"Respond", "Done"} => recorded = None
    /\ pc = "Respond" /\ recorded # None =>
         /\ recorded.outcome = "success" <=> code = "success"
         /\ recorded.outcome = "cancelled" <=> code = "request_cancelled"
         /\ recorded.outcome = "indeterminate" <=> code = "indeterminate_upstream"
         /\ recorded.outcome = "partial" =>
              committed /\ code \notin {"success", "request_cancelled"}
         /\ recorded.outcome = "error" => ~committed
         /\ recorded.status = 200 <=> code = "success" \/ committed

IInv ==
    /\ TypeOK
    /\ AttemptInv
    /\ ReturnInv
    /\ AnswerInv
    /\ CodeInv
    /\ RecordInv
    /\ WrittenRequestIsNotRepeated
    /\ RecordMatchesAnswer

----------------------------------------------------------------------------
(* Operators                                                               *)

LEMMA LeastElement ==
    ASSUME NEW S \in SUBSET Nat, S # {}
    PROVE  \E d \in S : \A e \in S : d <= e
<1>1. PICK d \in S : \A e \in S : <<e, d>> \notin OpToRel(<, Nat)
  BY NatLessThanWellFounded, WFMin
<1>2. \A e \in S : ~(e < d)
  BY <1>1 DEF OpToRel
<1> QED
  BY <1>2

LEMMA NextIsRemaining ==
    ASSUME TypeOK, Remaining # {}
    PROVE  NextDestination \in Remaining
<1>1. Remaining \in SUBSET Nat
  BY RouterAssumption DEF Remaining, Eligible, Destination
<1>2. \E d \in Remaining : \A e \in Remaining : d <= e
  BY <1>1, LeastElement
<1> QED
  BY <1>2 DEF NextDestination

LEMMA ConcludeFacts ==
    ASSUME TypeOK, NEW o \in Outcomes, current \in Destination, ret \in Returns,
           Len(attempts) < MaxAttempts, Conclude(o)
    PROVE  /\ attempts' \in Seq([dest : Destination, result : Returns, outcome : Outcomes])
           /\ Len(attempts') <= MaxAttempts
           /\ Len(attempts') = Len(attempts) + 1
           /\ Tried' = Tried \cup {current}
           /\ \A i \in 1..Len(attempts) : attempts'[i] = attempts[i]
           /\ attempts'[Len(attempts) + 1].dest = current
           /\ attempts'[Len(attempts) + 1].outcome = o
<1> DEFINE a == [dest |-> current, result |-> ret, outcome |-> o]
<1>1. attempts' = Append(attempts, a)
  BY DEF Conclude
<1>2. /\ attempts \in Seq([dest : Destination, result : Returns, outcome : Outcomes])
      /\ a \in [dest : Destination, result : Returns, outcome : Outcomes]
      /\ a.dest = current /\ a.outcome = o
  BY DEF TypeOK
<1> HIDE DEF a
<1>3. /\ attempts' \in Seq([dest : Destination, result : Returns, outcome : Outcomes])
      /\ Len(attempts') = Len(attempts) + 1
      /\ \A i \in 1..Len(attempts) : attempts'[i] = attempts[i]
      /\ attempts'[Len(attempts) + 1] = a
  BY <1>1, <1>2
<1>4. Len(attempts) \in Nat /\ MaxAttempts \in Nat
  BY <1>2, RouterAssumption
<1>5. Tried' = {attempts'[i].dest : i \in 1..Len(attempts')}
  BY DEF Tried
<1>6. Tried' = Tried \cup {current}
  <2>1. ASSUME NEW d \in Tried' PROVE d \in Tried \cup {current}
    <3>1. PICK i \in 1..Len(attempts') : d = attempts'[i].dest
      BY <2>1, <1>5
    <3>2. CASE i \in 1..Len(attempts)
      BY <3>1, <3>2, <1>3 DEF Tried
    <3>3. CASE i = Len(attempts) + 1
      BY <3>1, <3>3, <1>3, <1>2
    <3> QED
      BY <3>1, <3>2, <3>3, <1>3, <1>4
  <2>2. ASSUME NEW d \in Tried PROVE d \in Tried'
    <3>1. PICK i \in 1..Len(attempts) : d = attempts[i].dest
      BY <2>2 DEF Tried
    <3>2. i \in 1..Len(attempts') /\ attempts'[i] = attempts[i]
      BY <3>1, <1>3, <1>4
    <3> QED
      BY <3>1, <3>2, <1>5
  <2>3. current \in Tried'
    <3>1. Len(attempts) + 1 \in 1..Len(attempts')
      BY <1>3, <1>4
    <3> QED
      BY <3>1, <1>2, <1>3, <1>5
  <2> QED
    BY <2>1, <2>2, <2>3
<1> QED
  BY <1>2, <1>3, <1>4, <1>6

----------------------------------------------------------------------------
(* Initial states and steps                                                *)

LEMMA InitIInv == Init => IInv
<1> SUFFICES ASSUME Init PROVE IInv
  OBVIOUS
<1>1. attempts = <<>> /\ Len(attempts) = 0 /\ Tried = {}
  BY DEF Init, Tried
<1>2. TypeOK
  <2>1. /\ attempts \in Seq([dest : Destination, result : Returns, outcome : Outcomes])
        /\ Len(attempts) <= MaxAttempts
    BY <1>1, RouterAssumption
  <2>2. wire \in [Destination -> {"none", "sending", "sent"}]
    BY DEF Init
  <2> QED
    BY <2>1, <2>2 DEF Init, TypeOK
<1>3. AttemptInv
  BY <1>1, RouterAssumption DEF Init, AttemptInv, Underway, Relaying
<1>4. ReturnInv /\ AnswerInv /\ CodeInv /\ RecordInv
  BY DEF Init, ReturnInv, AnswerInv, CodeInv, RecordInv, Over, Relaying
<1>5. WrittenRequestIsNotRepeated /\ RecordMatchesAnswer
  BY DEF Init, WrittenRequestIsNotRepeated, RecordMatchesAnswer
<1> QED
  BY <1>2, <1>3, <1>4, <1>5 DEF IInv

\* Steps that neither conclude an attempt nor begin one keep the destinations tried.
LEMMA SameAttempts ==
    ASSUME attempts' = attempts
    PROVE  Tried' = Tried
BY DEF Tried

LEMMA LoopStep ==
    ASSUME IInv, Loop
    PROVE  IInv'
<1> USE DEF IInv, Loop, input, contexts, upstream, client, Finish
<1>1. CASE NoEligible \/ ContextEnded
  <2>1. Tried' = Tried
    BY <1>1, SameAttempts DEF NoEligible, ContextEnded
  <2>2. TypeOK'
    BY <1>1 DEF NoEligible, ContextEnded, TypeOK, Codes
  <2>3. AttemptInv'
    BY <1>1, <2>1 DEF NoEligible, ContextEnded, AttemptInv, Underway, Relaying
  <2>4. ReturnInv' /\ AnswerInv' /\ CodeInv' /\ RecordInv'
    BY <1>1 DEF NoEligible, ContextEnded, ReturnInv, AnswerInv, CodeInv, RecordInv, Over, Relaying,
                     Codes
  <2>5. WrittenRequestIsNotRepeated' /\ RecordMatchesAnswer'
    BY <1>1 DEF NoEligible, ContextEnded, WrittenRequestIsNotRepeated, RecordMatchesAnswer
  <2> QED
    BY <2>2, <2>3, <2>4, <2>5
<1>2. CASE BeginAttempt
  <2>1. Tried' = Tried
    BY <1>2, SameAttempts DEF BeginAttempt
  <2>2. current' \in Destination \ Tried
    BY <1>2, NextIsRemaining DEF BeginAttempt, Remaining, Eligible
  <2>3. TypeOK'
    BY <1>2, <2>2 DEF BeginAttempt, TypeOK
  <2>4. AttemptInv'
    BY <1>2, <2>1, <2>2 DEF BeginAttempt, AttemptInv, Underway, Relaying
  <2>5. ReturnInv' /\ AnswerInv' /\ CodeInv' /\ RecordInv'
    BY <1>2 DEF BeginAttempt, ReturnInv, AnswerInv, CodeInv, RecordInv, Over, Relaying
  <2>6. WrittenRequestIsNotRepeated' /\ RecordMatchesAnswer'
    BY <1>2 DEF BeginAttempt, AttemptInv, WrittenRequestIsNotRepeated, RecordMatchesAnswer
  <2> QED
    BY <2>3, <2>4, <2>5, <2>6
<1> QED
  BY <1>1, <1>2

LEMMA AdapterStep ==
    ASSUME IInv, Adapter
    PROVE  IInv'
<1> USE DEF IInv, input, contexts, upstream, client
<1>1. PICK r \in Returns, s \in {"sending", "sent"} :
        LocalFailure \/ WroteRequest \/ DoFails \/ OpenStream \/ Transmit(s) \/ Responds(r)
  BY DEF Adapter, Returns
<1>2. /\ pc = "Execute" /\ current \in Destination \ Tried /\ ~committed
      /\ attempts' = attempts /\ current' = current /\ committed' = committed
      /\ lost' = lost /\ source' = source /\ answer' = answer /\ recorded' = recorded
      /\ code' = code /\ stream' = stream /\ excluded' = excluded /\ gone' = gone
      /\ expired' = expired /\ attemptExpired' = attemptExpired
      /\ pc' \in {"Execute", "Relay", "Returned"}
  BY <1>1 DEF AttemptInv, AnswerInv, Underway, Relaying, LocalFailure, WroteRequest, DoFails, OpenStream,
              Transmit, Responds, Return
<1>3. Tried' = Tried
  BY <1>2, SameAttempts
<1>4. /\ wire' \in [Destination -> {"none", "sending", "sent"}]
      /\ wrote' \in SUBSET Destination /\ responded' \in SUBSET Destination
      /\ ret' \in Returns \cup {None}
  BY <1>1, <1>2 DEF TypeOK, Returns, Statuses, LocalFailure, WroteRequest, DoFails, OpenStream,
              Transmit, Responds, Return
<1>5. TypeOK'
  BY <1>2, <1>4 DEF TypeOK
<1>6. AttemptInv'
  <2>1. wrote' \cup responded' \subseteq wrote \cup responded \cup {current}
    BY <1>1 DEF LocalFailure, WroteRequest, DoFails, OpenStream, Transmit, Responds, Return
  <2>2. /\ pc' = "Execute" => current' \notin responded'
        /\ pc' = "Relay" => current' \in responded'
    BY <1>1, <1>2 DEF AttemptInv, LocalFailure, WroteRequest, DoFails, OpenStream, Transmit, Responds,
       Return
  <2>3. \A d \in wrote' : wire'[d] # "none"
    BY <1>1, <1>2 DEF TypeOK, AttemptInv, LocalFailure, WroteRequest, DoFails, OpenStream, Transmit,
                      Responds, Return
  <2> QED
    BY <1>2, <1>3, <2>1, <2>2, <2>3 DEF AttemptInv, Underway, Relaying
<1>7. ReturnInv'
  BY <1>1, <1>2 DEF ReturnInv, AttemptInv, Returns, Statuses, LocalFailure, WroteRequest, DoFails,
              OpenStream, Transmit, Responds, Return
<1>8. AnswerInv' /\ CodeInv' /\ RecordInv'
  <2>1. pc' = "Returned" => ret' # "relay_ok"
    BY <1>1, <1>2 DEF Statuses, LocalFailure, WroteRequest, DoFails, OpenStream, Transmit, Responds,
       Return
  <2> QED
    BY <1>2, <2>1 DEF AnswerInv, CodeInv, RecordInv, Over, Relaying
<1>9. WrittenRequestIsNotRepeated'
  <2>1. wrote' \ responded' \subseteq (wrote \ responded) \cup {current}
    BY <1>1 DEF LocalFailure, WroteRequest, DoFails, OpenStream, Transmit, Responds, Return
  <2>2. \A i \in 1..Len(attempts) : attempts[i].dest # current
    BY <1>2 DEF Tried
  <2> QED
    BY <1>2, <2>1, <2>2 DEF WrittenRequestIsNotRepeated
<1>10. RecordMatchesAnswer'
  BY <1>2 DEF RecordMatchesAnswer
<1> QED
  BY <1>5, <1>6, <1>7, <1>8, <1>9, <1>10

LEMMA RelayStep ==
    ASSUME IInv, Relay
    PROVE  IInv'
<1> USE DEF IInv, input, contexts, upstream, client
<1>0. PICK w \in BOOLEAN :
        \/ RelayChunk \/ RelayDone \/ RelayBreaks \/ RelayContextEnds \/ WriteFails
        \/ EventWritten(w) \/ DoneWritten(w)
  BY DEF Relay
<1>1. /\ Relaying /\ current \in Destination /\ current \in responded
      /\ attempts' = attempts /\ current' = current /\ wire' = wire /\ wrote' = wrote
      /\ responded' = responded /\ recorded' = recorded /\ code' = code
      /\ stream' = stream /\ excluded' = excluded /\ gone' = gone /\ expired' = expired
      /\ attemptExpired' = attemptExpired
      /\ \/ Relaying' /\ ret' = ret
         \/ pc' = "Returned" /\ ret' \in {"relay_ok", "relay_error", "relay_context"}
  BY <1>0 DEF Relaying, AttemptInv, Underway, RelayChunk, RelayDone, RelayBreaks, RelayContextEnds,
         WriteFails, EventWritten, DoneWritten, Return
<1>2. Tried' = Tried
  BY <1>1, SameAttempts
<1>3. /\ committed' => source' = current /\ answer' \in {"streaming", "whole", "cut"}
      /\ ~committed' => source' = None /\ answer' = "none"
      /\ answer' \in {"whole", "cut"} <=> pc' = "Returned" /\ ret' = "relay_ok"
      /\ answer' = "cut" => lost'
      /\ pc' \in {"WriteEvent", "WriteDone"} => committed'
      /\ committed' \in BOOLEAN /\ lost' \in BOOLEAN
  <2>1. /\ committed \in BOOLEAN /\ lost \in BOOLEAN /\ answer \notin {"whole", "cut"}
        /\ committed => source = current /\ answer = "streaming"
        /\ ~committed => source = None /\ answer = "none"
        /\ pc \in {"WriteEvent", "WriteDone"} => committed
    BY <1>1 DEF TypeOK, AnswerInv, Relaying
  <2>2. CASE RelayChunk
    BY <2>1, <2>2 DEF RelayChunk
  <2>3. CASE RelayDone
    BY <2>1, <2>3 DEF RelayDone
  <2>4. CASE RelayBreaks \/ RelayContextEnds \/ WriteFails
    BY <2>1, <2>4 DEF RelayBreaks, RelayContextEnds, WriteFails, Return
  <2>5. CASE EventWritten(w)
    BY <2>1, <2>5 DEF EventWritten
  <2>6. CASE DoneWritten(w)
    BY <2>1, <2>6 DEF DoneWritten, Return
  <2> QED
    BY <1>0, <2>2, <2>3, <2>4, <2>5, <2>6
<1>4. TypeOK'
  BY <1>1, <1>3 DEF TypeOK, Returns, Relaying
<1>5. AttemptInv' /\ ReturnInv'
  BY <1>1, <1>2 DEF AttemptInv, ReturnInv, Underway, Relaying, Returns
<1>6. AnswerInv' /\ CodeInv' /\ RecordInv'
  BY <1>1, <1>3 DEF AnswerInv, CodeInv, RecordInv, Over, Relaying
<1>7. WrittenRequestIsNotRepeated' /\ RecordMatchesAnswer'
  BY <1>1 DEF WrittenRequestIsNotRepeated, RecordMatchesAnswer, Relaying
<1> QED
  BY <1>4, <1>5, <1>6, <1>7

\* What an attempt's end may lead to: the outcome o of the attempt, and either
\* another turn of the loop or the end of the run with code c.
LEMMA ConclusionFacts ==
    ASSUME IInv, Conclusion
    PROVE  \E o \in Outcomes, c \in Codes :
             /\ pc = "Returned"
             /\ Conclude(o) /\ gone' \in BOOLEAN
             /\ \/ pc' = "Complete" /\ code' = c
                \/ pc' = "Loop" /\ code' = code /\ ~committed
                   /\ Len(attempts) + 1 < MaxAttempts /\ ret \in RetryableReturns
             /\ current \in wrote \ responded => o \in {"indeterminate", "cancelled"}
             /\ answer \in {"whole", "cut"} => c = "success"
             /\ answer = "streaming" => c \in {"request_cancelled", "stream_interrupted"}
             /\ c = "stream_interrupted" => committed
             /\ c = "indeterminate_upstream" => current \in wrote \cup responded
<1> USE DEF IInv, Finish, Codes, Outcomes
<1>0. /\ pc = "Returned" => /\ committed => answer \in {"streaming", "whole", "cut"}
                            /\ ~committed => answer = "none"
                            /\ ret = "relay_ok" <=> answer \in {"whole", "cut"}
      /\ committed \in BOOLEAN /\ gone \in BOOLEAN /\ expired \in BOOLEAN
  BY DEF AnswerInv, TypeOK
<1>1. CASE Succeed
  <2>1. /\ pc = "Returned" /\ Conclude("success") /\ pc' = "Complete" /\ code' = "success"
        /\ gone' = gone /\ ret \in {"ok", "relay_ok"} /\ current \in responded
    BY <1>1 DEF Succeed, ReturnInv
  <2>2. answer # "streaming"
    BY <1>0, <2>1 DEF AnswerInv
  <2> QED
    BY <1>0, <2>1, <2>2
<1>2. CASE Interrupted
  <2>1. /\ pc = "Returned" /\ committed /\ current \in responded /\ answer = "streaming"
        /\ pc' = "Complete" /\ gone' = gone
    BY <1>0, <1>2 DEF Interrupted, ReturnInv
  <2>2. CASE gone
    <3>1. Conclude("cancelled") /\ code' = "request_cancelled"
      BY <1>2, <2>2 DEF Interrupted
    <3> QED
      BY <1>0, <2>1, <3>1
  <2>3. CASE ~gone
    <3>1. Conclude("partial") /\ code' = "stream_interrupted"
      BY <1>2, <2>3 DEF Interrupted
    <3> QED
      BY <1>0, <2>1, <3>1
  <2> QED
    BY <2>2, <2>3
<1>3. CASE StreamAborted
  <2>1. /\ pc = "Returned" /\ answer = "none" /\ current \in responded /\ pc' = "Complete"
        /\ gone' = gone
    BY <1>0, <1>3 DEF StreamAborted, ReturnInv
  <2>2. CASE gone
    <3>1. Conclude("cancelled") /\ code' = "request_cancelled"
      BY <1>3, <2>2 DEF StreamAborted
    <3> QED
      BY <1>0, <2>1, <3>1
  <2>3. CASE ~gone
    <3>1. Conclude("indeterminate") /\ code' = "indeterminate_upstream"
      BY <1>3, <2>3 DEF StreamAborted
    <3> QED
      BY <1>0, <2>1, <3>1
  <2> QED
    BY <2>2, <2>3
<1>4. CASE \E left \in BOOLEAN : Classified(left)
  <2>0. PICK left \in BOOLEAN : Classified(left)
    BY <1>4
  <2> DEFINE c == classifyAttempt(left)
  <2>1. /\ pc = "Returned" /\ ~committed /\ answer = "none"
        /\ Conclude(c.outcome) /\ gone' \in BOOLEAN
        /\ \/ pc' = "Complete" /\ code' = c.code
           \/ pc' = "Loop" /\ code' = code /\ c.retry
              /\ Len(attempts) + 1 < MaxAttempts
    BY <1>0, <2>0 DEF Classified, Classify, BudgetLeft
  <2>2. /\ c.outcome \in Outcomes /\ c.code \in Codes
        /\ c.retry => ret \in RetryableReturns
        /\ current \in wrote \ responded => c.outcome \in {"indeterminate", "cancelled"}
        /\ c.code # "stream_interrupted"
        /\ c.code = "indeterminate_upstream" => current \in wrote \cup responded
    BY <2>1 DEF classifyAttempt, ReturnInv, RetryableReturns
  <2> HIDE DEF Outcomes, Codes, c
  <2> QED
    BY <2>1, <2>2
<1> QED
  BY <1>1, <1>2, <1>3, <1>4 DEF Conclusion

LEMMA ConclusionStep ==
    ASSUME IInv, Conclusion
    PROVE  IInv'
<1> USE DEF IInv, input, contexts, upstream, client
<1>1. PICK o \in Outcomes, c \in Codes :
             /\ pc = "Returned"
             /\ Conclude(o) /\ gone' \in BOOLEAN
             /\ \/ pc' = "Complete" /\ code' = c
                \/ pc' = "Loop" /\ code' = code /\ ~committed
                   /\ Len(attempts) + 1 < MaxAttempts /\ ret \in RetryableReturns
             /\ current \in wrote \ responded => o \in {"indeterminate", "cancelled"}
             /\ answer \in {"whole", "cut"} => c = "success"
             /\ answer = "streaming" => c \in {"request_cancelled", "stream_interrupted"}
             /\ c = "stream_interrupted" => committed
             /\ c = "indeterminate_upstream" => current \in wrote \cup responded
  BY ConclusionFacts
<1>2. /\ current \in Destination \ Tried /\ ret \in Returns /\ Len(attempts) < MaxAttempts
      /\ UNCHANGED <<stream, excluded, current, ret, expired, attemptExpired, wire, wrote,
                     responded, committed, recorded, lost, source, answer>>
  BY <1>1 DEF AttemptInv, ReturnInv, Underway, Conclude
<1>3. /\ attempts' \in Seq([dest : Destination, result : Returns, outcome : Outcomes])
      /\ Len(attempts') <= MaxAttempts
      /\ Len(attempts') = Len(attempts) + 1
      /\ Tried' = Tried \cup {current}
      /\ \A i \in 1..Len(attempts) : attempts'[i] = attempts[i]
      /\ attempts'[Len(attempts) + 1].dest = current
      /\ attempts'[Len(attempts) + 1].outcome = o
  BY <1>1, <1>2, ConcludeFacts
<1>4. TypeOK'
  BY <1>1, <1>2, <1>3 DEF TypeOK
<1>5. AttemptInv'
  <2>1. pc' = "Loop" => wrote \subseteq responded
    BY <1>1 DEF ReturnInv, RetryableReturns, WrittenRequestIsNotRepeated
  <2> QED
    BY <1>1, <1>2, <1>3, <2>1 DEF AttemptInv, Underway, Relaying
<1>6. ReturnInv' /\ AnswerInv' /\ RecordInv'
  BY <1>1, <1>2 DEF ReturnInv, AnswerInv, RecordInv, Relaying
<1>7. CodeInv'
  BY <1>1, <1>2 DEF CodeInv, Over
<1>8. WrittenRequestIsNotRepeated'
  <2> SUFFICES ASSUME NEW d \in wrote \ responded, NEW i \in 1..Len(attempts'),
                      attempts'[i].dest = d
               PROVE  attempts'[i].outcome \in {"indeterminate", "cancelled"}
    BY <1>2 DEF WrittenRequestIsNotRepeated
  <2>1. d = current
    BY DEF WrittenRequestIsNotRepeated
  <2>2. CASE i \in 1..Len(attempts)
    BY <1>3, <2>2 DEF WrittenRequestIsNotRepeated
  <2>3. CASE i = Len(attempts) + 1
    BY <1>1, <1>3, <2>1, <2>3
  <2>4. Len(attempts) \in Nat
    BY DEF TypeOK
  <2> QED
    BY <1>3, <2>2, <2>3, <2>4
<1>9. RecordMatchesAnswer'
  BY <1>1 DEF RecordMatchesAnswer
<1> QED
  BY <1>4, <1>5, <1>6, <1>7, <1>8, <1>9

LEMMA HandlerStep ==
    ASSUME IInv, Handler
    PROVE  IInv'
<1> USE DEF IInv, input, contexts, upstream, client
<1>1. CASE Record
  <2>1. PICK stored \in BOOLEAN : Complete(stored)
    BY <1>1 DEF Record
  <2>2. Tried' = Tried
    BY <2>1, SameAttempts DEF Complete
  <2>3. outcomeForRunError \in Outcomes /\ runErrorStatus \in HTTPStatus
    BY DEF outcomeForRunError, runErrorStatus, Outcomes, HTTPStatus
  <2>4. recorded' \in {None, [outcome |-> outcomeForRunError, status |-> runErrorStatus]}
    BY <2>1 DEF Complete, RecordInv
  <2>5. TypeOK'
    BY <2>1, <2>3, <2>4 DEF Complete, TypeOK
  <2>6. AttemptInv' /\ ReturnInv' /\ AnswerInv' /\ CodeInv'
    BY <2>1, <2>2 DEF Complete, AttemptInv, ReturnInv, AnswerInv, CodeInv, Underway, Over, Relaying
  <2>7. RecordInv'
    <3> SUFFICES ASSUME recorded' # None PROVE RecordInv'
      BY <2>1 DEF Complete, RecordInv
    <3>1. recorded'.outcome = outcomeForRunError /\ recorded'.status = runErrorStatus
      BY <2>4
    <3>2. /\ outcomeForRunError = "success" <=> code = "success"
          /\ outcomeForRunError = "cancelled" <=> code = "request_cancelled"
          /\ outcomeForRunError = "indeterminate" <=> code = "indeterminate_upstream"
          /\ outcomeForRunError = "partial" =>
               committed /\ code \notin {"success", "request_cancelled"}
          /\ outcomeForRunError = "error" => ~committed
      BY DEF outcomeForRunError
    <3>3. runErrorStatus = 200 <=> code = "success" \/ committed
      BY DEF runErrorStatus
    <3> QED
      BY <2>1, <3>1, <3>2, <3>3 DEF Complete, RecordInv
  <2>8. WrittenRequestIsNotRepeated' /\ RecordMatchesAnswer'
    BY <2>1 DEF Complete, WrittenRequestIsNotRepeated, RecordMatchesAnswer
  <2> QED
    BY <2>5, <2>6, <2>7, <2>8
<1>2. CASE Finished \/ \E dropped \in BOOLEAN : Respond(dropped)
  <2>0. PICK w \in BOOLEAN : Finished \/ Respond(w)
    BY <1>2
  <2>1. /\ pc = "Respond" /\ pc' = "Done"
        /\ UNCHANGED <<input, current, ret, attempts, contexts, attemptExpired, upstream, committed,
                       code, recorded>>
    BY <2>0 DEF Finished, Respond
  <2>2. Tried' = Tried
    BY <2>1, SameAttempts
  <2>3. /\ answer \in {"none", "streaming", "whole", "cut"}
        /\ committed <=> answer # "none"
        /\ answer = "cut" => lost
        /\ answer \in {"whole", "cut"} => code = "success"
        /\ answer = "streaming" => code \in {"request_cancelled", "stream_interrupted"}
        /\ code = "success" => current \in Destination
        /\ committed \in BOOLEAN /\ lost \in BOOLEAN /\ source \in Destination \cup {None}
    BY <2>1 DEF AnswerInv, CodeInv, Over, TypeOK
  <2>4. /\ answer' \in {"whole", "cut", "silent", "failed"}
        /\ answer' = "whole" => code = "success"
        /\ answer' = "cut" => code = "success" \/ answer = "streaming"
        /\ code = "success" => answer' = "whole" \/ (answer' = "cut" /\ lost')
        /\ answer = "streaming" => answer' = "cut"
        /\ lost' \in BOOLEAN /\ source' \in Destination \cup {None}
    <3>1. CASE Finished
      BY <2>3, <3>1 DEF Finished
    <3>2. CASE Respond(w)
      BY <2>3, <3>2 DEF Respond
    <3> QED
      BY <2>0, <3>1, <3>2
  <2>5. TypeOK'
    BY <2>1, <2>4 DEF TypeOK
  <2>6. AttemptInv' /\ ReturnInv' /\ AnswerInv' /\ CodeInv' /\ RecordInv'
    BY <2>1, <2>2 DEF AttemptInv, ReturnInv, AnswerInv, CodeInv, RecordInv, Underway, Over, Relaying
  <2>7. WrittenRequestIsNotRepeated'
    BY <2>1 DEF WrittenRequestIsNotRepeated
  <2>8. RecordMatchesAnswer'
    <3> SUFFICES ASSUME recorded # None PROVE RecordMatchesAnswer'
      BY <2>1 DEF RecordMatchesAnswer
    <3>1. recorded' = recorded /\ current' = current /\ wrote' = wrote /\ responded' = responded
      BY <2>1
    <3>2. recorded.outcome \in Outcomes
      BY DEF TypeOK
    <3>3. /\ recorded.outcome = "success" <=> code = "success"
          /\ recorded.outcome = "cancelled" <=> code = "request_cancelled"
          /\ recorded.outcome = "indeterminate" <=> code = "indeterminate_upstream"
          /\ recorded.outcome = "partial" =>
               committed /\ code \notin {"success", "request_cancelled"}
          /\ recorded.outcome = "error" => ~committed
          /\ recorded.status = 200 <=> code = "success" \/ committed
          /\ code = "indeterminate_upstream" => current \in wrote \cup responded
      BY <2>1 DEF RecordInv, CodeInv, Over
    <3> QED
      BY <2>3, <2>4, <3>1, <3>2, <3>3 DEF RecordMatchesAnswer, Outcomes
  <2> QED
    BY <2>5, <2>6, <2>7, <2>8
<1> QED
  BY <1>1, <1>2 DEF Handler

LEMMA ContextStep ==
    ASSUME IInv, Contexts \/ UNCHANGED vars
    PROVE  IInv'
<1> USE DEF IInv, input, contexts, upstream, client
<1>1. /\ UNCHANGED <<stream, excluded, pc, current, ret, attempts, wire, wrote, responded,
                     committed, code, recorded, lost, source, answer>>
      /\ gone' \in BOOLEAN /\ expired' \in BOOLEAN /\ attemptExpired' \in BOOLEAN
  BY DEF Contexts, ClientLeaves, TotalExpires, AttemptExpires, vars, TypeOK
<1>2. Tried' = Tried
  BY <1>1, SameAttempts
<1>3. TypeOK'
  BY <1>1 DEF TypeOK
<1>4. AttemptInv' /\ ReturnInv' /\ AnswerInv' /\ CodeInv' /\ RecordInv'
  BY <1>1, <1>2 DEF AttemptInv, ReturnInv, AnswerInv, CodeInv, RecordInv, Underway, Over, Relaying
<1>5. WrittenRequestIsNotRepeated' /\ RecordMatchesAnswer'
  BY <1>1 DEF WrittenRequestIsNotRepeated, RecordMatchesAnswer
<1> QED
  BY <1>3, <1>4, <1>5

LEMMA NextStep ==
    ASSUME IInv, [Next]_vars
    PROVE  IInv'
BY LoopStep, AdapterStep, RelayStep, ConclusionStep, HandlerStep, ContextStep DEF Next, Terminated

\* The inductive invariant holds in every reachable state of a request, whatever
\* upstreams, client and deadlines do.
THEOREM RunInvariance == Spec => []IInv
BY InitIInv, NextStep, PTL DEF Spec

----------------------------------------------------------------------------
(* The properties                                                          *)

\* The state of a run keeps its type, for every number of destinations and
\* attempts.
THEOREM RunTypeCorrect == Spec => []TypeOK
BY RunInvariance, PTL DEF IInv

\* A request that was reported as written and that no response confirmed stays
\* with its destination and is never classified as a plain error
\* (classifyAttempt).
THEOREM WrittenStays == Spec => []WrittenRequestIsNotRepeated
BY RunInvariance, PTL DEF IInv

\* The stored completion says what the client was given (outcomeForRunError,
\* runErrorStatus and the handler's response).
THEOREM RecordAgrees == Spec => []RecordMatchesAnswer
BY RunInvariance, PTL DEF IInv

\* Only the end of an attempt adds one.
LEMMA AttemptsGrow ==
    ASSUME IInv, Next, attempts' # attempts
    PROVE  Conclusion
<1>1. CASE Loop
  BY <1>1 DEF Loop, NoEligible, ContextEnded, BeginAttempt
<1>2. CASE Adapter
  BY <1>2 DEF Adapter, LocalFailure, WroteRequest, DoFails, OpenStream, Transmit, Responds, Return
<1>3. CASE Relay
  BY <1>3 DEF Relay, RelayChunk, RelayDone, RelayBreaks, RelayContextEnds, WriteFails, EventWritten,
     DoneWritten, Return
<1>4. CASE Handler
  BY <1>4 DEF Handler, Record, Complete, Finished, Respond
<1>5. CASE Contexts \/ Terminated
  BY <1>5 DEF Contexts, ClientLeaves, TotalExpires, AttemptExpires, Terminated, vars
<1> QED
  BY <1>1, <1>2, <1>3, <1>4, <1>5 DEF Next

\* How an attempt that ends after a context did may be reported.
EndReport(outcome, c) ==
    \/ outcome = "success" /\ c = "success"
    \/ gone /\ outcome = "cancelled" /\ c = "request_cancelled"
    \/ ~gone /\ outcome = "partial" /\ c = "stream_interrupted"
    \/ ~gone /\ outcome = "indeterminate" /\ c \in {"total_timeout", "indeterminate_upstream"}

LEMMA ReportStep ==
    ASSUME IInv, Conclusion, gone \/ expired
    PROVE  \E o \in Outcomes : Conclude(o) /\ EndReport(o, code')
<1> USE DEF Finish, Outcomes, EndReport
<1>0. gone \in BOOLEAN /\ expired \in BOOLEAN
  BY DEF IInv, TypeOK
<1>1. CASE Succeed
  BY <1>1 DEF Succeed
<1>2. CASE Interrupted
  <2>1. CASE gone
    BY <1>2, <2>1 DEF Interrupted
  <2>2. CASE ~gone
    BY <1>2, <2>2 DEF Interrupted
  <2> QED
    BY <2>1, <2>2
<1>3. CASE StreamAborted
  <2>1. CASE gone
    BY <1>3, <2>1 DEF StreamAborted
  <2>2. CASE ~gone
    BY <1>3, <2>2 DEF StreamAborted
  <2> QED
    BY <2>1, <2>2
<1>4. CASE \E left \in BOOLEAN : Classified(left)
  <2>1. PICK left \in BOOLEAN : Classified(left)
    BY <1>4
  <2> DEFINE c == classifyAttempt(left)
  <2>2. /\ c.retry = FALSE
        /\ \/ gone /\ c.outcome = "cancelled" /\ c.code = "request_cancelled"
           \/ ~gone /\ c.outcome = "indeterminate" /\ c.code = "total_timeout"
    BY DEF classifyAttempt
  <2>3. Conclude(c.outcome) /\ (c.retry \/ code' = c.code)
    BY <2>1 DEF Classified, Classify
  <2> HIDE DEF c
  <2> QED
    BY <2>2, <2>3
<1> QED
  BY <1>1, <1>2, <1>3, <1>4 DEF Conclusion

\* An attempt that ends after the client left or the deadline passed ends the run,
\* and is reported as a success or by what ended it (terminalContextError,
\* classifyAttempt and RunStream's branches for a broken relay).
THEOREM EndDecides == Spec => EndDecidesTheOutcome
<1>1. IInv /\ [Next]_vars =>
        [attempts' # attempts /\ (gone \/ expired) =>
           EndReport(attempts'[Len(attempts')].outcome, code')]_vars
  <2> SUFFICES ASSUME IInv, Next, attempts' # attempts, gone \/ expired
               PROVE  EndReport(attempts'[Len(attempts')].outcome, code')
    BY DEF vars
  <2>1. Conclusion
    BY AttemptsGrow
  <2>2. PICK o \in Outcomes : Conclude(o) /\ EndReport(o, code')
    BY <2>1, ReportStep
  <2>3. pc = "Returned"
    BY <2>1, ConclusionFacts
  <2>4. TypeOK /\ current \in Destination /\ ret \in Returns /\ Len(attempts) < MaxAttempts
    BY <2>3 DEF IInv, AttemptInv, ReturnInv, Underway
  <2>5. Len(attempts') = Len(attempts) + 1 /\ attempts'[Len(attempts) + 1].outcome = o
    BY <2>2, <2>4, ConcludeFacts
  <2> QED
    BY <2>2, <2>5
<1>2. [attempts' # attempts /\ (gone \/ expired) =>
           EndReport(attempts'[Len(attempts')].outcome, code')]_vars =>
      [attempts' # attempts /\ (gone \/ expired) =>
         LET outcome == attempts'[Len(attempts')].outcome IN
           \/ outcome = "success" /\ code' = "success"
           \/ gone /\ outcome = "cancelled" /\ code' = "request_cancelled"
           \/ ~gone /\ outcome = "partial" /\ code' = "stream_interrupted"
           \/ ~gone /\ outcome = "indeterminate" /\ code' \in {"total_timeout", "indeterminate_upstream"}
      ]_vars
  BY DEF EndReport
<1> QED
  BY <1>1, <1>2, RunInvariance, PTL DEF Spec, EndDecidesTheOutcome

LEMMA AnswerStep ==
    ASSUME IInv, Next
    PROVE  [Answer!Next]_<<source, answer>>
<1> USE DEF IInv, client, upstream
<1>1. CASE Relay
  <2>0. PICK w \in BOOLEAN :
          \/ RelayChunk \/ RelayDone \/ RelayBreaks \/ RelayContextEnds \/ WriteFails
          \/ EventWritten(w) \/ DoneWritten(w)
    BY <1>1 DEF Relay
  <2>1. Relaying
    BY <2>0 DEF Relaying, RelayChunk, RelayDone, RelayBreaks, RelayContextEnds, WriteFails,
                EventWritten, DoneWritten
  <2>2. /\ current \in Destination /\ committed \in BOOLEAN
        /\ committed => source = current /\ answer = "streaming"
        /\ ~committed => answer = "none"
        /\ pc = "WriteDone" => committed
    BY <2>1 DEF AttemptInv, AnswerInv, TypeOK, Underway, Relaying
  <2>3. CASE RelayChunk
    <3>1. source' = current /\ answer' = "streaming"
      BY <2>3 DEF RelayChunk
    <3> QED
      BY <2>2, <3>1 DEF Answer!Next, Answer!Open
  <2>4. CASE DoneWritten(w)
    <3>1. answer = "streaming" /\ answer' \in {"whole", "cut"} /\ source' = source
      BY <2>2, <2>4 DEF DoneWritten
    <3> QED
      BY <3>1 DEF Answer!Next, Answer!Close
  <2>5. CASE RelayDone \/ RelayBreaks \/ RelayContextEnds \/ WriteFails \/ EventWritten(w)
    BY <2>5 DEF RelayDone, RelayBreaks, RelayContextEnds, WriteFails, EventWritten
  <2> QED
    BY <2>0, <2>3, <2>4, <2>5
<1>2. CASE Finished
  <2>1. answer \in {"none", "streaming", "whole", "cut"}
    BY <1>2 DEF Finished, AnswerInv, TypeOK
  <2>2. /\ source' = source
        /\ answer = "streaming" => answer' = "cut"
        /\ answer = "none" => answer' = "silent"
        /\ answer \in {"whole", "cut"} => answer' = answer
    BY <1>2 DEF Finished
  <2> QED
    BY <2>1, <2>2 DEF Answer!Next, Answer!Close, Answer!Refuse
<1>3. CASE \E dropped \in BOOLEAN : Respond(dropped)
  <2>1. PICK w \in BOOLEAN : Respond(w)
    BY <1>3
  <2>2. answer = "none" /\ (code = "success" => current \in Destination)
    BY <2>1 DEF Respond, CodeInv, Over
  <2>3. CASE code = "success"
    <3>1. answer' \in {"whole", "cut"} /\ source' = current
      BY <2>1, <2>3 DEF Respond
    <3> QED
      BY <2>2, <2>3, <3>1 DEF Answer!Next, Answer!Reply
  <2>4. CASE code # "success"
    <3>1. answer' \in {"failed", "silent"} /\ source' = source
      BY <2>1, <2>4 DEF Respond
    <3> QED
      BY <2>2, <3>1 DEF Answer!Next, Answer!Refuse
  <2> QED
    BY <2>3, <2>4
<1>4. CASE Loop
  BY <1>4 DEF Loop, NoEligible, ContextEnded, BeginAttempt
<1>5. CASE Adapter
  BY <1>5 DEF Adapter, LocalFailure, WroteRequest, DoFails, OpenStream, Transmit, Responds
<1>6. CASE Conclusion
  BY <1>6 DEF Conclusion, Succeed, Interrupted, StreamAborted, Classified, Classify, Conclude
<1>7. CASE Record
  BY <1>7 DEF Record, Complete
<1>8. CASE Contexts \/ Terminated
  BY <1>8 DEF Contexts, ClientLeaves, TotalExpires, AttemptExpires, Terminated, vars
<1> QED
  BY <1>1, <1>2, <1>3, <1>4, <1>5, <1>6, <1>7, <1>8 DEF Next, Handler

\* The client observes one answer from one destination: every step of the router
\* is a step of ClientAnswer or invisible to the client (the relay's commitment
\* and the handler's response).
THEOREM OneAnswer == Spec => ImplementsAnswer
<1>1. Init => Answer!Init
  BY DEF Init, Answer!Init
<1>2. IInv /\ [Next]_vars => [Answer!Next]_<<source, answer>>
  BY AnswerStep DEF vars, client
<1> QED
  BY <1>1, <1>2, RunInvariance, PTL DEF Spec, ImplementsAnswer, Answer!Spec

----------------------------------------------------------------------------
(* Request records: types and the inductive invariant                      *)

Phases == {"new", "authenticated", "resolved", "loaded", "running", "ended", "unrecorded", "refused"}

HandlerState == [pc : Phases, permitted : SUBSET RouteId, route : RouteId \cup {Nil}, started : 0..MaxTime,
            todo : SUBSET Nat, done : Seq([dest : DestinationId, reset : Times \cup {Nil}])]

\* A route that was resolved was named by the token; what was tried, and what is
\* left to try, are different targets of it.
RequestInv(q, record) ==
    /\ q.pc = "running" => record = "open"
    /\ q.pc \in {"new", "authenticated", "resolved", "loaded", "refused"} => record = "none"
    /\ record = "complete" => q.pc = "ended"
    /\ q.pc \in {"new", "authenticated", "resolved"} => q.todo = {} /\ q.done = <<>>
    /\ q.pc \in {"resolved", "loaded", "running"} => q.route \in q.permitted
    /\ q.todo # {} => q.route \in RouteId /\ q.todo \subseteq DOMAIN Targets[q.route]
    /\ \A i \in DOMAIN q.done :
         /\ q.route \in q.permitted
         /\ \E j \in DOMAIN Targets[q.route] \ q.todo : Targets[q.route][j] = q.done[i].dest
    /\ \A i, j \in DOMAIN q.done : q.done[i].dest = q.done[j].dest => i = j

HandlersInv ==
    /\ req \in [Request -> HandlerState] /\ row \in [Request -> {"none", "open", "complete"}]
    /\ \A r \in Request : RequestInv(req[r], row[r])

\* What the administrator and the clock change.
SettingsType ==
    /\ alias \in RouteId \cup {Nil} /\ token \in {"valid", "invalid", "gone"}
    /\ route \in [RouteId -> {"on", "off", "gone"}] /\ dest \in [DestinationId -> {"on", "off", "gone"}]
    /\ allowed \in SUBSET RouteId /\ now \in 0..MaxTime

\* A cooldown ends in no earlier second than the latest reset recorded.
CooldownInv ==
    /\ cooldown \in [DestinationId -> Times \cup {Nil}] /\ limit \in [DestinationId -> Times]
    /\ \A d \in DestinationId :
         IF cooldown[d] = Nil THEN limit[d] = 0 ELSE Second(cooldown[d]) >= Second(limit[d])

RecordsInv == SettingsType /\ HandlersInv /\ CooldownInv /\ CooldownsHaveTheirRecord

LEMMA RecordsConstants ==
    /\ Targets \in [RouteId -> Seq(DestinationId)]
    /\ \A x \in RouteId : \A i, j \in DOMAIN Targets[x] : Targets[x][i] = Targets[x][j] => i = j
    /\ Inferred \in Nat /\ Maximum \in Nat /\ MaxTime \in Nat
    /\ Nil \notin RouteId /\ Nil \notin Nat /\ Times \subseteq Nat /\ 0 \in Times
    /\ \A t \in 0..MaxTime : t \in Times
  BY RequestRecordsAssumption DEF Times

\* Comparison of texts orders times within their seconds.
LEMMA TextOrder ==
    ASSUME NEW s \in Nat, NEW t \in Nat
    PROVE  /\ Second(s) \in Nat
           /\ ~TextLess(s, t) => Second(s) >= Second(t)
           /\ TextLess(s, t) => Second(s) <= Second(t)
           /\ ~TextLess(s, s)
           /\ \A u \in Nat : TextLess(s, t) /\ TextLess(t, u) => TextLess(s, u)
  BY DEF Second, TextLess

LEMMA RetryResets ==
    ASSUME NEW h \in Header, NEW observed \in 0..MaxTime
    PROVE  retryReset(h, observed) \in Times
  <1>1. Inferred \in Nat /\ Maximum \in Nat /\ MaxTime \in Nat  BY RequestRecordsAssumption
  <1>2. h.value \in Nat /\ h.kind \in {"seconds", "date", "none"}  BY RequestRecordsAssumption
  <1>3. Bounded(h.value) \in 0..(Maximum + 1)
    <2>1. PICK n \in Nat : n = h.value  BY <1>2
    <2>2. Bounded(n) \in 0..(Maximum + 1)  BY <1>1 DEF Bounded
    <2> QED  BY <2>1, <2>2
  <1>4. CASE h.kind = "seconds"
    <2>1. retryReset(h, observed) = observed + 2 * Bounded(h.value)  BY <1>4 DEF retryReset
    <2> QED  BY <2>1, <1>1, <1>3 DEF Times
  <1>5. CASE h.kind = "date" /\ 2 * h.value > observed
    <2>1. retryReset(h, observed) =
            IF 2 * h.value > observed + 2 * Maximum THEN observed + 2 * Maximum ELSE 2 * h.value
      BY <1>5 DEF retryReset
    <2> QED  BY <2>1, <1>1, <1>2, <1>5 DEF Times
  <1>6. CASE h.kind # "seconds" /\ ~(h.kind = "date" /\ 2 * h.value > observed)
    <2>1. retryReset(h, observed) = observed + 2 * Inferred  BY <1>6 DEF retryReset
    <2> QED  BY <2>1, <1>1 DEF Times
  <1> QED  BY <1>4, <1>5, <1>6

\* The position that is tried next is one of those left.
LEMMA FirstLeft ==
    ASSUME NEW todo \in SUBSET Nat, todo # {}
    PROVE  First(todo) \in todo
  <1>1. \E i \in todo : \A j \in todo : i <= j  BY LeastElement
  <1> QED  BY <1>1 DEF First

----------------------------------------------------------------------------
(* Request records: the steps of a handler                                 *)

\* One handler moves, and with it its own row.
LEMMA Moves ==
    ASSUME HandlersInv, NEW r \in Request, NEW q \in HandlerState, NEW record \in {"none", "open", "complete"},
           req' = [req EXCEPT ![r] = q], row' = [row EXCEPT ![r] = record], RequestInv(q, record)
    PROVE  HandlersInv'
  <1>1. req' \in [Request -> HandlerState] /\ row' \in [Request -> {"none", "open", "complete"}]
    BY DEF HandlersInv
  <1>2. ASSUME NEW s \in Request PROVE RequestInv(req'[s], row'[s])
    <2>1. CASE s = r
      <3>1. req'[s] = q /\ row'[s] = record  BY <2>1 DEF HandlersInv
      <3> QED  BY <3>1
    <2>2. CASE s # r
      <3>1. req'[s] = req[s] /\ row'[s] = row[s]  BY <2>2 DEF HandlersInv
      <3> QED  BY <3>1 DEF HandlersInv
    <2> QED  BY <2>1, <2>2
  <1> QED  BY <1>1, <1>2 DEF HandlersInv

\* What was tried is settled when the record is complete.
LEMMA SettledRecords ==
    ASSUME CooldownsHaveTheirRecord, cooldown' = cooldown,
           \A s \in Request : row'[s] = "complete" <=> row[s] = "complete",
           \A s \in Request : row[s] = "complete" => req'[s].done = req[s].done
    PROVE  CooldownsHaveTheirRecord'
  <1>1. ASSUME NEW s \in Request, row[s] = "complete", NEW d \in DestinationId
        PROVE  Resets(s, d)' = Resets(s, d)
    BY <1>1 DEF Resets
  <1>2. ASSUME NEW s \in Request, NEW d \in DestinationId, row'[s] = "complete", NEW t \in Resets(s, d)'
        PROVE  cooldown'[d] # Nil /\ ~TextLess(cooldown'[d], t)
    BY <1>1, <1>2 DEF CooldownsHaveTheirRecord
  <1>3. ASSUME NEW d \in DestinationId, cooldown'[d] # Nil
        PROVE  \E s \in Request : row'[s] = "complete" /\ cooldown'[d] \in Resets(s, d)'
    <2>1. PICK s \in Request : row[s] = "complete" /\ cooldown[d] \in Resets(s, d)
      BY <1>3 DEF CooldownsHaveTheirRecord
    <2> QED  BY <2>1, <1>1
  <1> QED  BY <1>2, <1>3 DEF CooldownsHaveTheirRecord

\* A refused request leaves what it tried as it was.
LEMMA Keeps ==
    ASSUME HandlersInv, NEW r \in Request, NEW q \in HandlerState, req' = [req EXCEPT ![r] = q],
           UNCHANGED row, RequestInv(q, row[r])
    PROVE  HandlersInv'
  <1>1. row[r] \in {"none", "open", "complete"} /\ row' = [row EXCEPT ![r] = row[r]]  BY DEF HandlersInv
  <1> QED  BY <1>1, Moves

\* The steps of a handler: what its own state becomes.
LEMMA AuthenticateStep ==
    ASSUME RecordsInv, NEW r \in Request, Authenticate(r)
    PROVE  HandlersInv'
  <1>1. PICK q \in HandlerState : q = req[r] /\ RequestInv(q, row[r])  BY DEF RecordsInv, HandlersInv
  <1>2. PICK p : p = IF token = "valid" THEN [q EXCEPT !.pc = "authenticated", !.permitted = allowed]
                    ELSE [q EXCEPT !.pc = "refused"]
    OBVIOUS
  <1>3. q.pc = "new" /\ req' = [req EXCEPT ![r] = p] /\ UNCHANGED row
    BY <1>1, <1>2 DEF Authenticate, Step, Refused
  <1>4. p \in HandlerState  BY <1>2 DEF RecordsInv, SettingsType, HandlerState, Phases
  <1>5. /\ p.pc \in {"authenticated", "refused"} /\ p.todo = q.todo /\ p.done = q.done
        /\ p.route = q.route
    BY <1>2 DEF HandlerState
  <1>6. q.todo = {} /\ q.done = <<>> /\ row[r] = "none"  BY <1>1, <1>3 DEF RequestInv
  <1>7. RequestInv(p, row[r])  BY <1>5, <1>6 DEF RequestInv
  <1> QED  BY <1>3, <1>4, <1>7, Keeps DEF RecordsInv

LEMMA ResolveAliasStep ==
    ASSUME RecordsInv, NEW r \in Request, ResolveAlias(r)
    PROVE  HandlersInv'
  <1>1. PICK q \in HandlerState : q = req[r] /\ RequestInv(q, row[r])  BY DEF RecordsInv, HandlersInv
  <1>2. PICK p : p = IF alias \in q.permitted THEN [q EXCEPT !.pc = "resolved", !.route = alias]
                    ELSE [q EXCEPT !.pc = "refused"]
    OBVIOUS
  <1>3. q.pc = "authenticated" /\ req' = [req EXCEPT ![r] = p] /\ UNCHANGED row
    BY <1>1, <1>2 DEF ResolveAlias, Step, Refused
  <1>4. p \in HandlerState  BY <1>2 DEF RecordsInv, SettingsType, HandlerState, Phases
  <1>5. /\ p.pc \in {"resolved", "refused"} /\ p.todo = q.todo /\ p.done = q.done
        /\ p.pc = "resolved" => p.route \in p.permitted
    BY <1>2 DEF HandlerState
  <1>6. q.todo = {} /\ q.done = <<>> /\ row[r] = "none"  BY <1>1, <1>3 DEF RequestInv
  <1>7. RequestInv(p, row[r])  BY <1>5, <1>6 DEF RequestInv
  <1> QED  BY <1>3, <1>4, <1>7, Keeps DEF RecordsInv

LEMMA LoadStep ==
    ASSUME RecordsInv, NEW r \in Request, Load(r)
    PROVE  HandlersInv'
  <1>1. PICK q \in HandlerState : q = req[r] /\ RequestInv(q, row[r])  BY DEF RecordsInv, HandlersInv
  <1>2. PICK p : p = IF Loadable(r) THEN [q EXCEPT !.pc = "loaded", !.route = alias, !.todo = Snapshot(alias)]
                    ELSE [q EXCEPT !.pc = "refused"]
    OBVIOUS
  <1>3. q.pc = "resolved" /\ req' = [req EXCEPT ![r] = p] /\ UNCHANGED row
    BY <1>1, <1>2 DEF Load, Step, Refused
  <1>4. Loadable(r) => alias \in RouteId /\ alias = q.route
    BY <1>1 DEF Loadable, RecordsInv, SettingsType
  <1>5. Loadable(r) => Snapshot(alias) \in SUBSET Nat /\ Snapshot(alias) \subseteq DOMAIN Targets[alias]
    BY <1>4, RecordsConstants DEF Snapshot
  <1>6. p \in HandlerState  BY <1>2, <1>4, <1>5 DEF HandlerState, Phases
  <1>7. /\ p.pc \in {"loaded", "refused"} /\ p.done = q.done
        /\ p.route = q.route /\ p.permitted = q.permitted
        /\ p.pc = "loaded" => alias \in RouteId /\ p.todo = Snapshot(alias)
        /\ p.pc = "refused" => p.todo = q.todo
        /\ p.pc = "loaded" => p.route = alias /\ Snapshot(alias) \subseteq DOMAIN Targets[alias]
    BY <1>2, <1>4, <1>5 DEF HandlerState
  <1>8. q.todo = {} /\ q.done = <<>> /\ row[r] = "none" /\ q.route \in q.permitted
    BY <1>1, <1>3 DEF RequestInv
  <1>9. RequestInv(p, row[r])  BY <1>7, <1>8 DEF RequestInv
  <1> QED  BY <1>3, <1>6, <1>9, Keeps DEF RecordsInv

LEMMA BeginStep ==
    ASSUME RecordsInv, NEW r \in Request, Begin(r)
    PROVE  HandlersInv'
  <1>1. PICK q \in HandlerState : q = req[r] /\ RequestInv(q, row[r])  BY DEF RecordsInv, HandlersInv
  <1>2. PICK run, refused : /\ run = [q EXCEPT !.pc = "running", !.started = now]
                            /\ refused = [q EXCEPT !.pc = "refused"]
    OBVIOUS
  <1>3. /\ q.pc = "loaded"
        /\ \/ req' = [req EXCEPT ![r] = run] /\ row' = [row EXCEPT ![r] = "open"]
           \/ req' = [req EXCEPT ![r] = refused] /\ UNCHANGED row
    BY <1>1, <1>2 DEF Begin, Step, Refused
  <1>4. run \in HandlerState /\ refused \in HandlerState
    BY <1>2 DEF RecordsInv, SettingsType, HandlerState, Phases
  <1>5. /\ run.pc = "running" /\ refused.pc = "refused"
        /\ \A p \in {run, refused} : p.todo = q.todo /\ p.done = q.done /\ p.route = q.route /\ p.permitted = q.permitted
    BY <1>2 DEF HandlerState
  <1>6. row[r] = "none" /\ q.route \in q.permitted  BY <1>1, <1>3 DEF RequestInv
  <1>7. RequestInv(run, "open") /\ RequestInv(refused, row[r])  BY <1>1, <1>5, <1>6 DEF RequestInv
  <1> QED  BY <1>3, <1>4, <1>7, Keeps, Moves DEF RecordsInv

LEMMA AttemptStep ==
    ASSUME RecordsInv, NEW r \in Request, NEW reset \in Times \cup {Nil}, Attempt(r, reset)
    PROVE  HandlersInv'
  <1>1. PICK q \in HandlerState : q = req[r] /\ RequestInv(q, row[r])  BY DEF RecordsInv, HandlersInv
  <1>2. PICK i : i = First(q.todo)  OBVIOUS
  <1>3. PICK e : e = [dest |-> Targets[q.route][i], reset |-> reset]  OBVIOUS
  <1>4. PICK p : p = [q EXCEPT !.todo = q.todo \ {i}, !.done = Append(q.done, e)]  OBVIOUS
  <1>5. q.todo # {} /\ q.pc = "running" /\ req' = [req EXCEPT ![r] = p] /\ UNCHANGED row
    <2>1. [req[r] EXCEPT !.todo = @ \ {First(req[r].todo)},
                         !.done = Append(@, [dest |-> Targets[req[r].route][First(req[r].todo)], reset |-> reset])] = p
      BY <1>1, <1>2, <1>3, <1>4
    <2> QED  BY <1>1, <2>1 DEF Attempt, Step
  <1>6. i \in q.todo  BY <1>2, <1>5, FirstLeft DEF HandlerState
  <1>7. q.route \in RouteId /\ q.todo \subseteq DOMAIN Targets[q.route] /\ q.route \in q.permitted
    BY <1>1, <1>5 DEF RequestInv
  <1>8. e \in [dest : DestinationId, reset : Times \cup {Nil}] /\ e.dest = Targets[q.route][i]
    <2>1. Targets[q.route] \in Seq(DestinationId)  BY <1>7, RecordsConstants
    <2>2. Targets[q.route][i] \in DestinationId  BY <2>1, <1>6, <1>7
    <2> QED  BY <2>2, <1>3
  <1>9. q.done \in Seq([dest : DestinationId, reset : Times \cup {Nil}])  BY DEF HandlerState
  <1>10. /\ p.pc = q.pc /\ p.permitted = q.permitted /\ p.route = q.route
         /\ p.todo = q.todo \ {i} /\ p.done = Append(q.done, e)
    BY <1>4 DEF HandlerState
  <1>11. p \in HandlerState
    <2>1. Append(q.done, e) \in Seq([dest : DestinationId, reset : Times \cup {Nil}])  BY <1>8, <1>9
    <2>2. q.todo \ {i} \in SUBSET Nat  BY DEF HandlerState
    <2> QED  BY <1>4, <2>1, <2>2 DEF HandlerState
  <1>12. /\ DOMAIN p.done = 1..(Len(q.done) + 1) /\ DOMAIN q.done = 1..Len(q.done) /\ Len(q.done) \in Nat
         /\ p.done[Len(q.done) + 1] = e
         /\ \A k \in 1..Len(q.done) : p.done[k] = q.done[k]
    BY <1>8, <1>9, <1>10
  <1>13. ASSUME NEW k \in DOMAIN p.done
         PROVE  \E j \in DOMAIN Targets[p.route] \ p.todo : Targets[p.route][j] = p.done[k].dest
    <2>1. CASE k = Len(q.done) + 1
      <3>1. i \in DOMAIN Targets[p.route] \ p.todo  BY <1>6, <1>7, <1>10
      <3>2. Targets[p.route][i] = p.done[k].dest  BY <2>1, <1>8, <1>10, <1>12
      <3> QED  BY <3>1, <3>2
    <2>2. CASE k # Len(q.done) + 1
      <3>1. k \in DOMAIN q.done /\ p.done[k] = q.done[k]  BY <2>2, <1>12
      <3>2. PICK j \in DOMAIN Targets[q.route] \ q.todo : Targets[q.route][j] = q.done[k].dest
        BY <3>1, <1>1 DEF RequestInv
      <3> QED  BY <3>1, <3>2, <1>10
    <2> QED  BY <2>1, <2>2
  \* What has just been tried was left until now, and the targets of a route differ.
  <1>14. ASSUME NEW k \in DOMAIN q.done PROVE q.done[k].dest # e.dest
    <2>1. PICK j \in DOMAIN Targets[q.route] \ q.todo : Targets[q.route][j] = q.done[k].dest
      BY <1>1 DEF RequestInv
    <2>2. j # i  BY <2>1, <1>6
    <2> QED  BY <2>1, <2>2, <1>6, <1>7, <1>8, RecordsConstants
  <1>15. ASSUME NEW j \in DOMAIN p.done, NEW k \in DOMAIN p.done, p.done[j].dest = p.done[k].dest
         PROVE  j = k
    <2>1. CASE j \in DOMAIN q.done /\ k \in DOMAIN q.done
      BY <2>1, <1>1, <1>12, <1>15 DEF RequestInv
    <2>2. CASE j \notin DOMAIN q.done /\ k \in DOMAIN q.done
      <3>1. p.done[j] = e /\ p.done[k] = q.done[k]  BY <2>2, <1>12
      <3> QED  BY <2>2, <3>1, <1>14, <1>15
    <2>3. CASE j \in DOMAIN q.done /\ k \notin DOMAIN q.done
      <3>1. p.done[k] = e /\ p.done[j] = q.done[j]  BY <2>3, <1>12
      <3> QED  BY <2>3, <3>1, <1>14, <1>15
    <2>4. CASE j \notin DOMAIN q.done /\ k \notin DOMAIN q.done
      BY <2>4, <1>12
    <2> QED  BY <2>1, <2>2, <2>3, <2>4
  <1>16. row[r] = "open"  BY <1>1, <1>5 DEF RequestInv
  <1>17. RequestInv(p, row[r])
    BY <1>5, <1>7, <1>10, <1>13, <1>15, <1>16 DEF RequestInv
  <1> QED  BY <1>5, <1>11, <1>17, Keeps DEF RecordsInv

\* The engine has returned: the record was completed, refused or lost.
LEMMA EndStep ==
    ASSUME RecordsInv, NEW r \in Request, NEW end \in {"ended", "unrecorded"},
           Step(r, "running", [req[r] EXCEPT !.pc = end]),
           \/ UNCHANGED row
           \/ end = "ended" /\ row' = [row EXCEPT ![r] = "complete"]
    PROVE  HandlersInv'
  <1>1. PICK q \in HandlerState : q = req[r] /\ RequestInv(q, row[r])  BY DEF RecordsInv, HandlersInv
  <1>2. PICK p : p = [q EXCEPT !.pc = end]  OBVIOUS
  <1>3. q.pc = "running" /\ req' = [req EXCEPT ![r] = p]  BY <1>1, <1>2 DEF Step
  <1>4. p \in HandlerState  BY <1>2 DEF HandlerState, Phases
  <1>5. /\ p.pc = end /\ p.todo = q.todo /\ p.done = q.done
        /\ p.route = q.route /\ p.permitted = q.permitted
    BY <1>2 DEF HandlerState
  <1>6. row[r] = "open" /\ q.route \in q.permitted  BY <1>1, <1>3 DEF RequestInv
  <1>7. RequestInv(p, row[r]) /\ (end = "ended" => RequestInv(p, "complete"))
    BY <1>1, <1>5, <1>6 DEF RequestInv
  <1> QED  BY <1>3, <1>4, <1>7, Keeps, Moves DEF RecordsInv

LEMMA CrashStep ==
    ASSUME RecordsInv, Crash
    PROVE  HandlersInv'
  <1>1. ASSUME NEW r \in Request
        PROVE  req'[r] \in HandlerState /\ RequestInv(req'[r], row'[r])
    <2>1. PICK q \in HandlerState : q = req[r] /\ RequestInv(q, row[r])  BY DEF RecordsInv, HandlersInv
    <2>2. row' = row  BY DEF Crash
    <2>3. CASE r \in InFlight
      <3>1. req'[r] = [q EXCEPT !.pc = "ended"]  BY <2>1, <2>3 DEF Crash
      <3>2. PICK p : p = req'[r]  OBVIOUS
      <3>3. p \in HandlerState  BY <3>1, <3>2 DEF HandlerState, Phases
      <3>4. /\ p.pc = "ended" /\ p.todo = q.todo /\ p.done = q.done
            /\ p.route = q.route /\ p.permitted = q.permitted
        BY <3>1, <3>2 DEF HandlerState
      <3>5. RequestInv(p, row[r])  BY <2>1, <3>4 DEF RequestInv
      <3> QED  BY <2>2, <3>2, <3>3, <3>5
    <2>4. CASE r \notin InFlight
      <3>1. req'[r] = q  BY <2>1, <2>4 DEF Crash
      <3> QED  BY <2>1, <2>2, <3>1
    <2> QED  BY <2>3, <2>4
  <1>2. req' = [r \in Request |-> req'[r]]  BY DEF Crash
  <1> QED  BY <1>1, <1>2 DEF RecordsInv, HandlersInv, Crash

----------------------------------------------------------------------------
(* Request records: the cooldowns                                          *)

\* A request has at most one reset for a destination.
LEMMA OneReset ==
    ASSUME HandlersInv, NEW r \in Request, NEW d \in DestinationId, NEW t \in Resets(r, d)
    PROVE  /\ t \in Times
           /\ (CHOOSE u \in Resets(r, d) : TRUE) = t
  <1>1. PICK q \in HandlerState : q = req[r] /\ RequestInv(q, row[r])  BY DEF HandlersInv
  <1>2. ASSUME NEW u \in Resets(r, d)
        PROVE  \E i \in DOMAIN q.done : q.done[i].dest = d /\ q.done[i].reset = u /\ u # Nil
    BY <1>1, <1>2 DEF Resets
  <1>3. \A u \in Resets(r, d) : u = t
    <2> SUFFICES ASSUME NEW u \in Resets(r, d) PROVE u = t
      OBVIOUS
    <2>1. PICK i \in DOMAIN q.done : q.done[i].dest = d /\ q.done[i].reset = u  BY <1>2
    <2>2. PICK j \in DOMAIN q.done : q.done[j].dest = d /\ q.done[j].reset = t  BY <1>2
    <2>3. i = j  BY <1>1, <2>1, <2>2 DEF RequestInv
    <2> QED  BY <2>1, <2>2, <2>3
  <1>4. t \in Times
    <2>1. PICK j \in DOMAIN q.done : q.done[j].dest = d /\ q.done[j].reset = t /\ t # Nil  BY <1>2
    <2>2. PICK E : E = [dest : DestinationId, reset : Times \cup {Nil}]  OBVIOUS
    <2>3. q.done \in Seq(E)  BY <2>2 DEF HandlerState
    <2>4. q.done[j] \in E  BY <2>1, <2>3
    <2> QED  BY <2>1, <2>2, <2>4
  <1>5. (CHOOSE u \in Resets(r, d) : TRUE) \in Resets(r, d)  OBVIOUS
  <1> QED  BY <1>3, <1>4, <1>5

\* What a completion records for one destination.
Recorded(r, d) ==
    IF Resets(r, d) = {} THEN cooldown'[d] = cooldown[d] /\ limit'[d] = limit[d]
    ELSE \E t \in Resets(r, d) :
           /\ cooldown'[d] = recordRateLimit(cooldown[d], t)
           /\ limit'[d] = IF t > limit[d] THEN t ELSE limit[d]

LEMMA CompletionRecords ==
    ASSUME RecordsInv, NEW r \in Request, CompleteRecord(r),
           ~(UNCHANGED <<row, cooldown, limit>>)
    PROVE  /\ Step(r, "running", [req[r] EXCEPT !.pc = "ended"])
           /\ row' = [row EXCEPT ![r] = "complete"]
           /\ cooldown' = [d \in DestinationId |-> cooldown'[d]]
           /\ limit' = [d \in DestinationId |-> limit'[d]]
           /\ \A d \in DestinationId : Recorded(r, d)
  <1>1. /\ Step(r, "running", [req[r] EXCEPT !.pc = "ended"])
        /\ row' = [row EXCEPT ![r] = "complete"]
        /\ cooldown' = [d \in DestinationId |->
             IF Resets(r, d) = {} THEN cooldown[d]
             ELSE recordRateLimit(cooldown[d], CHOOSE t \in Resets(r, d) : TRUE)]
        /\ limit' = [d \in DestinationId |->
             LET t == IF Resets(r, d) = {} THEN 0 ELSE CHOOSE u \in Resets(r, d) : TRUE
             IN  IF t > limit[d] THEN t ELSE limit[d]]
    BY DEF CompleteRecord
  <1>2. ASSUME NEW d \in DestinationId PROVE Recorded(r, d)
    <2>1. limit[d] \in Nat  BY RecordsConstants DEF RecordsInv, CooldownInv
    <2>2. CASE Resets(r, d) = {}
      <3>1. cooldown'[d] = cooldown[d]  BY <1>1, <2>2
      <3>2. limit'[d] = IF 0 > limit[d] THEN 0 ELSE limit[d]  BY <1>1, <2>2
      <3>3. limit'[d] = limit[d]  BY <2>1, <3>2
      <3> QED  BY <2>2, <3>1, <3>3 DEF Recorded
    <2>3. CASE Resets(r, d) # {}
      <3>1. PICK t \in Resets(r, d) : TRUE  BY <2>3
      <3>2. (CHOOSE u \in Resets(r, d) : TRUE) = t  BY OneReset DEF RecordsInv
      <3>3. cooldown'[d] = recordRateLimit(cooldown[d], t)  BY <1>1, <2>3, <3>2
      <3>4. limit'[d] = IF t > limit[d] THEN t ELSE limit[d]  BY <1>1, <2>3, <3>2
      <3> QED  BY <2>3, <3>1, <3>3, <3>4 DEF Recorded
    <2> QED  BY <2>2, <2>3
  <1> QED  BY <1>1, <1>2

\* The stored text of a cooldown only grows, and covers the recorded reset.
LEMMA RecordingGrows ==
    ASSUME RecordsInv, NEW r \in Request, NEW d \in DestinationId, Recorded(r, d)
    PROVE  /\ cooldown'[d] \in Times \cup {Nil} /\ limit'[d] \in Times
           /\ IF cooldown'[d] = Nil THEN limit'[d] = 0 ELSE Second(cooldown'[d]) >= Second(limit'[d])
           /\ cooldown[d] # Nil => cooldown'[d] # Nil
           /\ cooldown[d] # Nil /\ cooldown'[d] # cooldown[d] => TextLess(cooldown[d], cooldown'[d])
           /\ \A t \in Resets(r, d) : cooldown'[d] # Nil /\ ~TextLess(cooldown'[d], t)
           /\ cooldown'[d] # Nil => cooldown'[d] = cooldown[d] \/ cooldown'[d] \in Resets(r, d)
  <1>1. PICK c \in Times \cup {Nil}, l \in Times : c = cooldown[d] /\ l = limit[d]
    BY DEF RecordsInv, CooldownInv
  <1>2. IF c = Nil THEN l = 0 ELSE Second(c) >= Second(l)  BY <1>1 DEF RecordsInv, CooldownInv
  <1>3. CASE Resets(r, d) = {}
    BY <1>1, <1>2, <1>3 DEF Recorded
  <1>4. CASE Resets(r, d) # {}
    <2>1. PICK t \in Resets(r, d) : cooldown'[d] = recordRateLimit(c, t) /\ limit'[d] = IF t > l THEN t ELSE l
      BY <1>1, <1>4 DEF Recorded
    <2>2. t \in Times /\ \A u \in Resets(r, d) : u = t  BY OneReset DEF RecordsInv
    <2>3. PICK e, m : e = cooldown'[d] /\ m = limit'[d]  OBVIOUS
    <2>4. e = (IF c = Nil \/ TextLess(c, t) THEN t ELSE c) /\ m = IF t > l THEN t ELSE l
      BY <2>1, <2>3 DEF recordRateLimit
    <2>5. t \in Nat /\ l \in Nat /\ t # Nil /\ m \in Times  BY <2>2, <2>4, RecordsConstants
    <2>6. CASE c = Nil
      <3>1. e = t /\ l = 0  BY <2>4, <2>6, <1>2
      <3>2. m = t  BY <2>4, <2>5, <3>1
      <3>3. Second(e) >= Second(m) /\ ~TextLess(e, t)  BY <3>1, <3>2, <2>5, TextOrder
      <3> QED  BY <1>1, <2>2, <2>3, <2>5, <2>6, <3>1, <3>3
    <2>7. CASE c # Nil
      <3>1. /\ c \in Nat /\ Second(c) >= Second(l) /\ Second(c) \in Nat
            /\ Second(l) \in Nat /\ Second(t) \in Nat
        BY <1>2, <2>5, <2>7, RecordsConstants, TextOrder
      <3>2. CASE TextLess(c, t)
        <4>1. e = t  BY <2>4, <3>2
        <4>2. Second(c) <= Second(t)  BY <2>5, <3>1, <3>2, TextOrder
        <4>3. m = t \/ m = l  BY <2>4
        <4>4. Second(e) >= Second(m) /\ ~TextLess(e, t)  BY <2>5, <3>1, <4>1, <4>2, <4>3, TextOrder
        <4> QED  BY <1>1, <2>2, <2>3, <2>5, <2>7, <3>2, <4>1, <4>4
      <3>3. CASE ~TextLess(c, t)
        <4>1. e = c  BY <2>4, <2>7, <3>3
        <4>2. Second(c) >= Second(t)  BY <2>5, <3>1, <3>3, TextOrder
        <4>3. m = t \/ m = l  BY <2>4
        <4>4. Second(e) >= Second(m) /\ ~TextLess(e, t)  BY <3>1, <3>3, <4>1, <4>2, <4>3
        <4> QED  BY <1>1, <2>2, <2>3, <2>5, <2>7, <4>1, <4>4
      <3> QED  BY <3>2, <3>3
    <2> QED  BY <2>6, <2>7
  <1> QED  BY <1>3, <1>4

LEMMA CompletionKeepsRecords ==
    ASSUME RecordsInv, NEW r \in Request, CompleteRecord(r)
    PROVE  CooldownInv' /\ CooldownsHaveTheirRecord'
  <1>1. CASE UNCHANGED <<row, cooldown, limit>>
    <2>1. ASSUME NEW s \in Request, row[s] = "complete" PROVE req'[s].done = req[s].done
      <3>1. row[r] = "open"
        BY DEF CompleteRecord, RecordsInv, HandlersInv, RequestInv
      <3>2. s # r  BY <2>1, <3>1
      <3> QED  BY <3>2 DEF CompleteRecord, Step, RecordsInv, HandlersInv
    <2>2. CooldownsHaveTheirRecord'  BY <1>1, <2>1, SettledRecords DEF RecordsInv
    <2> QED  BY <1>1, <2>2 DEF RecordsInv, CooldownInv
  <1>2. CASE ~UNCHANGED <<row, cooldown, limit>>
    <2>1. /\ Step(r, "running", [req[r] EXCEPT !.pc = "ended"])
          /\ row' = [row EXCEPT ![r] = "complete"]
          /\ cooldown' = [d \in DestinationId |-> cooldown'[d]]
          /\ limit' = [d \in DestinationId |-> limit'[d]]
          /\ \A d \in DestinationId : Recorded(r, d)
      BY <1>2, CompletionRecords
    <2>2. CooldownInv'
      <3>1. \A d \in DestinationId :
              /\ cooldown'[d] \in Times \cup {Nil} /\ limit'[d] \in Times
              /\ IF cooldown'[d] = Nil THEN limit'[d] = 0 ELSE Second(cooldown'[d]) >= Second(limit'[d])
        BY <2>1, RecordingGrows
      <3> QED  BY <2>1, <3>1 DEF CooldownInv
    <2>3. ASSUME NEW s \in Request PROVE req'[s].done = req[s].done
      <3>1. PICK q \in HandlerState : q = req[s]  BY DEF RecordsInv, HandlersInv
      <3>2. CASE s = r
        <4>1. req'[s] = [q EXCEPT !.pc = "ended"]  BY <2>1, <3>1, <3>2 DEF Step, RecordsInv, HandlersInv
        <4> QED  BY <3>1, <4>1 DEF HandlerState
      <3>3. CASE s # r
        BY <2>1, <3>3 DEF Step, RecordsInv, HandlersInv
      <3> QED  BY <3>2, <3>3
    <2>4. ASSUME NEW s \in Request, NEW d \in DestinationId PROVE Resets(s, d)' = Resets(s, d)
      BY <2>3 DEF Resets
    <2>5. row'[r] = "complete" /\ \A s \in Request : s # r => row'[s] = row[s]
      BY <2>1 DEF RecordsInv, HandlersInv
    <2>6. ASSUME NEW s \in Request, NEW d \in DestinationId, row'[s] = "complete", NEW t \in Resets(s, d)'
          PROVE  cooldown'[d] # Nil /\ ~TextLess(cooldown'[d], t)
      <3>1. t \in Resets(s, d) /\ Recorded(r, d)  BY <2>1, <2>4, <2>6
      <3>2. CASE s = r
        BY <3>1, <3>2, RecordingGrows
      <3>3. CASE s # r
        <4>1. cooldown[d] # Nil /\ ~TextLess(cooldown[d], t)
          BY <2>5, <2>6, <3>1, <3>3 DEF RecordsInv, CooldownsHaveTheirRecord
        <4>2. cooldown'[d] # Nil /\ (cooldown'[d] = cooldown[d] \/ TextLess(cooldown[d], cooldown'[d]))
          BY <3>1, <4>1, RecordingGrows
        <4>3. cooldown[d] \in Nat /\ cooldown'[d] \in Nat /\ t \in Nat
          BY <3>1, <4>1, <4>2, RecordingGrows, OneReset, RecordsConstants DEF RecordsInv, CooldownInv
        <4>4. PICK c \in Nat, e \in Nat : c = cooldown[d] /\ e = cooldown'[d]  BY <4>3
        <4>5. ~TextLess(e, t)  BY <4>1, <4>2, <4>3, <4>4, TextOrder
        <4> QED  BY <4>2, <4>4, <4>5
      <3> QED  BY <3>2, <3>3
    <2>7. ASSUME NEW d \in DestinationId, cooldown'[d] # Nil
          PROVE  \E s \in Request : row'[s] = "complete" /\ cooldown'[d] \in Resets(s, d)'
      <3>1. Recorded(r, d)  BY <2>1
      <3>2. CASE cooldown'[d] \in Resets(r, d)
        BY <2>4, <2>5, <3>2
      <3>3. CASE cooldown'[d] = cooldown[d]
        <4>1. PICK s \in Request : row[s] = "complete" /\ cooldown[d] \in Resets(s, d)
          BY <2>7, <3>3 DEF RecordsInv, CooldownsHaveTheirRecord
        <4>2. row'[s] = "complete"  BY <2>5, <4>1
        <4> QED  BY <2>4, <3>3, <4>1, <4>2
      <3> QED  BY <2>7, <3>1, <3>2, <3>3, RecordingGrows
    <2> QED  BY <2>2, <2>6, <2>7 DEF CooldownsHaveTheirRecord
  <1> QED  BY <1>1, <1>2

----------------------------------------------------------------------------
(* Request records: the invariant holds                                    *)

LEMMA RecordsInitInv == RecordsInit => RecordsInv
  <1> SUFFICES ASSUME RecordsInit PROVE RecordsInv
    OBVIOUS
  <1>1. SettingsType  BY RecordsConstants DEF RecordsInit, SettingsType
  <1>2. HandlersInv
    <2>1. Idle \in HandlerState  BY RecordsConstants DEF Idle, HandlerState, Phases
    <2>2. RequestInv(Idle, "none")  BY DEF RequestInv, Idle
    <2> QED  BY <2>1, <2>2 DEF HandlersInv, RecordsInit
  <1>3. CooldownInv  BY RecordsConstants DEF RecordsInit, CooldownInv
  <1>4. CooldownsHaveTheirRecord  BY DEF RecordsInit, CooldownsHaveTheirRecord
  <1> QED  BY <1>1, <1>2, <1>3, <1>4 DEF RecordsInv

LEMMA RecordsNextInv ==
    ASSUME RecordsInv, [RecordsNext]_recordsVars
    PROVE  RecordsInv'
  <1>1. ASSUME NEW r \in Request, Handle(r) PROVE RecordsInv'
    <2>1. SettingsType'
      BY <1>1 DEF Handle, Authenticate, ResolveAlias, Load, Begin, CompleteRecord, CompleteFails,
         Attempt,
                  config, RecordsInv, SettingsType
    <2>2. HandlersInv'
      <3>1. CASE Authenticate(r)  BY <3>1, AuthenticateStep
      <3>2. CASE ResolveAlias(r)  BY <3>2, ResolveAliasStep
      <3>3. CASE Load(r)  BY <3>3, LoadStep
      <3>4. CASE Begin(r)  BY <3>4, BeginStep
      <3>5. CASE CompleteRecord(r)
        <4>1. CASE UNCHANGED <<row, cooldown, limit>>
          <5>1. \E end \in {"ended", "unrecorded"} : Step(r, "running", [req[r] EXCEPT !.pc = end])
            BY <3>5 DEF CompleteRecord
          <5> QED  BY <4>1, <5>1, EndStep
        <4>2. CASE ~UNCHANGED <<row, cooldown, limit>>
          <5>1. /\ Step(r, "running", [req[r] EXCEPT !.pc = "ended"])
                /\ row' = [row EXCEPT ![r] = "complete"]
            BY <3>5, <4>2, CompletionRecords
          <5> QED  BY <5>1, EndStep
        <4> QED  BY <4>1, <4>2
      <3>6. CASE CompleteFails(r)  BY <3>6, EndStep DEF CompleteFails
      <3>7. ASSUME NEW reset \in {Nil} \cup {retryReset(h, now) : h \in Header}, Attempt(r, reset)
            PROVE  HandlersInv'
        <4>1. reset \in Times \cup {Nil}  BY RetryResets DEF RecordsInv, SettingsType
        <4> QED  BY <3>7, <4>1, AttemptStep
      <3> QED  BY <1>1, <3>1, <3>2, <3>3, <3>4, <3>5, <3>6, <3>7 DEF Handle
    <2>3. CASE CompleteRecord(r)
      BY <2>1, <2>2, <2>3, CompletionKeepsRecords DEF RecordsInv
    <2>4. CASE ~CompleteRecord(r)
      <3>1. UNCHANGED <<cooldown, limit>>
        BY <1>1, <2>4 DEF Handle, Authenticate, ResolveAlias, Load, Begin, CompleteFails, Attempt
      <3>2. row[r] # "complete" /\ row'[r] # "complete" /\ \A s \in Request : s # r => row'[s] = row[s] /\ req'[s] = req[s]
        <4>1. /\ req[r].pc # "ended" /\ req \in [Request -> HandlerState]
              /\ row \in [Request -> {"none", "open", "complete"}]
          BY <1>1, <2>4 DEF Handle, Authenticate, ResolveAlias, Load, Begin, CompleteFails, Attempt,
             Step,
                            RecordsInv, HandlersInv
        <4>2. row[r] # "complete"  BY <4>1 DEF RecordsInv, HandlersInv, RequestInv
        <4>3. \E q : req' = [req EXCEPT ![r] = q]
          BY <1>1, <2>4 DEF Handle, Authenticate, ResolveAlias, Load, Begin, CompleteFails, Attempt, Step
        <4>4. UNCHANGED row \/ row' = [row EXCEPT ![r] = "open"]
          BY <1>1, <2>4 DEF Handle, Authenticate, ResolveAlias, Load, Begin, CompleteFails, Attempt
        <4> QED  BY <4>1, <4>2, <4>3, <4>4
      <3>3. CooldownsHaveTheirRecord'
        BY <3>1, <3>2, SettledRecords DEF RecordsInv
      <3> QED  BY <2>1, <2>2, <3>1, <3>3 DEF RecordsInv, CooldownInv
    <2> QED  BY <2>3, <2>4
  <1>2. CASE Crash
    <2>1. HandlersInv'  BY <1>2, CrashStep
    <2>2. ASSUME NEW s \in Request, row[s] = "complete" PROVE req'[s].done = req[s].done
      <3>1. req[s].pc = "ended"  BY <2>2 DEF RecordsInv, HandlersInv, RequestInv
      <3> QED  BY <1>2, <3>1 DEF Crash, InFlight
    <2>3. CooldownsHaveTheirRecord'  BY <1>2, <2>2, SettledRecords DEF Crash, RecordsInv
    <2> QED  BY <1>2, <2>1, <2>3 DEF Crash, config, RecordsInv, SettingsType, CooldownInv
  <1>3. CASE \/ Administer
             \/ \E t \in 0..MaxTime : SetClock(t)
             \/ UNCHANGED recordsVars
    <2>1. UNCHANGED <<cooldown, row, req, limit>>
      BY <1>3 DEF Administer, MoveAlias, SwitchRoute, DeleteRoute, SwitchDestination, DeleteDestination,
                  EditToken, EndToken, SetClock, recordsVars
    <2>2. SettingsType'
      BY <1>3 DEF Administer, MoveAlias, SwitchRoute, DeleteRoute, SwitchDestination, DeleteDestination,
                  EditToken, EndToken, SetClock, recordsVars, config, RecordsInv, SettingsType
    <2>3. HandlersInv'  BY <2>1 DEF RecordsInv, HandlersInv
    <2>4. CooldownsHaveTheirRecord'  BY <2>1, SettledRecords DEF RecordsInv
    <2> QED  BY <2>1, <2>2, <2>3, <2>4 DEF RecordsInv, CooldownInv
  <1> QED  BY <1>1, <1>2, <1>3 DEF RecordsNext

\* The inductive invariant of the requests and their records.
THEOREM RecordsInvariance == RecordsSpec => []RecordsInv
  <1>1. RecordsInv /\ [RecordsNext]_recordsVars => RecordsInv'  BY RecordsNextInv
  <1> QED  BY RecordsInitInv, <1>1, PTL DEF RecordsSpec

\* The state of the requests keeps its type.
THEOREM RecordsTypeCorrect == RecordsSpec => []RecordsTypeOK
  <1>1. RecordsInv => RecordsTypeOK
    BY DEF RecordsInv, SettingsType, HandlersInv, RequestInv, CooldownInv, RecordsTypeOK, HandlerState,
       Phases
  <1> QED  BY <1>1, RecordsInvariance, PTL

\* A request is only ever sent to destinations of a route that its token named when
\* the bearer was checked, wherever the alias is moved meanwhile.
THEOREM PermittedOnly == RecordsSpec => []OnlyPermittedDestinations
  <1>1. ASSUME RecordsInv PROVE OnlyPermittedDestinations
    BY <1>1 DEF RecordsInv, HandlersInv, RequestInv, OnlyPermittedDestinations
  <1> QED  BY <1>1, RecordsInvariance, PTL

\* No snapshot of an earlier second than the latest recorded reset of a destination
\* has it, in whatever order requests complete and whatever the clock does.
THEOREM CooldownsHold == RecordsSpec => []CooldownHoldsToTheSecond
  <1>1. ASSUME RecordsInv PROVE CooldownHoldsToTheSecond
    <2> SUFFICES ASSUME NEW x \in RouteId, NEW i \in Snapshot(x)
                 PROVE  Second(now) >= Second(limit[Targets[x][i]])
      BY DEF CooldownHoldsToTheSecond
    <2>1. PICK d \in DestinationId : d = Targets[x][i] /\ ~Cooling(d)
      <3>1. Targets[x] \in Seq(DestinationId) /\ i \in DOMAIN Targets[x]
        BY RecordsConstants DEF Snapshot
      <3>2. Targets[x][i] \in DestinationId  BY <3>1
      <3> QED  BY <3>2 DEF Snapshot
    <2>2. PICK c \in Times \cup {Nil}, l \in Times, n \in Nat : c = cooldown[d] /\ l = limit[d] /\ n = now
      BY <1>1, RecordsConstants DEF RecordsInv, CooldownInv, SettingsType
    <2>3. IF c = Nil THEN l = 0 ELSE Second(c) >= Second(l)  BY <1>1, <2>2 DEF RecordsInv, CooldownInv
    <2>4. c = Nil \/ ~TextLess(n, c)  BY <2>1, <2>2 DEF Cooling
    <2>5. l \in Nat /\ (c # Nil => c \in Nat)  BY <2>2, RecordsConstants
    <2>6. Second(n) >= Second(l)  BY <2>3, <2>4, <2>5, TextOrder DEF Second
    <2> QED  BY <2>1, <2>2, <2>6
  <1> QED  BY <1>1, RecordsInvariance, PTL

\* The record of a request and the cooldowns it caused stand or fall together.
THEOREM RecordsAndCooldowns == RecordsSpec => []CooldownsHaveTheirRecord
  <1>1. RecordsInv => CooldownsHaveTheirRecord  BY DEF RecordsInv
  <1> QED  BY <1>1, RecordsInvariance, PTL

----------------------------------------------------------------------------
(* Configuration graph: databases                                          *)

LEMMA KindFacts ==
    /\ DOMAIN kindRank = {"Provider", "Egress", "ProviderAccount", "ProviderConnection", "Credential", "Model",
                          "Destination", "Strategy", "Route", "AgentToken", "Secret"}
    /\ \A k \in {"Provider", "Egress", "Secret"} : RefKinds[k] = <<>>
    /\ \A k \in {"ProviderAccount", "ProviderConnection"} : RefKinds[k] = <<"Provider">>
    /\ RefKinds["Credential"] = <<"ProviderAccount", "Egress", "Secret">>
    /\ RefKinds["Model"] = <<"ProviderConnection">>
    /\ RefKinds["Destination"] = <<"Model", "Credential">>
    /\ RefKinds["Route"] = <<"Strategy">>
  BY DEF kindRank, RefKinds

\* What each kind may refer to.
LEMMA RefKindsOf ==
    ASSUME NEW x \in Resource, NEW s \in Options[x]
    PROVE  /\ s # Absent /\ s.refs # Absent /\ s.refs \in Seq(Resource) /\ s.on \in BOOLEAN
           /\ Kind[x] \in DOMAIN kindRank
           /\ Kind[x] \notin {"Strategy", "AgentToken"} =>
                /\ Len(s.refs) = Len(RefKinds[Kind[x]])
                /\ \A i \in 1..Len(s.refs) : Kind[s.refs[i]] = RefKinds[Kind[x]][i]
           /\ Kind[x] = "Strategy" => \A i \in 1..Len(s.refs) : Kind[s.refs[i]] = "Destination"
           /\ Kind[x] = "AgentToken" => \A i \in 1..Len(s.refs) : Kind[s.refs[i]] = "Route"
  <1> DEFINE kinds == [i \in 1..Len(s.refs) |-> Kind[s.refs[i]]]
  <1>1. s # Absent /\ s.refs \in Seq(Resource) /\ s.on \in BOOLEAN  BY ConfigGraphAssumption
  <1>2. s.refs # Absent
    <2>1. s.refs \in Seq(Resource \cup {Gone})
      <3>1. s.refs \in [1..Len(s.refs) -> Resource \cup {Gone}] /\ Len(s.refs) \in Nat  BY <1>1
      <3> QED  BY <3>1
    <2> QED  BY <2>1, ConfigGraphAssumption
  <1>3. Kind[x] \in DOMAIN kindRank  BY ConfigGraphAssumption
  <1>4. CASE Kind[x] \notin {"Strategy", "AgentToken"}
    <2>1. kinds = RefKinds[Kind[x]]  BY <1>4, ConfigGraphAssumption
    <2>2. Len(s.refs) \in Nat  BY <1>1
    <2>3. DOMAIN RefKinds[Kind[x]] = 1..Len(s.refs)  BY <2>1
    <2>4. \A i \in 1..Len(s.refs) : Kind[s.refs[i]] = RefKinds[Kind[x]][i]
      <3> SUFFICES ASSUME NEW i \in 1..Len(s.refs) PROVE kinds[i] = RefKinds[Kind[x]][i]
        OBVIOUS
      <3> QED  BY <2>1
    <2>5. LET q == RefKinds[Kind[x]] IN Len(q) \in 0..3 /\ DOMAIN q = 1..Len(q)
      <3>1. Kind[x] \in {"Provider", "Egress", "ProviderAccount", "ProviderConnection", "Credential", "Model",
                         "Destination", "Route", "Secret"}
        BY <1>3, <1>4, KindFacts
      <3>2. CASE Kind[x] \in {"Provider", "Egress", "Secret"}
        <4>1. RefKinds[Kind[x]] = <<>>  BY <3>2, KindFacts
        <4> QED  BY <4>1
      <3>3. CASE Kind[x] \in {"ProviderAccount", "ProviderConnection"}
        <4>1. RefKinds[Kind[x]] = <<"Provider">>  BY <3>3, KindFacts
        <4> QED  BY <4>1
      <3>4. CASE Kind[x] = "Credential"  BY <3>4, KindFacts
      <3>5. CASE Kind[x] = "Model"  BY <3>5, KindFacts
      <3>6. CASE Kind[x] = "Destination"  BY <3>6, KindFacts
      <3>7. CASE Kind[x] = "Route"  BY <3>7, KindFacts
      <3> QED  BY <3>1, <3>2, <3>3, <3>4, <3>5, <3>6, <3>7
    <2>6. Len(s.refs) = Len(RefKinds[Kind[x]])
      BY <2>2, <2>3, <2>5
    <2> QED  BY <1>1, <1>2, <1>3, <1>4, <2>4, <2>6
  <1>5. CASE Kind[x] = "Strategy"
    <2>1. \A i \in DOMAIN kinds : kinds[i] = "Destination"  BY <1>5, ConfigGraphAssumption
    <2> QED  BY <1>1, <1>2, <1>3, <1>5, <2>1
  <1>6. CASE Kind[x] = "AgentToken"
    <2>1. \A i \in DOMAIN kinds : kinds[i] = "Route"  BY <1>6, ConfigGraphAssumption
    <2> QED  BY <1>1, <1>2, <1>3, <1>6, <2>1
  <1> QED  BY <1>4, <1>5, <1>6

LEMMA RouteRefs ==
    ASSUME NEW r \in Route, NEW s \in Options[r]
    PROVE  s.refs[1] \in Strategy /\ s.refs = <<s.refs[1]>>
  <1>1. r \in Resource /\ Kind[r] = "Route"  BY DEF Route, OfKind
  <1>2. Len(s.refs) = Len(RefKinds["Route"]) /\ s.refs \in Seq(Resource)
        /\ \A i \in 1..Len(s.refs) : Kind[s.refs[i]] = RefKinds["Route"][i]
    BY <1>1, RefKindsOf
  <1>3. Len(s.refs) = 1 /\ Kind[s.refs[1]] = "Strategy"  BY <1>2, KindFacts
  <1> QED  BY <1>2, <1>3 DEF Strategy, OfKind

Rows      == Seq(Resource \cup {Gone}) \cup {Absent}
Specifications == UNION {Options[x] : x \in Resource}
Databases == [spec : [Resource -> Specifications \cup {Absent}],
              row : [Resource -> Rows],
              versions : [Strategy -> Seq(Seq(Resource))],
              active : [Route -> (Strategy \X Nat) \cup {Absent}],
              revoked : SUBSET AgentToken]

Specified(d) == \A x \in Resource : d.spec[x] \in Options[x] \cup {Absent}

\* The typed rows that have foreign keys say what the envelopes say.
Projected(d) ==
    \A x \in Resource : Kind[x] # "AgentToken" =>
        d.row[x] = IF d.spec[x] # Absent /\ Typed(x) THEN d.spec[x].refs ELSE Absent

\* A token's row says so but for routes that have been deleted.
TokensFollow(d, deleted) ==
    \A t \in AgentToken :
        IF d.spec[t] = Absent THEN d.row[t] = Absent
        ELSE LET refs == d.spec[t].refs IN
             /\ d.row[t] \in Seq(Resource \cup {Gone}) /\ Len(d.row[t]) = Len(refs)
             /\ \A i \in 1..Len(refs) : d.row[t][i] = refs[i] \/ (d.row[t][i] = Gone /\ refs[i] \in deleted)

\* Every route runs a version of its strategy, and only strategies have versions.
Running(d) ==
    \A r \in Route :
        IF d.spec[r] = Absent THEN d.active[r] = Absent
        ELSE LET s == d.spec[r].refs[1] IN d.active[r] \in {s} \X (1..Len(d.versions[s]))

Published(d) ==
    \A s \in Strategy :
        /\ d.spec[s] = Absent => d.versions[s] = <<>>
        /\ d.versions[s] \in Seq({o.refs : o \in Options[s]})
        /\ \A i, j \in 1..Len(d.versions[s]) : d.versions[s][i] = d.versions[s][j] => i = j

\* Since database b, and but for what was deleted, no version was lost and no
\* revocation undone.
Kept(b, d, deleted) ==
    /\ \A s \in Strategy \ deleted : Len(b.versions[s]) <= Len(d.versions[s])
    /\ \A t \in b.revoked \ deleted : t \in d.revoked

\* What holds between the changes of a document.
Within(b, d, deleted) ==
    /\ d \in Databases /\ Specified(d) /\ Projected(d) /\ TokensFollow(d, deleted)
    /\ Running(d) /\ Published(d) /\ Kept(b, d, deleted)

----------------------------------------------------------------------------
(* Configuration graph: mutations                                          *)

LEMMA KindsDiffer ==
    /\ Strategy \subseteq Resource /\ Route \subseteq Resource /\ AgentToken \subseteq Resource
    /\ \A s \in Strategy : Kind[s] = "Strategy" /\ ~Typed(s)
    /\ \A r \in Route : Kind[r] = "Route" /\ Typed(r)
    /\ \A t \in AgentToken : Kind[t] = "AgentToken" /\ Typed(t)
    /\ \A x \in Resource : /\ Kind[x] = "Strategy" => x \in Strategy
                           /\ Kind[x] = "Route" => x \in Route
                           /\ Kind[x] = "AgentToken" => x \in AgentToken
  BY DEF Strategy, Route, AgentToken, OfKind, Typed

\* A definition that is not among the versions is appended.
LEMMA NewVersion ==
    ASSUME NEW S, NEW w \in Seq(S), NEW e \in S,
           \A i, j \in 1..Len(w) : w[i] = w[j] => i = j,
           \A i \in 1..Len(w) : w[i] # e,
           NEW v, v = Append(w, e)
    PROVE  /\ v \in Seq(S) /\ Len(v) = Len(w) + 1 /\ Len(w) \in Nat /\ v[Len(v)] = e
           /\ \A i, j \in 1..Len(v) : v[i] = v[j] => i = j
  <1>1. PICK n \in Nat : n = Len(w)  OBVIOUS
  <1>2. v \in Seq(S) /\ Len(v) = n + 1 /\ v[n + 1] = e /\ \A i \in 1..n : v[i] = w[i]  BY <1>1
  <1>3. ASSUME NEW i \in 1..Len(v), NEW j \in 1..Len(v), v[i] = v[j] PROVE i = j
    <2>1. CASE i \in 1..n /\ j \in 1..n
      <3>1. w[i] = w[j]  BY <1>2, <1>3, <2>1
      <3> QED  BY <1>1, <2>1, <3>1
    <2>2. CASE i = n + 1 /\ j \in 1..n
      <3>1. w[j] = e  BY <1>2, <1>3, <2>2
      <3> QED  BY <1>1, <2>2, <3>1
    <2>3. CASE i \in 1..n /\ j = n + 1
      <3>1. w[i] = e  BY <1>2, <1>3, <2>3
      <3> QED  BY <1>1, <2>3, <3>1
    <2>4. CASE i = n + 1 /\ j = n + 1  BY <2>4
    <2> QED  BY <1>1, <1>2, <2>1, <2>2, <2>3, <2>4
  <1> QED  BY <1>1, <1>2, <1>3

\* Publishing touches the versions of one strategy and its routes.
LEMMA PublishStep ==
    ASSUME NEW b, NEW deleted, NEW d, Within(b, d, deleted), NEW s \in Strategy, d.spec[s] # Absent
    PROVE  LET p == publishStrategyTx(d, s) IN
           /\ Within(b, p, deleted)
           /\ p.spec = d.spec /\ p.row = d.row /\ p.revoked = d.revoked
           /\ p.versions[s] # <<>>
           /\ \E i \in 1..Len(p.versions[s]) : p.versions[s][i] = d.spec[s].refs
           /\ \A u \in Strategy \ {s} : p.versions[u] = d.versions[u]
  <1> DEFINE definition == d.spec[s].refs
             known == {i \in 1..Len(d.versions[s]) : d.versions[s][i] = definition}
  <1>1. PICK v : v = IF known = {} THEN Append(d.versions[s], definition) ELSE d.versions[s]  OBVIOUS
  <1>2. PICK id : id = IF known = {} THEN Len(v) ELSE CHOOSE i \in known : TRUE  OBVIOUS
  <1>3. PICK p : p = publishStrategyTx(d, s)  OBVIOUS
  <1>4. p = [d EXCEPT !.versions[s] = v,
                      !.active = [r \in Route |-> IF d.row[r] = <<s>> THEN <<s, id>> ELSE d.active[r]]]
    BY <1>1, <1>2, <1>3 DEF publishStrategyTx, Within, Databases
  <1>5. d \in Databases  BY DEF Within
  <1>6. /\ p.spec = d.spec /\ p.row = d.row /\ p.revoked = d.revoked
        /\ p.versions = [d.versions EXCEPT ![s] = v]
        /\ p.active = [r \in Route |-> IF d.row[r] = <<s>> THEN <<s, id>> ELSE d.active[r]]
        /\ p = [spec |-> p.spec, row |-> p.row, versions |-> p.versions, active |-> p.active, revoked |-> p.revoked]
    BY <1>4, <1>5 DEF Databases
  <1>7. definition \in {o.refs : o \in Options[s]} /\ definition \in Seq(Resource)
    BY KindsDiffer, RefKindsOf DEF Within, Specified
  <1>8. /\ d.versions[s] \in Seq({o.refs : o \in Options[s]}) /\ d.versions[s] \in Seq(Seq(Resource))
        /\ \A i, j \in 1..Len(d.versions[s]) : d.versions[s][i] = d.versions[s][j] => i = j
    BY <1>5 DEF Within, Published, Databases
  <1> HIDE DEF definition
  <1>9. /\ v \in Seq({o.refs : o \in Options[s]}) /\ v \in Seq(Seq(Resource))
        /\ Len(d.versions[s]) <= Len(v) /\ id \in 1..Len(v) /\ v[id] = definition
        /\ \A i, j \in 1..Len(v) : v[i] = v[j] => i = j
    <2>1. CASE known = {}
      <3>1. v = Append(d.versions[s], definition) /\ id = Len(v)  BY <1>1, <1>2, <2>1
      <3>2. \A i \in 1..Len(d.versions[s]) : d.versions[s][i] # definition  BY <2>1
      <3> HIDE DEF known
      <3>3. /\ v \in Seq({o.refs : o \in Options[s]}) /\ v \in Seq(Seq(Resource))
        BY <1>7, <1>8, <3>1
      <3>4. /\ Len(v) = Len(d.versions[s]) + 1 /\ Len(d.versions[s]) \in Nat /\ v[Len(v)] = definition
            /\ \A i, j \in 1..Len(v) : v[i] = v[j] => i = j
        <4>1. PICK S, w : S = {o.refs : o \in Options[s]} /\ w = d.versions[s]  OBVIOUS
        <4>2. definition \in S /\ w \in Seq(S) /\ v = Append(w, definition)  BY <1>7, <1>8, <3>1, <4>1
        <4>3. /\ \A i, j \in 1..Len(w) : w[i] = w[j] => i = j
              /\ \A i \in 1..Len(w) : w[i] # definition
          BY <1>8, <3>2, <4>1
        <4> QED  BY <4>1, <4>2, <4>3, NewVersion
      <3>5. Len(d.versions[s]) <= Len(v) /\ Len(v) \in 1..Len(v)  BY <3>4
      <3> QED  BY <3>1, <3>3, <3>4, <3>5
    <2>2. CASE known # {}
      <3>1. v = d.versions[s] /\ id \in known  BY <1>1, <1>2, <2>2
      <3>2. id \in 1..Len(v) /\ v[id] = definition  BY <3>1
      <3> HIDE DEF known
      <3> QED  BY <1>8, <3>1, <3>2
    <2> QED  BY <2>1, <2>2
  <1> HIDE DEF known
  <1>10. p.versions[s] = v /\ \A u \in Strategy \ {s} : p.versions[u] = d.versions[u]
    BY <1>5, <1>6 DEF Databases
  <1>11. p \in Databases
    <2>1. p.versions \in [Strategy -> Seq(Seq(Resource))]  BY <1>5, <1>6, <1>9 DEF Databases
    <2>2. id \in Nat  BY <1>9
    <2>3. p.active \in [Route -> (Strategy \X Nat) \cup {Absent}]  BY <1>5, <1>6, <2>2 DEF Databases
    <2> QED  BY <1>5, <1>6, <2>1, <2>3 DEF Databases
  <1>12. Specified(p) /\ Projected(p) /\ TokensFollow(p, deleted)
    BY <1>6 DEF Within, Specified, Projected, TokensFollow
  <1>13. Running(p)
    <2> SUFFICES ASSUME NEW r \in Route
                 PROVE  IF p.spec[r] = Absent THEN p.active[r] = Absent
                        ELSE p.active[r] \in {p.spec[r].refs[1]} \X (1..Len(p.versions[p.spec[r].refs[1]]))
      BY DEF Running
    <2>1. d.row[r] = IF d.spec[r] # Absent THEN d.spec[r].refs ELSE Absent
      BY KindsDiffer DEF Within, Projected
    <2>2. IF d.spec[r] = Absent THEN d.active[r] = Absent
          ELSE d.active[r] \in {d.spec[r].refs[1]} \X (1..Len(d.versions[d.spec[r].refs[1]]))
      BY DEF Within, Running
    <2>3. CASE d.spec[r] = Absent
      <3>1. d.row[r] # <<s>>
        <4>1. <<s>> \in Seq(Resource \cup {Gone})  BY KindsDiffer
        <4> QED  BY <2>1, <2>3, <4>1, ConfigGraphAssumption
      <3> QED  BY <1>6, <2>2, <2>3, <3>1
    <2>4. CASE d.spec[r] # Absent
      <3>1. PICK q : q = d.spec[r].refs[1]  OBVIOUS
      <3>2. q \in Strategy /\ d.row[r] = <<q>>
        BY <2>1, <2>4, <3>1, KindsDiffer, RouteRefs DEF Within, Specified
      <3>3. CASE q = s
        <4>1. p.active[r] = <<s, id>>  BY <1>6, <3>2, <3>3
        <4>2. p.spec[r] = d.spec[r] /\ p.versions[q] = v  BY <1>6, <1>10, <3>3
        <4>3. <<s, id>> \in {q} \X (1..Len(v))  BY <1>9, <3>3
        <4> QED  BY <2>4, <3>1, <4>1, <4>2, <4>3
      <3>4. CASE q # s
        <4>1. p.active[r] = d.active[r]  BY <1>6, <3>2, <3>4
        <4> QED  BY <1>6, <1>10, <2>2, <2>4, <3>1, <3>2, <3>4, <4>1
      <3> QED  BY <3>3, <3>4
    <2> QED  BY <2>3, <2>4
  <1>14. Published(p)
    <2> SUFFICES ASSUME NEW u \in Strategy
                 PROVE  /\ p.spec[u] = Absent => p.versions[u] = <<>>
                        /\ p.versions[u] \in Seq({o.refs : o \in Options[u]})
                        /\ \A i, j \in 1..Len(p.versions[u]) : p.versions[u][i] = p.versions[u][j] => i = j
      BY DEF Published
    <2>1. CASE u = s  BY <1>6, <1>9, <1>10, <2>1
    <2>2. CASE u # s
      <3>1. p.versions[u] = d.versions[u] /\ p.spec[u] = d.spec[u]  BY <1>6, <1>10, <2>2
      <3>2. /\ d.spec[u] = Absent => d.versions[u] = <<>>
            /\ d.versions[u] \in Seq({o.refs : o \in Options[u]})
            /\ \A i, j \in 1..Len(d.versions[u]) : d.versions[u][i] = d.versions[u][j] => i = j
        BY DEF Within, Published
      <3> QED  BY <3>1, <3>2
    <2> QED  BY <2>1, <2>2
  <1>15. Kept(b, p, deleted)
    <2>1. ASSUME NEW u \in Strategy \ deleted PROVE Len(b.versions[u]) <= Len(p.versions[u])
      <3>1. CASE u = s
        <4>1. Len(b.versions[s]) <= Len(d.versions[s])  BY <2>1, <3>1 DEF Within, Kept
        <4>2. Len(d.versions[s]) \in Nat /\ Len(v) \in Nat  BY <1>8, <1>9
        <4> QED  BY <1>9, <1>10, <3>1, <4>1, <4>2
      <3>2. CASE u # s
        BY <1>10, <3>2 DEF Within, Kept
      <3> QED  BY <3>1, <3>2
    <2> QED  BY <2>1, <1>6 DEF Within, Kept
  <1> QED  BY <1>3, <1>6, <1>9, <1>10, <1>11, <1>12, <1>13, <1>14, <1>15 DEF Within, definition

LEMMA DeleteSpec ==
    ASSUME NEW d \in Databases, NEW x \in Resource, NEW e, e = Delete(d, x), e # Rejected
    PROVE  e.spec[x] = Absent /\ \A y \in Resource \ {x} : e.spec[y] = d.spec[y]
  <1>1. e.spec = [d.spec EXCEPT ![x] = Absent]  BY DEF Delete, Databases
  <1> QED  BY <1>1 DEF Databases

\* The deletion of a resource that no foreign key protects.
LEMMA DeleteStep ==
    ASSUME NEW b, NEW deleted, NEW d, Within(b, d, deleted), NEW x \in Resource,
           NEW e, e = Delete(d, x), e # Rejected
    PROVE  Within(b, e, deleted \cup {x})
  <1> DEFINE Drop(w) == IF w = Absent THEN Absent ELSE [i \in 1..Len(w) |-> IF w[i] = x THEN Gone ELSE w[i]]
             dead == deleted \cup {x}
  <1>1. e = Delete(d, x)  OBVIOUS
  <1>2. \A y \in Referrers(d, x) : Kind[y] = "AgentToken"  BY DEF Delete
  <1>3. d \in Databases  BY DEF Within
  <1>4. e = [d EXCEPT !.spec = [d.spec EXCEPT ![x] = Absent],
                      !.row = [[y \in Resource |-> Drop(d.row[y])] EXCEPT ![x] = Absent],
                      !.versions = [s \in Strategy |-> IF s = x THEN <<>> ELSE d.versions[s]],
                      !.active = [r \in Route |-> IF r = x THEN Absent ELSE d.active[r]],
                      !.revoked = d.revoked \ {x}]
    BY <1>1, <1>2, <1>3 DEF Delete, Databases
  <1>5. /\ e.spec = [d.spec EXCEPT ![x] = Absent]
        /\ e.row = [[y \in Resource |-> Drop(d.row[y])] EXCEPT ![x] = Absent]
        /\ e.versions = [s \in Strategy |-> IF s = x THEN <<>> ELSE d.versions[s]]
        /\ e.active = [r \in Route |-> IF r = x THEN Absent ELSE d.active[r]]
        /\ e.revoked = d.revoked \ {x}
        /\ e = [spec |-> e.spec, row |-> e.row, versions |-> e.versions, active |-> e.active, revoked |-> e.revoked]
    BY <1>3, <1>4 DEF Databases
  <1>6. /\ e.spec[x] = Absent /\ e.row[x] = Absent
        /\ \A y \in Resource \ {x} : e.spec[y] = d.spec[y] /\ e.row[y] = Drop(d.row[y])
    BY <1>3, <1>5 DEF Databases
  \* A row that a foreign key leads from does not name x.
  <1>7. ASSUME NEW y \in Resource \ {x}, Kind[y] # "AgentToken"
        PROVE  /\ e.row[y] = d.row[y]
               /\ d.row[y] # Absent => \A i \in 1..Len(d.row[y]) : d.row[y][i] # x
    <2>1. d.row[y] = IF d.spec[y] # Absent /\ Typed(y) THEN d.spec[y].refs ELSE Absent
      BY <1>7 DEF Within, Projected
    <2>2. CASE d.row[y] = Absent
      BY <1>6, <2>2
    <2>3. CASE d.row[y] # Absent
      <3>1. y \notin Referrers(d, x)  BY <1>2, <1>7
      <3>2. \A i \in 1..Len(d.row[y]) : d.row[y][i] # x
        BY <2>1, <2>3, <3>1 DEF Referrers, Live
      <3>3. d.row[y] \in Seq(Resource)  BY <2>1, <2>3, RefKindsOf DEF Within, Specified
      <3>4. d.row[y] = [i \in 1..Len(d.row[y]) |-> d.row[y][i]]  BY <3>3
      <3>5. [i \in 1..Len(d.row[y]) |-> IF d.row[y][i] = x THEN Gone ELSE d.row[y][i]]
              = [i \in 1..Len(d.row[y]) |-> d.row[y][i]]
        BY <3>2
      <3> QED  BY <1>6, <2>3, <3>2, <3>4, <3>5
    <2> QED  BY <2>2, <2>3
  <1>8. ASSUME NEW t \in AgentToken, t # x, d.spec[t] # Absent
        PROVE  /\ e.row[t] \in Seq(Resource \cup {Gone}) /\ Len(e.row[t]) = Len(d.spec[t].refs)
               /\ \A i \in 1..Len(d.spec[t].refs) :
                    e.row[t][i] = d.spec[t].refs[i] \/ (e.row[t][i] = Gone /\ d.spec[t].refs[i] \in dead)
    <2>1. PICK w, refs : w = d.row[t] /\ refs = d.spec[t].refs  OBVIOUS
    <2>2. /\ w \in Seq(Resource \cup {Gone}) /\ Len(w) = Len(refs)
          /\ \A i \in 1..Len(refs) : w[i] = refs[i] \/ (w[i] = Gone /\ refs[i] \in deleted)
      BY <1>8, <2>1 DEF Within, TokensFollow
    <2>3. w # Absent  BY <2>2, ConfigGraphAssumption
    <2>4. e.row[t] = [i \in 1..Len(w) |-> IF w[i] = x THEN Gone ELSE w[i]]
      <3>1. t \in Resource \ {x}  BY <1>8, KindsDiffer
      <3>2. e.row[t] = Drop(w)  BY <1>6, <2>1, <3>1
      <3> QED  BY <2>3, <3>2
    <2>5. /\ e.row[t] \in Seq(Resource \cup {Gone}) /\ Len(e.row[t]) = Len(w)
      <3>0. Len(w) \in Nat  BY <2>2
      <3>1. PICK n \in Nat : n = Len(w)  BY <3>0
      <3>5. PICK S : S = Resource \cup {Gone}  OBVIOUS
      <3>2. \A i \in 1..n : w[i] \in S  BY <2>2, <3>1, <3>5
      <3>3. e.row[t] \in [1..n -> S]  BY <2>4, <3>1, <3>2, <3>5
      <3>4. e.row[t] \in Seq(S) /\ Len(e.row[t]) = n  BY <3>3
      <3> QED  BY <3>1, <3>4, <3>5
    <2>6. ASSUME NEW i \in 1..Len(refs)
          PROVE  e.row[t][i] = refs[i] \/ (e.row[t][i] = Gone /\ refs[i] \in dead)
      <3>1. e.row[t][i] = IF w[i] = x THEN Gone ELSE w[i]  BY <2>2, <2>4
      <3>2. x # Gone  BY ConfigGraphAssumption
      <3> QED  BY <2>2, <3>1, <3>2
    <2> QED  BY <2>1, <2>2, <2>5, <2>6
  <1>9. ASSUME NEW t \in AgentToken, t # x, d.spec[t] = Absent PROVE e.row[t] = Absent
    <2>1. d.row[t] = Absent  BY <1>9 DEF Within, TokensFollow
    <2> QED  BY <1>6, <1>9, <2>1, KindsDiffer
  <1> HIDE DEF Drop
  <1>10. Specified(e)  BY <1>6 DEF Within, Specified
  <1>11. Projected(e)
    <2> SUFFICES ASSUME NEW y \in Resource, Kind[y] # "AgentToken"
                 PROVE  e.row[y] = IF e.spec[y] # Absent /\ Typed(y) THEN e.spec[y].refs ELSE Absent
      BY DEF Projected
    <2>1. CASE y = x  BY <1>6, <2>1
    <2>2. CASE y # x
      <3>1. e.row[y] = d.row[y] /\ e.spec[y] = d.spec[y]  BY <1>6, <1>7, <2>2
      <3> QED  BY <3>1 DEF Within, Projected
    <2> QED  BY <2>1, <2>2
  <1>12. TokensFollow(e, dead)
    <2> SUFFICES ASSUME NEW t \in AgentToken
                 PROVE  IF e.spec[t] = Absent THEN e.row[t] = Absent
                        ELSE /\ e.row[t] \in Seq(Resource \cup {Gone}) /\ Len(e.row[t]) = Len(e.spec[t].refs)
                             /\ \A i \in 1..Len(e.spec[t].refs) :
                                  e.row[t][i] = e.spec[t].refs[i] \/ (e.row[t][i] = Gone /\ e.spec[t].refs[i] \in dead)
      BY DEF TokensFollow
    <2>1. CASE t = x  BY <1>6, <2>1
    <2>2. CASE t # x
      <3>1. e.spec[t] = d.spec[t]  BY <1>6, <2>2, KindsDiffer
      <3> QED  BY <1>8, <1>9, <2>2, <3>1
    <2> QED  BY <2>1, <2>2
  <1>13. Running(e)
    <2> SUFFICES ASSUME NEW r \in Route
                 PROVE  IF e.spec[r] = Absent THEN e.active[r] = Absent
                        ELSE e.active[r] \in {e.spec[r].refs[1]} \X (1..Len(e.versions[e.spec[r].refs[1]]))
      BY DEF Running
    <2>1. CASE r = x  BY <1>5, <1>6, <2>1
    <2>2. CASE r # x
      <3>1. e.spec[r] = d.spec[r] /\ e.active[r] = d.active[r]  BY <1>5, <1>6, <2>2, KindsDiffer
      <3>2. IF d.spec[r] = Absent THEN d.active[r] = Absent
            ELSE d.active[r] \in {d.spec[r].refs[1]} \X (1..Len(d.versions[d.spec[r].refs[1]]))
        BY DEF Within, Running
      <3>3. CASE d.spec[r] = Absent  BY <3>1, <3>2, <3>3
      <3>4. CASE d.spec[r] # Absent
        <4>1. PICK s : s = d.spec[r].refs[1]  OBVIOUS
        <4>0. d.row[r] # Absent
          <5>1. d.row[r] = d.spec[r].refs  BY <3>4, KindsDiffer DEF Within, Projected
          <5>2. r \in Resource /\ d.spec[r] \in Options[r]  BY <3>4, KindsDiffer DEF Within, Specified
          <5> QED  BY <5>1, <5>2, RefKindsOf
        <4>2. s \in Strategy /\ d.row[r] = <<s>>
          <5>1. d.row[r] = d.spec[r].refs  BY <3>4, KindsDiffer DEF Within, Projected
          <5>2. r \in Resource /\ d.spec[r] \in Options[r]  BY <3>4, KindsDiffer DEF Within, Specified
          <5> QED  BY <4>1, <5>1, <5>2, RouteRefs
        <4>3. s # x
          <5>1. Kind[r] # "AgentToken" /\ d.row[r] # Absent  BY <4>2, <4>0, KindsDiffer
          <5>2. \A i \in 1..Len(d.row[r]) : d.row[r][i] # x  BY <1>7, <2>2, <5>1, KindsDiffer
          <5> QED  BY <4>2, <5>2
        <4>4. e.versions[s] = d.versions[s]  BY <1>5, <4>2, <4>3
        <4> QED  BY <3>1, <3>2, <3>4, <4>1, <4>4
      <3> QED  BY <3>3, <3>4
    <2> QED  BY <2>1, <2>2
  <1>14. Published(e)
    <2> SUFFICES ASSUME NEW u \in Strategy
                 PROVE  /\ e.spec[u] = Absent => e.versions[u] = <<>>
                        /\ e.versions[u] \in Seq({o.refs : o \in Options[u]})
                        /\ \A i, j \in 1..Len(e.versions[u]) : e.versions[u][i] = e.versions[u][j] => i = j
      BY DEF Published
    <2>1. CASE u = x
      <3>1. e.versions[u] = <<>>  BY <1>5, <2>1
      <3> QED  BY <3>1
    <2>2. CASE u # x
      <3>1. e.versions[u] = d.versions[u] /\ e.spec[u] = d.spec[u]  BY <1>5, <1>6, <2>2, KindsDiffer
      <3>2. /\ d.spec[u] = Absent => d.versions[u] = <<>>
            /\ d.versions[u] \in Seq({o.refs : o \in Options[u]})
            /\ \A i, j \in 1..Len(d.versions[u]) : d.versions[u][i] = d.versions[u][j] => i = j
        BY DEF Within, Published
      <3> QED  BY <3>1, <3>2
    <2> QED  BY <2>1, <2>2
  <1>15. Kept(b, e, dead)  BY <1>5 DEF Within, Kept
  <1>16. e \in Databases
    <2>1. e.spec \in [Resource -> Specifications \cup {Absent}]  BY <1>3, <1>5 DEF Databases
    <2>2. ASSUME NEW y \in Resource PROVE e.row[y] \in Rows
      <3>1. CASE Kind[y] = "AgentToken"
        <4>1. y \in AgentToken  BY <3>1 DEF AgentToken, OfKind
        <4>2. y = x \/ d.spec[y] = Absent \/ (y # x /\ d.spec[y] # Absent)  OBVIOUS
        <4>3. e.row[y] = Absent \/ e.row[y] \in Seq(Resource \cup {Gone})
          BY <1>6, <1>8, <1>9, <4>1, <4>2
        <4> QED  BY <4>3 DEF Rows
      <3>2. CASE Kind[y] # "AgentToken"
        BY <1>3, <1>6, <1>7, <3>2 DEF Databases, Rows
      <3> QED  BY <3>1, <3>2
    <2>3. e.row \in [Resource -> Rows]  BY <1>5, <2>2
    <2>4. e.versions \in [Strategy -> Seq(Seq(Resource))]
      <3>1. <<>> \in Seq(Seq(Resource))  OBVIOUS
      <3> QED  BY <1>3, <1>5, <3>1 DEF Databases
    <2>5. e.active \in [Route -> (Strategy \X Nat) \cup {Absent}]  BY <1>3, <1>5 DEF Databases
    <2>6. e.revoked \in SUBSET AgentToken  BY <1>3, <1>5 DEF Databases
    <2> QED  BY <1>5, <2>1, <2>3, <2>4, <2>5, <2>6 DEF Databases
  <1> QED  BY <1>6, <1>10, <1>11, <1>12, <1>13, <1>14, <1>15, <1>16 DEF Within

\* Between d and e, x takes the specification s and its row with it; a route
\* takes version n of its strategy.
SetTo(d, x, s, n, e) ==
    /\ e = [spec |-> e.spec, row |-> e.row, versions |-> e.versions, active |-> e.active, revoked |-> e.revoked]
    /\ e.spec = [d.spec EXCEPT ![x] = s]
    /\ e.row = [d.row EXCEPT ![x] = IF Typed(x) THEN s.refs ELSE Absent]
    /\ e.versions = d.versions
    /\ Kind[x] = "Route" => n \in 1..Len(d.versions[s.refs[1]])
    /\ e.active = IF Kind[x] = "Route" THEN [d.active EXCEPT ![x] = <<s.refs[1], n>>] ELSE d.active
    /\ e.revoked \in SUBSET AgentToken /\ d.revoked \subseteq e.revoked

LEMMA SetStep ==
    ASSUME NEW b, NEW deleted, NEW d, Within(b, d, deleted), NEW x \in Resource, NEW s \in Options[x],
           NEW e, NEW n \in Nat, SetTo(d, x, s, n, e)
    PROVE  Within(b, e, deleted)
  <1>0. /\ e = [spec |-> e.spec, row |-> e.row, versions |-> e.versions, active |-> e.active, revoked |-> e.revoked]
        /\ e.spec = [d.spec EXCEPT ![x] = s]
        /\ e.row = [d.row EXCEPT ![x] = IF Typed(x) THEN s.refs ELSE Absent]
        /\ e.versions = d.versions
        /\ Kind[x] = "Route" => n \in 1..Len(d.versions[s.refs[1]])
        /\ e.active = IF Kind[x] = "Route" THEN [d.active EXCEPT ![x] = <<s.refs[1], n>>] ELSE d.active
        /\ e.revoked \in SUBSET AgentToken /\ d.revoked \subseteq e.revoked
    BY DEF SetTo
  <1>1. d \in Databases  BY DEF Within
  <1>2. s # Absent /\ s.refs # Absent /\ s.refs \in Seq(Resource)  BY RefKindsOf
  <1>3. /\ e.spec[x] = s /\ e.row[x] = IF Typed(x) THEN s.refs ELSE Absent
        /\ \A y \in Resource \ {x} : e.spec[y] = d.spec[y] /\ e.row[y] = d.row[y]
    BY <1>0, <1>1 DEF Databases
  <1>4. /\ Kind[x] = "Route" => e.active[x] = <<s.refs[1], n>>
        /\ \A r \in Route \ {x} : e.active[r] = d.active[r]
    <2>1. CASE Kind[x] = "Route"
      <3>1. x \in Route  BY <2>1 DEF Route, OfKind
      <3> QED  BY <1>0, <1>1, <2>1, <3>1 DEF Databases
    <2>2. CASE Kind[x] # "Route"  BY <1>0, <2>2
    <2> QED  BY <2>1, <2>2
  <1>5. Specified(e)  BY <1>0, <1>3 DEF Within, Specified
  <1>6. Projected(e)
    <2> SUFFICES ASSUME NEW y \in Resource, Kind[y] # "AgentToken"
                 PROVE  e.row[y] = IF e.spec[y] # Absent /\ Typed(y) THEN e.spec[y].refs ELSE Absent
      BY DEF Projected
    <2>1. CASE y = x  BY <1>0, <1>2, <1>3, <2>1
    <2>2. CASE y # x  BY <1>0, <1>3, <2>2 DEF Within, Projected
    <2> QED  BY <2>1, <2>2
  <1>7. TokensFollow(e, deleted)
    <2> SUFFICES ASSUME NEW t \in AgentToken
                 PROVE  IF e.spec[t] = Absent THEN e.row[t] = Absent
                        ELSE /\ e.row[t] \in Seq(Resource \cup {Gone}) /\ Len(e.row[t]) = Len(e.spec[t].refs)
                             /\ \A i \in 1..Len(e.spec[t].refs) :
                                  e.row[t][i] = e.spec[t].refs[i] \/ (e.row[t][i] = Gone /\ e.spec[t].refs[i] \in deleted)
      BY DEF TokensFollow
    <2>1. CASE t = x
      <3>1. e.row[t] = s.refs /\ e.spec[t] = s  BY <1>0, <1>3, <2>1, KindsDiffer
      <3>2. s.refs \in Seq(Resource \cup {Gone})
        <4>1. s.refs \in [1..Len(s.refs) -> Resource \cup {Gone}] /\ Len(s.refs) \in Nat  BY <1>2
        <4> QED  BY <4>1
      <3> QED  BY <1>2, <3>1, <3>2
    <2>2. CASE t # x
      <3>1. e.row[t] = d.row[t] /\ e.spec[t] = d.spec[t]  BY <1>0, <1>3, <2>2, KindsDiffer
      <3> QED  BY <3>1 DEF Within, TokensFollow
    <2> QED  BY <2>1, <2>2
  <1>8. Running(e)
    <2> SUFFICES ASSUME NEW r \in Route
                 PROVE  IF e.spec[r] = Absent THEN e.active[r] = Absent
                        ELSE e.active[r] \in {e.spec[r].refs[1]} \X (1..Len(e.versions[e.spec[r].refs[1]]))
      BY DEF Running
    <2>1. CASE r = x
      <3>1. e.active[r] = <<s.refs[1], n>> /\ n \in 1..Len(d.versions[s.refs[1]])
        BY <1>0, <1>4, <2>1, KindsDiffer
      <3>2. e.spec[r] = s  BY <1>0, <1>3, <2>1
      <3> QED  BY <1>0, <1>2, <3>1, <3>2
    <2>2. CASE r # x
      <3>1. e.active[r] = d.active[r] /\ e.spec[r] = d.spec[r]  BY <1>0, <1>3, <1>4, <2>2, KindsDiffer
      <3> QED  BY <1>0, <3>1 DEF Within, Running
    <2> QED  BY <2>1, <2>2
  <1>9. Published(e)
    <2> SUFFICES ASSUME NEW u \in Strategy
                 PROVE  e.spec[u] = Absent => d.versions[u] = <<>>
      BY <1>0 DEF Within, Published
    <2>1. CASE u = x  BY <1>0, <1>2, <1>3, <2>1
    <2>2. CASE u # x  BY <1>0, <1>3, <2>2, KindsDiffer DEF Within, Published
    <2> QED  BY <2>1, <2>2
  <1>10. Kept(b, e, deleted)  BY <1>0 DEF Within, Kept
  <1>11. e \in Databases
    <2>1. e.spec \in [Resource -> Specifications \cup {Absent}]
      <3>1. s \in Specifications  BY DEF Specifications
      <3> QED  BY <1>0, <1>1, <3>1 DEF Databases
    <2>2. e.row \in [Resource -> Rows]
      <3>1. s.refs \in Seq(Resource \cup {Gone})
        <4>1. s.refs \in [1..Len(s.refs) -> Resource \cup {Gone}] /\ Len(s.refs) \in Nat  BY <1>2
        <4> QED  BY <4>1
      <3>2. (IF Typed(x) THEN s.refs ELSE Absent) \in Rows  BY <3>1 DEF Rows
      <3> QED  BY <1>0, <1>1, <3>2 DEF Databases
    <2>3. e.active \in [Route -> (Strategy \X Nat) \cup {Absent}]
      <3>1. CASE Kind[x] = "Route"
        <4>1. x \in Route  BY <3>1 DEF Route, OfKind
        <4>2. s.refs[1] \in Strategy  BY <4>1, RouteRefs
        <4> QED  BY <1>0, <1>1, <3>1, <4>1, <4>2 DEF Databases
      <3>2. CASE Kind[x] # "Route"  BY <1>0, <1>1, <3>2 DEF Databases
      <3> QED  BY <3>1, <3>2
    <2> QED  BY <1>0, <1>1, <2>1, <2>2, <2>3 DEF Databases
  <1> QED  BY <1>5, <1>6, <1>7, <1>8, <1>9, <1>10, <1>11 DEF Within

\* A route takes the highest version of its strategy, which it publishes first if
\* it has none.
LEMMA RoutePut ==
    ASSUME NEW b, NEW deleted, NEW d, Within(b, d, deleted), NEW x \in Route, NEW s \in Options[x],
           d.spec[s.refs[1]] # Absent
    PROVE  LET e == ActivateRoute([d EXCEPT !.spec[x] = s], x) IN
           Within(b, e, deleted) /\ e.spec = [d.spec EXCEPT ![x] = s]
  <1>1. PICK c : c = [d EXCEPT !.spec[x] = s]  OBVIOUS
  <1>2. PICK u : u = s.refs[1]  OBVIOUS
  <1>3. d \in Databases /\ x \in Resource /\ Kind[x] = "Route" /\ Typed(x)  BY KindsDiffer DEF Within
  <1>4. u \in Strategy /\ s.refs = <<u>> /\ u # x  BY <1>2, <1>3, RouteRefs, KindsDiffer
  <1>5. /\ c.spec = [d.spec EXCEPT ![x] = s] /\ c.row = d.row
        /\ c.versions = d.versions /\ c.active = d.active
        /\ c.revoked = d.revoked
        /\ c = [spec |-> c.spec, row |-> c.row, versions |-> c.versions, active |-> c.active, revoked |-> c.revoked]
    BY <1>1, <1>3 DEF Databases
  <1>6. c.spec[x] = s /\ c.spec[u] = d.spec[u]  BY <1>3, <1>4, <1>5, KindsDiffer DEF Databases
  <1>7. PICK q : q = IF d.versions[u] = <<>> THEN publishStrategyTx(d, u) ELSE d  OBVIOUS
  <1>8. /\ Within(b, q, deleted) /\ q.spec = d.spec /\ q.row = d.row /\ q.revoked = d.revoked
        /\ q.versions[u] # <<>>
    BY <1>2, <1>4, <1>7, PublishStep
  <1>9. PICK p : p = IF c.versions[u] = <<>> THEN publishStrategyTx(c, u) ELSE c  OBVIOUS
  \* Publishing for the new specification of x is publishing before it.
  <1>10. /\ p.spec = c.spec /\ p.row = q.row /\ p.versions = q.versions /\ p.active = q.active
         /\ p.revoked = q.revoked
         /\ p = [spec |-> p.spec, row |-> p.row, versions |-> p.versions, active |-> p.active, revoked |-> p.revoked]
    <2>1. CASE d.versions[u] = <<>>
      <3>1. p = publishStrategyTx(c, u) /\ q = publishStrategyTx(d, u)  BY <1>5, <1>7, <1>9, <2>1
      <3>2. PICK v, id :
              /\ v = Append(d.versions[u], d.spec[u].refs)
              /\ id = Len(v)
        OBVIOUS
      <3>3. q = [d EXCEPT !.versions[u] = v,
                          !.active = [r \in Route |-> IF d.row[r] = <<u>> THEN <<u, id>> ELSE d.active[r]]]
        <4>1. {i \in 1..Len(d.versions[u]) : d.versions[u][i] = d.spec[u].refs} = {}  BY <2>1
        <4> QED  BY <1>3, <3>1, <3>2, <4>1 DEF publishStrategyTx, Databases
      <3>4. p = [c EXCEPT !.versions[u] = v,
                          !.active = [r \in Route |-> IF c.row[r] = <<u>> THEN <<u, id>> ELSE c.active[r]]]
        <4>1. {i \in 1..Len(c.versions[u]) : c.versions[u][i] = c.spec[u].refs} = {}  BY <1>5, <2>1
        <4>2. v = Append(c.versions[u], c.spec[u].refs)  BY <1>5, <1>6, <3>2
        <4> QED  BY <1>5, <3>1, <3>2, <4>1, <4>2 DEF publishStrategyTx
      <3>5. /\ q.row = d.row /\ q.versions = [d.versions EXCEPT ![u] = v] /\ q.revoked = d.revoked
            /\ q.active = [r \in Route |-> IF d.row[r] = <<u>> THEN <<u, id>> ELSE d.active[r]]
        BY <1>3, <3>3 DEF Databases
      <3>6. /\ p.spec = c.spec /\ p.row = c.row
            /\ p.versions = [c.versions EXCEPT ![u] = v] /\ p.revoked = c.revoked
            /\ p.active = [r \in Route |-> IF c.row[r] = <<u>> THEN <<u, id>> ELSE c.active[r]]
            /\ p = [spec |-> p.spec, row |-> p.row, versions |-> p.versions, active |-> p.active, revoked |-> p.revoked]
        BY <1>5, <3>4
      <3> QED  BY <1>5, <3>5, <3>6
    <2>2. CASE d.versions[u] # <<>>  BY <1>5, <1>7, <1>9, <2>2
    <2> QED  BY <2>1, <2>2
  <1>11. PICK e : e = ActivateRoute(c, x)  OBVIOUS
  <1>12. e = [p EXCEPT !.row[x] = <<u>>, !.active[x] = <<u, Len(p.versions[u])>>]
    BY <1>2, <1>6, <1>9, <1>11 DEF ActivateRoute
  <1>13. PICK n : n = Len(q.versions[u])  OBVIOUS
  <1>14. n \in Nat /\ n \in 1..Len(q.versions[u])
    <2>1. q.versions[u] \in Seq(Seq(Resource))  BY <1>4, <1>8 DEF Within, Databases
    <2> QED  BY <1>8, <1>13, <2>1
  <1>15. /\ e.spec = [d.spec EXCEPT ![x] = s]
         /\ e.row = [q.row EXCEPT ![x] = <<u>>] /\ e.versions = q.versions
         /\ e.active = [q.active EXCEPT ![x] = <<u, n>>] /\ e.revoked = q.revoked
         /\ e = [spec |-> e.spec, row |-> e.row, versions |-> e.versions, active |-> e.active, revoked |-> e.revoked]
    BY <1>5, <1>10, <1>12, <1>13
  <1>16. q.revoked \in SUBSET AgentToken  BY <1>8 DEF Within, Databases
  <1>17. Within(b, e, deleted)
    <2>1. /\ e.row = [q.row EXCEPT ![x] = IF Typed(x) THEN s.refs ELSE Absent]
          /\ e.active = IF Kind[x] = "Route" THEN [q.active EXCEPT ![x] = <<s.refs[1], n>>] ELSE q.active
          /\ n \in 1..Len(q.versions[s.refs[1]])
      BY <1>2, <1>3, <1>4, <1>14, <1>15
    <2>2. /\ e.spec = [q.spec EXCEPT ![x] = s]
          /\ e.revoked \in SUBSET AgentToken /\ q.revoked \subseteq e.revoked
      BY <1>8, <1>15, <1>16
    <2>3. SetTo(q, x, s, n, e)  BY <1>8, <1>14, <1>15, <2>1, <2>2 DEF SetTo
    <2> QED  BY <1>3, <1>8, <1>14, <2>3, SetStep
  <1> QED  BY <1>1, <1>11, <1>15, <1>17

LEMMA PutStep ==
    ASSUME NEW b, NEW deleted, NEW d, Within(b, d, deleted), NEW x \in Resource, NEW s \in Options[x],
           Put(d, x, s) # Rejected
    PROVE  Within(b, Put(d, x, s), deleted) /\ Put(d, x, s).spec = [d.spec EXCEPT ![x] = s]
  <1>1. PICK c : c = [d EXCEPT !.spec[x] = s]  OBVIOUS
  <1>2. d \in Databases  BY DEF Within
  <1>3. Refs(s) \subseteq Live(d) /\ Put(d, x, s) = upsertTyped(c, x, s)  BY <1>1 DEF Put
  <1>4. /\ c.spec = [d.spec EXCEPT ![x] = s] /\ c.row = d.row
        /\ c.versions = d.versions /\ c.active = d.active
        /\ c.revoked = d.revoked
        /\ c = [spec |-> c.spec, row |-> c.row, versions |-> c.versions, active |-> c.active, revoked |-> c.revoked]
    BY <1>1, <1>2 DEF Databases
  <1>5. c.spec[x] = s /\ d.revoked \in SUBSET AgentToken  BY <1>2, <1>4 DEF Databases
  <1>6. PICK e : e = upsertTyped(c, x, s)  OBVIOUS
  <1>7. CASE ~Typed(x)
    <2>1. e = c /\ Kind[x] # "Route" /\ Kind[x] # "AgentToken"
      <3>1. Kind[x] \in {"Provider", "Strategy", "Secret"}  BY <1>7 DEF Typed
      <3> QED  BY <1>6, <1>7, <3>1 DEF upsertTyped
    <2>2. d.row[x] = Absent /\ d.row = [d.row EXCEPT ![x] = Absent]
      <3>1. d.row[x] = Absent  BY <1>7, <2>1 DEF Within, Projected
      <3> QED  BY <1>2, <3>1 DEF Databases
    <2>3. /\ e.row = [d.row EXCEPT ![x] = IF Typed(x) THEN s.refs ELSE Absent]
          /\ e.active = IF Kind[x] = "Route" THEN [d.active EXCEPT ![x] = <<s.refs[1], 0>>] ELSE d.active
          /\ e.spec = [d.spec EXCEPT ![x] = s] /\ e.versions = d.versions
          /\ e.revoked \in SUBSET AgentToken /\ d.revoked \subseteq e.revoked
          /\ e = [spec |-> e.spec, row |-> e.row, versions |-> e.versions, active |-> e.active, revoked |-> e.revoked]
          /\ Kind[x] = "Route" => 0 \in 1..Len(d.versions[s.refs[1]])
      BY <1>4, <1>5, <1>7, <2>1, <2>2
    <2>4. SetTo(d, x, s, 0, e)  BY <2>3 DEF SetTo
    <2>5. Within(b, e, deleted)  BY <2>4, SetStep
    <2> QED  BY <1>3, <1>4, <1>6, <2>1, <2>5
  <1>8. CASE Kind[x] = "Route"
    <2>1. e = ActivateRoute(c, x)  BY <1>6, <1>8 DEF upsertTyped, Typed
    <2>2. x \in Route  BY <1>8 DEF Route, OfKind
    <2>3. d.spec[s.refs[1]] # Absent
      <3>1. s.refs = <<s.refs[1]>>  BY <2>2, RouteRefs
      <3>2. s.refs[1] \in Refs(s)
        <4>1. Len(s.refs) = 1  BY <3>1
        <4> QED  BY <4>1 DEF Refs
      <3> QED  BY <1>3, <3>2 DEF Live
    <2> QED  BY <1>1, <1>3, <1>6, <2>1, <2>2, <2>3, RoutePut
  <1>9. CASE Kind[x] = "AgentToken"
    <2>1. e = upsertToken(c, x)  BY <1>6, <1>9 DEF upsertTyped, Typed
    <2>2. e = [c EXCEPT !.row[x] = s.refs, !.revoked = IF s.on THEN c.revoked ELSE c.revoked \cup {x}]
      BY <1>3, <1>4, <1>5, <1>6, <2>1 DEF upsertToken
    <2>3. x \in AgentToken /\ Typed(x)  BY <1>9 DEF AgentToken, OfKind, Typed
    <2>4. /\ e.spec = [d.spec EXCEPT ![x] = s]
          /\ e.row = [d.row EXCEPT ![x] = s.refs] /\ e.versions = d.versions
          /\ e.active = d.active /\ e.revoked = IF s.on THEN d.revoked ELSE d.revoked \cup {x}
          /\ e = [spec |-> e.spec, row |-> e.row, versions |-> e.versions, active |-> e.active, revoked |-> e.revoked]
      BY <1>4, <2>2
    <2>5. e.revoked \in SUBSET AgentToken /\ d.revoked \subseteq e.revoked  BY <1>5, <2>3, <2>4
    <2>6. SetTo(d, x, s, 0, e)  BY <1>9, <2>3, <2>4, <2>5 DEF SetTo
    <2>7. Within(b, e, deleted)  BY <2>6, SetStep
    <2> QED  BY <1>3, <1>6, <2>4, <2>7
  <1>10. CASE Typed(x) /\ Kind[x] # "Route" /\ Kind[x] # "AgentToken"
    <2>1. e = [c EXCEPT !.row[x] = s.refs]  BY <1>6, <1>10 DEF upsertTyped
    <2>2. /\ e.spec = [d.spec EXCEPT ![x] = s]
          /\ e.row = [d.row EXCEPT ![x] = s.refs] /\ e.versions = d.versions
          /\ e.active = d.active /\ e.revoked = d.revoked
          /\ e = [spec |-> e.spec, row |-> e.row, versions |-> e.versions, active |-> e.active, revoked |-> e.revoked]
      BY <1>4, <2>1
    <2>3. /\ e.row = [d.row EXCEPT ![x] = IF Typed(x) THEN s.refs ELSE Absent]
          /\ e.active = IF Kind[x] = "Route" THEN [d.active EXCEPT ![x] = <<s.refs[1], 0>>] ELSE d.active
          /\ e.revoked \in SUBSET AgentToken /\ d.revoked \subseteq e.revoked
          /\ Kind[x] = "Route" => 0 \in 1..Len(d.versions[s.refs[1]])
      BY <1>5, <1>10, <2>2
    <2>4. SetTo(d, x, s, 0, e)  BY <2>2, <2>3 DEF SetTo
    <2>5. Within(b, e, deleted)  BY <2>4, SetStep
    <2> QED  BY <1>3, <1>6, <2>2, <2>5
  <1> QED  BY <1>7, <1>8, <1>9, <1>10

----------------------------------------------------------------------------
(* Configuration graph: the changes of a document, in order                *)

\* at lists the positions I once each, in the order that a stable sort by rank
\* puts their changes.
Lists(at, doc, I, rank) ==
    /\ at \in [1..Cardinality(I) -> I]
    /\ \A i, j \in 1..Cardinality(I) : at[i] = at[j] => i = j
    /\ \A p \in I : \E i \in 1..Cardinality(I) : at[i] = p
    /\ Sorted(doc, I, rank) = [i \in 1..Cardinality(I) |-> doc[at[i]]]

\* Sorted takes every one of the positions once.
LEMMA SortedTakesEach ==
    ASSUME NEW k \in Nat, NEW doc, NEW I \in SUBSET (1..k), NEW rank \in [I -> Int]
    PROVE  Cardinality(I) \in Nat /\ \E at : Lists(at, doc, I, rank)
  <1> DEFINE Before(i, j) == rank[i] < rank[j] \/ (rank[i] = rank[j] /\ i <= j)
             Upto(j) == {i \in I : Before(i, j)}
             Place(j) == Cardinality(Upto(j))
             place == [j \in I |-> Place(j)]
  <1>1. IsFiniteSet(I)
    <2>1. IsFiniteSet(1..k)  BY FS_Interval
    <2> QED  BY <2>1, FS_Subset
  <1>2. PICK size \in Nat : size = Cardinality(I)  BY <1>1, FS_CardinalityType
  <1>3. \A j \in I : rank[j] \in Int /\ j \in Int  OBVIOUS
  <1>4. \A i, j \in I : Upto(i) = Upto(j) => i = j
    <2> SUFFICES ASSUME NEW i \in I, NEW j \in I, Upto(i) = Upto(j) PROVE i = j  OBVIOUS
    <2>1. i \in Upto(i) /\ j \in Upto(j)  BY <1>3
    <2>2. Before(i, j) /\ Before(j, i)
      <3> HIDE DEF Before
      <3> QED  BY <2>1
    <2> QED  BY <1>3, <2>2
  <1>5. \A i, j \in I : Upto(i) \subseteq Upto(j) \/ Upto(j) \subseteq Upto(i)
    <2> SUFFICES ASSUME NEW i \in I, NEW j \in I
                 PROVE  Upto(i) \subseteq Upto(j) \/ Upto(j) \subseteq Upto(i)
      OBVIOUS
    <2>1. \A a, b, c \in I : Before(a, b) /\ Before(b, c) => Before(a, c)  BY <1>3
    <2>2. Before(i, j) \/ Before(j, i)  BY <1>3
    <2> HIDE DEF Before
    <2> QED  BY <2>1, <2>2
  <1>6. \A j \in I : Upto(j) \in SUBSET I /\ Upto(j) # {}
    <2> TAKE j \in I
    <2>1. j \in Upto(j)  BY <1>3
    <2> QED  BY <2>1
  <1> HIDE DEF Upto
  <1>7. \A j \in I : IsFiniteSet(Upto(j)) /\ place[j] = Cardinality(Upto(j))  BY <1>1, <1>6, FS_Subset
  <1>8. \A j \in I : place[j] \in 1..size
    <2> TAKE j \in I
    <2>1. Cardinality(Upto(j)) \in Nat /\ Cardinality(Upto(j)) # 0
      BY <1>6, <1>7, FS_CardinalityType, FS_EmptySet
    <2>2. Cardinality(Upto(j)) <= size  BY <1>1, <1>2, <1>6, FS_Subset
    <2>3. PICK c : c = Cardinality(Upto(j))  OBVIOUS
    <2> QED  BY <1>7, <2>1, <2>2, <2>3
  <1>9. \A i, j \in I : place[i] = place[j] => i = j
    <2> SUFFICES ASSUME NEW i \in I, NEW j \in I, place[i] = place[j] PROVE i = j  OBVIOUS
    <2>1. Cardinality(Upto(i)) = Cardinality(Upto(j))  BY <1>7
    <2>2. CASE Upto(i) \subseteq Upto(j)  BY <1>4, <1>7, <2>1, <2>2, FS_Subset
    <2>3. CASE Upto(j) \subseteq Upto(i)  BY <1>4, <1>7, <2>1, <2>3, FS_Subset
    <2> QED  BY <1>5, <2>2, <2>3
  <1>10. place \in Injection(I, 1..size)
    <2>1. place \in [I -> 1..size] /\ DOMAIN place = I  BY <1>8
    <2> HIDE DEF place
    <2> QED  BY <1>9, <2>1 DEF Injection, IsInjective
  <1>11. IsFiniteSet(1..size) /\ Cardinality(1..size) = Cardinality(I)
    <2>1. IsFiniteSet(1..size) /\ Cardinality(1..size) = IF 1 > size THEN 0 ELSE size - 1 + 1
      BY FS_Interval
    <2> QED  BY <1>2, <2>1
  <1> HIDE DEF place
  <1>12. \A n \in 1..size : \E j \in I : place[j] = n
    <2>1. Cardinality(I) = Cardinality(1..size)  BY <1>11
    <2>2. place \in Surjection(I, 1..size)  BY <1>10, <1>11, <2>1, FS_Injection
    <2> QED  BY <2>2 DEF Surjection
  <1> DEFINE at == [n \in 1..size |-> CHOOSE j \in I : place[j] = n]
  <1>13. \A n \in 1..size : at[n] \in I /\ place[at[n]] = n  BY <1>12
  <1>14. at \in [1..size -> I]  BY <1>13
  <1>15. \A i, j \in 1..size : at[i] = at[j] => i = j  BY <1>13
  <1>16. \A p \in I : \E i \in 1..size : at[i] = p
    <2> TAKE p \in I
    <2>1. place[p] \in 1..size  BY <1>8
    <2>2. place[at[place[p]]] = place[p] /\ at[place[p]] \in I  BY <1>13, <2>1
    <2> QED  BY <1>9, <2>1, <2>2
  <1>17. Sorted(doc, I, rank) = [n \in 1..size |-> doc[at[n]]]
    <2>1. Sorted(doc, I, rank) = [n \in 1..size |-> doc[CHOOSE j \in I : Cardinality({i \in I : Before(i, j)}) = n]]
      BY <1>2 DEF Sorted
    <2>2. \A n \in 1..size : (CHOOSE j \in I : Cardinality({i \in I : Before(i, j)}) = n) = at[n]
      <3> TAKE n \in 1..size
      <3>1. \A j \in I : (Cardinality({i \in I : Before(i, j)}) = n) <=> (place[j] = n)
        BY <1>7 DEF Upto
      <3>2. (CHOOSE j \in I : Cardinality({i \in I : Before(i, j)}) = n) = (CHOOSE j \in I : place[j] = n)
        BY <3>1
      <3> QED  BY <3>2
    <2> HIDE DEF at
    <2> QED  BY <2>1, <2>2
  <1> HIDE DEF at
  <1> QED  BY <1>2, <1>14, <1>15, <1>16, <1>17 DEF Lists

\* The databases between the changes of m, from d: run[i] is the one after i of them.
IsRun(run, d, m) ==
    run = [i \in 0..Len(m) |->
             IF i = 0 THEN d ELSE IF run[i - 1] = Rejected THEN Rejected ELSE Mutate(run[i - 1], m[i])]

\* They exist: by the number of changes.
LEMMA RunExists ==
    ASSUME NEW d, NEW m, Len(m) \in Nat
    PROVE  \E run : IsRun(run, d, m)
  <1> DEFINE Following(run, i) == IF i = 0 THEN d
                                  ELSE IF run[i - 1] = Rejected THEN Rejected ELSE Mutate(run[i - 1], m[i])
             Solves(run, n) == run = [i \in 0..n |-> Following(run, i)]
             Unsolved == {n \in Nat : ~ \E run : Solves(run, n)}
  <1>1. Unsolved = {}
    <2> SUFFICES ASSUME Unsolved # {} PROVE FALSE  OBVIOUS
    <2>1. PICK n \in Unsolved : \A k \in Unsolved : n <= k
      <3> HIDE DEF Solves
      <3>1. Unsolved \in SUBSET Nat  OBVIOUS
      <3> HIDE DEF Unsolved
      <3> QED  BY <3>1, LeastElement
    <2>2. n \in Nat /\ ~ \E run : Solves(run, n)
      <3> HIDE DEF Solves
      <3> QED  BY <2>1
    <2>3. CASE n = 0
      <3> DEFINE run == [i \in 0..0 |-> d]
      <3>1. run = [i \in 0..n |-> Following(run, i)]  BY <2>3
      <3> HIDE DEF run
      <3> QED  BY <2>2, <3>1
    <2>4. CASE n # 0
      <3>1. n - 1 \in Nat /\ n - 1 \notin Unsolved
        <4> HIDE DEF Unsolved
        <4> QED  BY <2>1, <2>2, <2>4
      <3>2. PICK g : Solves(g, n - 1)
        <4> HIDE DEF Solves
        <4> QED  BY <3>1
      <3> DEFINE h == [i \in 0..n |-> Following(g, i)]
      <3>3. ASSUME NEW i \in 0..n PROVE Following(g, i) = Following(h, i)
        <4>1. CASE i = 0  BY <4>1
        <4>2. CASE i # 0
          <5>1. i - 1 \in 0..(n - 1) /\ i - 1 \in 0..n  BY <2>2, <4>2
          <5>2. g[i - 1] = Following(g, i - 1)
            <6> HIDE DEF Following
            <6> QED  BY <3>2, <5>1
          <5>3. h[i - 1] = Following(g, i - 1)
            <6> HIDE DEF Following
            <6> QED  BY <5>1
          <5> HIDE DEF h
          <5> QED  BY <4>2, <5>2, <5>3
        <4> QED  BY <4>1, <4>2
      <3>4. Solves(h, n)
        <4>1. h = [i \in 0..n |-> Following(g, i)]  OBVIOUS
        <4> HIDE DEF h, Following
        <4> QED  BY <3>3, <4>1
      <3> HIDE DEF Solves
      <3> QED  BY <2>2, <3>4
    <2> QED  BY <2>3, <2>4
  <1>2. PICK run : Solves(run, Len(m))
    <2> HIDE DEF Solves
    <2>1. Len(m) \notin Unsolved
      <3> HIDE DEF Unsolved
      <3> QED  BY <1>1
    <2> QED  BY <2>1
  <1> QED  BY <1>2 DEF IsRun

\* run has the databases from d on, one change of m after the other.
Applies(run, d, m) ==
    /\ run[0] = d /\ run[Len(m)] = ApplyInOrder(d, m)
    /\ \A i \in 0..Len(m) : run[i] # Rejected
    /\ \A i \in 0..Len(m) : i < Len(m) => run[i + 1] = Mutate(run[i], m[i + 1])

\* A sequence of changes that is not rolled back applied every one of them.
LEMMA ApplyRuns ==
    ASSUME NEW d, NEW m, NEW n \in Nat, n = Len(m), ApplyInOrder(d, m) # Rejected
    PROVE  \E run : Applies(run, d, m)
  <1> DEFINE run == CHOOSE f : IsRun(f, d, m)
  <1>1. IsRun(run, d, m)
    <2>1. \E f : IsRun(f, d, m)  BY RunExists
    <2> QED  BY <2>1
  <1>2. ApplyInOrder(d, m) = run[n]
    BY DEF ApplyInOrder, IsRun
  <1> HIDE DEF run
  <1>3. \A i \in 0..n : run[i] = IF i = 0 THEN d
                                 ELSE IF run[i - 1] = Rejected THEN Rejected ELSE Mutate(run[i - 1], m[i])
    BY <1>1 DEF IsRun
  <1>4. \A i \in 0..n : run[i] # Rejected
    <2> SUFFICES ASSUME NEW i \in 0..n, run[i] = Rejected PROVE FALSE  OBVIOUS
    <2> DEFINE Good == {j \in Nat : i <= j /\ j <= n /\ run[j] # Rejected}
    <2>1. n \in Good  BY <1>2
    <2>2. PICK j \in Good : \A k \in Good : j <= k
      <3>1. Good \in SUBSET Nat  OBVIOUS
      <3> HIDE DEF Good
      <3> QED  BY <2>1, <3>1, LeastElement
    <2>3. j # i /\ j \in 0..n /\ j - 1 \in Nat /\ i <= j - 1 /\ j - 1 <= n  BY <2>2
    <2>4. j - 1 \notin Good
      <3> HIDE DEF Good
      <3> QED  BY <2>2, <2>3
    <2>5. run[j - 1] = Rejected  BY <2>3, <2>4
    <2>6. run[j] = Rejected  BY <1>3, <2>3, <2>5
    <2> QED  BY <2>2, <2>6
  <1>5. \A i \in 0..n : i < n => run[i + 1] = Mutate(run[i], m[i + 1])
    <2> SUFFICES ASSUME NEW i \in 0..n, i < n PROVE run[i + 1] = Mutate(run[i], m[i + 1])
      OBVIOUS
    <2>1. i + 1 \in 0..n /\ i + 1 # 0 /\ (i + 1) - 1 = i  OBVIOUS
    <2> QED  BY <1>3, <1>4, <2>1
  <1>6. run[0] = d  BY <1>3
  <1> QED  BY <1>2, <1>4, <1>5, <1>6 DEF Applies

\* What the first i changes of m deleted.
Removed(m, i) == {m[j].res : j \in {l \in 1..i : m[l].to = Absent}}

\* After i changes of m, from d.
Progress(d, m, run, i) ==
    /\ Within(d, run[i], Removed(m, i))
    /\ \A x \in Resource : \/ \E j \in 1..i : m[j].res = x /\ run[i].spec[x] = m[j].to
                           \/ (\A j \in 1..i : m[j].res # x) /\ run[i].spec[x] = d.spec[x]

LEMMA ChangeFacts ==
    ASSUME NEW c \in Changes
    PROVE  c.res \in Resource /\ Kind[c.res] # "Secret" /\ c.to \in Options[c.res] \cup {Absent}
  BY ConfigGraphAssumption DEF Changes, OfKind

\* By the number of changes.
LEMMA InOrder ==
    ASSUME NEW d, NEW n \in Nat, NEW m \in [1..n -> Changes], \A i, j \in 1..n : m[i].res = m[j].res => i = j,
           Within(d, d, {}), NEW run, Applies(run, d, m)
    PROVE  \A i \in 0..n : Progress(d, m, run, i)
  <1>0. /\ run[0] = d /\ \A i \in 0..n : run[i] # Rejected
        /\ \A i \in 0..n : i < n => run[i + 1] = Mutate(run[i], m[i + 1])
    <2>1. Len(m) = n  OBVIOUS
    <2> QED  BY <2>1 DEF Applies
  <1> DEFINE Bad == {i \in Nat : i <= n /\ ~Progress(d, m, run, i)}
  <1> SUFFICES ASSUME Bad # {} PROVE FALSE  OBVIOUS
  <1>1. PICK k \in Bad : \A j \in Bad : k <= j
    <2>1. Bad \in SUBSET Nat  OBVIOUS
    <2> HIDE DEF Bad
    <2> QED  BY <2>1, LeastElement
  <1>2. k \in Nat /\ k <= n /\ ~Progress(d, m, run, k)  BY <1>1
  <1>3. CASE k = 0
    <2>0. run[0] = d  BY <1>0
    <2>1. Removed(m, 0) = {}  BY DEF Removed
    <2>2. \A x \in Resource : (\A j \in 1..0 : m[j].res # x) /\ run[0].spec[x] = d.spec[x]  BY <2>0
    <2>3. Within(d, run[0], Removed(m, 0))  BY <2>0, <2>1
    <2> QED  BY <1>2, <1>3, <2>2, <2>3 DEF Progress
  <1>4. CASE k # 0
    <2>1. PICK i \in Nat : i = k - 1  BY <1>2, <1>4
    <2>2. k = i + 1 /\ i \in 0..n /\ i < n /\ k \in 1..n /\ k \in 0..n  BY <1>2, <1>4, <2>1
    <2>3. i \notin Bad
      <3> HIDE DEF Bad
      <3> QED  BY <1>1, <2>1, <2>2
    <2>4. Progress(d, m, run, i)  BY <2>2, <2>3
    <2> HIDE DEF Bad
    <2>5. PICK x, to, deleted : x = m[k].res /\ to = m[k].to /\ deleted = Removed(m, i)  OBVIOUS
    <2>6. x \in Resource /\ to \in Options[x] \cup {Absent}  BY <2>2, <2>5, ChangeFacts
    <2>7. run[k] = Mutate(run[i], m[k]) /\ run[k] # Rejected  BY <1>0, <2>2
    <2>8. Within(d, run[i], deleted)  BY <2>4, <2>5 DEF Progress
    <2>9. run[i].spec \in [Resource -> Specifications \cup {Absent}]  BY <2>8 DEF Within, Databases
    <2>10. Within(d, run[k], Removed(m, k)) /\ run[k].spec[x] = to
           /\ \A y \in Resource \ {x} : run[k].spec[y] = run[i].spec[y]
      <3>1. CASE to = Absent
        <4>1. run[k] = Delete(run[i], x)  BY <2>5, <2>7, <3>1 DEF Mutate
        <4>2. Removed(m, k) = deleted \cup {x}
          <5>1. 1..k = (1..i) \cup {k}  BY <2>2
          <5>2. {l \in 1..k : m[l].to = Absent} = {l \in 1..i : m[l].to = Absent} \cup {k}
            BY <2>5, <3>1, <5>1
          <5> QED  BY <2>5, <5>2 DEF Removed
        <4>4. PICK p, q : p = run[i] /\ q = run[k]  OBVIOUS
        <4>5. Within(d, p, deleted) /\ q = Delete(p, x) /\ q # Rejected  BY <2>7, <2>8, <4>1, <4>4
        <4>6. x \in Resource  BY <2>6
        <4>7. Within(d, q, deleted \cup {x})  BY <4>5, <4>6, DeleteStep
        <4>8. q.spec[x] = Absent /\ \A y \in Resource \ {x} : q.spec[y] = p.spec[y]
          <5>1. p \in Databases  BY <4>5 DEF Within
          <5> QED  BY <4>5, <4>6, <5>1, DeleteSpec
        <4> QED  BY <3>1, <4>1, <4>2, <4>4, <4>7, <4>8
      <3>2. CASE to # Absent
        <4>1. run[k] = Put(run[i], x, to)  BY <2>5, <2>7, <3>2 DEF Mutate
        <4>2. Removed(m, k) = deleted
          <5>1. \A l \in 1..k : l \in 1..i \/ l = k  BY <2>2
          <5>2. \A l \in 1..i : l \in 1..k  BY <2>2
          <5> QED  BY <2>2, <2>5, <3>2, <5>1, <5>2 DEF Removed
        <4>3. to \in Options[x]  BY <2>6, <3>2
        <4>4. PICK p, q : p = run[i] /\ q = Put(p, x, to)  OBVIOUS
        <4>5. Within(d, q, deleted) /\ q.spec = [p.spec EXCEPT ![x] = to]
          BY <2>6, <2>7, <2>8, <4>1, <4>3, <4>4, PutStep
        <4>6. p.spec \in [Resource -> Specifications \cup {Absent}]  BY <2>9, <4>4
        <4>7. q.spec[x] = to /\ \A y \in Resource \ {x} : q.spec[y] = p.spec[y]  BY <2>6, <4>5, <4>6
        <4> QED  BY <4>1, <4>2, <4>4, <4>5, <4>7
      <3> QED  BY <3>1, <3>2
    <2>11. ASSUME NEW y \in Resource
           PROVE  \/ \E j \in 1..k : m[j].res = y /\ run[k].spec[y] = m[j].to
                  \/ (\A j \in 1..k : m[j].res # y) /\ run[k].spec[y] = d.spec[y]
      <3>1. CASE y = x
        <4>1. run[k].spec[y] = to  BY <2>10, <3>1
        <4> QED  BY <2>2, <2>5, <3>1, <4>1
      <3>2. CASE y # x
        <4>1. run[k].spec[y] = run[i].spec[y]  BY <2>10, <3>2
        <4>2. CASE \E j \in 1..i : m[j].res = y /\ run[i].spec[y] = m[j].to
          <5>1. PICK j \in 1..i : m[j].res = y /\ run[i].spec[y] = m[j].to  BY <4>2
          <5>2. j \in 1..k  BY <2>2
          <5> QED  BY <4>1, <5>1, <5>2
        <4>3. CASE (\A j \in 1..i : m[j].res # y) /\ run[i].spec[y] = d.spec[y]
          <5>1. \A l \in 1..k : l \in 1..i \/ l = k  BY <2>2
          <5> QED  BY <2>5, <3>2, <4>1, <4>3, <5>1
        <4> QED  BY <2>4, <4>2, <4>3 DEF Progress
      <3> QED  BY <3>1, <3>2
    <2>12. Progress(d, m, run, k)  BY <2>10, <2>11 DEF Progress
    <2> QED  BY <1>2, <2>12
  <1> QED  BY <1>3, <1>4

\* The database e follows b: what was deleted is gone, and what is there is valid.
Follows(b, e) ==
    /\ \E deleted \in SUBSET Resource : Within(b, e, deleted) /\ \A x \in deleted : e.spec[x] = Absent
    /\ Validate(e.spec, {})

LEMMA DocumentFacts ==
    ASSUME NEW doc \in Documents
    PROVE  \E k \in Nat : /\ doc \in [1..k -> Changes] /\ DOMAIN doc = 1..k
                          /\ \A i, j \in 1..k : doc[i].res = doc[j].res => i = j
  <1>1. PICK k \in 1..MaxDocument : doc \in [1..k -> Changes]  BY DEF Documents
  <1>2. k \in Nat  BY ConfigGraphAssumption
  <1>3. DOMAIN doc = 1..k  BY <1>1
  <1> QED  BY <1>1, <1>2, <1>3 DEF Documents

LEMMA RankFacts ==
    ASSUME NEW c \in Changes
    PROVE  mutationRank(c) \in Int
  <1>1. Kind[c.res] \in DOMAIN kindRank  BY ChangeFacts, ConfigGraphAssumption
  <1>2. \A k \in DOMAIN kindRank : kindRank[k] \in Int  BY DEF kindRank
  <1>3. PICK r \in Int : r = kindRank[Kind[c.res]]  BY <1>1, <1>2
  <1> QED  BY <1>3 DEF mutationRank

\* A document that is applied leaves exactly the effective graph that was validated.
LEMMA DocumentStep ==
    ASSUME NEW d, Within(d, d, {}), NEW doc \in Documents, NEW edited,
           Validate(Effective(d, doc), Declared(doc)),
           NEW e, e = ApplyConfigTx(d, doc, Prepare(d, doc, edited)), e # Rejected
    PROVE  Follows(d, e)
  <1>1. PICK k \in Nat : /\ doc \in [1..k -> Changes] /\ DOMAIN doc = 1..k
                         /\ \A i, j \in 1..k : doc[i].res = doc[j].res => i = j
    BY DocumentFacts
  <1>2. PICK I : I = Prepare(d, doc, edited)  OBVIOUS
  <1>3. I \in SUBSET (1..k)  BY <1>1, <1>2 DEF Prepare
  <1>4. PICK rank : rank = [i \in I |-> mutationRank(doc[i])]  OBVIOUS
  <1>5. rank \in [I -> Int]  BY <1>1, <1>3, <1>4, RankFacts
  <1>6. PICK n \in Nat : n = Cardinality(I)  BY <1>3, <1>5, SortedTakesEach
  <1>7. PICK at \in [1..n -> I] :
                /\ \A i, j \in 1..n : at[i] = at[j] => i = j
                /\ \A p \in I : \E i \in 1..n : at[i] = p
                /\ Sorted(doc, I, rank) = [i \in 1..n |-> doc[at[i]]]
    <2>1. PICK at : Lists(at, doc, I, rank)  BY <1>3, <1>5, SortedTakesEach
    <2>2. at \in [1..n -> I]  BY <1>6, <2>1 DEF Lists
    <2> QED  BY <1>6, <2>1, <2>2 DEF Lists
  <1>8. PICK m : m = Sorted(doc, I, rank)  OBVIOUS
  <1>9. m \in [1..n -> Changes] /\ \A i \in 1..n : m[i] = doc[at[i]] /\ at[i] \in 1..k
    <2>1. m = [i \in 1..n |-> doc[at[i]]]  BY <1>7, <1>8
    <2>2. \A i \in 1..n : at[i] \in 1..k  BY <1>3, <1>7
    <2>3. \A i \in 1..n : doc[at[i]] \in Changes  BY <1>1, <2>2
    <2> QED  BY <2>1, <2>2, <2>3
  <1>10. \A i, j \in 1..n : m[i].res = m[j].res => i = j  BY <1>1, <1>7, <1>9
  <1>11. Len(m) = n  BY <1>9
  <1>12. e = ApplyInOrder(d, m)  BY <1>2, <1>4, <1>8 DEF ApplyConfigTx
  <1>13. PICK run : Applies(run, d, m)
    <2>1. ApplyInOrder(d, m) # Rejected  BY <1>12
    <2> QED  BY <1>11, <2>1, ApplyRuns
  <1>14. Progress(d, m, run, n) /\ run[n] = e
    <2>1. Progress(d, m, run, n)  BY <1>9, <1>10, <1>13, InOrder
    <2> QED  BY <1>11, <1>12, <1>13, <2>1 DEF Applies
  <1>15. PICK deleted : deleted = Removed(m, n)  OBVIOUS
  <1>16. Within(d, e, deleted)  BY <1>14, <1>15 DEF Progress
  <1>17. ASSUME NEW x \in Resource PROVE e.spec[x] = Effective(d, doc)[x]
    <2>1. \/ \E j \in 1..n : m[j].res = x /\ e.spec[x] = m[j].to
          \/ (\A j \in 1..n : m[j].res # x) /\ e.spec[x] = d.spec[x]
      BY <1>14 DEF Progress
    <2>2. CASE x \in Declared(doc)
      <3>1. PICK p \in 1..k : doc[p].res = x  BY <1>1, <2>2 DEF Declared
      <3>2. (CHOOSE i \in DOMAIN doc : doc[i].res = x) = p  BY <1>1, <3>1
      <3>3. Effective(d, doc)[x] = doc[p].to  BY <2>2, <3>2 DEF Effective
      <3>4. CASE p \in I
        <4>1. PICK j \in 1..n : at[j] = p  BY <1>7, <3>4
        <4>2. m[j] = doc[p]  BY <1>9, <4>1
        <4>3. PICK l \in 1..n : m[l].res = x /\ e.spec[x] = m[l].to  BY <2>1, <3>1, <4>2
        <4>4. l = j  BY <1>10, <3>1, <4>2, <4>3
        <4> QED  BY <3>3, <4>2, <4>3, <4>4
      <3>5. CASE p \notin I
        <4>1. doc[p].to = d.spec[x]  BY <1>1, <1>2, <3>1, <3>5 DEF Prepare
        <4>2. \A j \in 1..n : m[j].res # x
          <5> SUFFICES ASSUME NEW j \in 1..n, m[j].res = x PROVE FALSE  OBVIOUS
          <5>1. doc[at[j]].res = x /\ at[j] \in 1..k /\ at[j] \in I  BY <1>9
          <5>2. at[j] = p  BY <1>1, <3>1, <5>1
          <5> QED  BY <3>5, <5>1, <5>2
        <4> QED  BY <2>1, <3>3, <4>1, <4>2
      <3> QED  BY <3>4, <3>5
    <2>3. CASE x \notin Declared(doc)
      <3>1. Effective(d, doc)[x] = d.spec[x]  BY <2>3 DEF Effective
      <3>2. \A j \in 1..n : m[j].res # x  BY <1>1, <1>9, <2>3 DEF Declared
      <3> QED  BY <2>1, <3>1, <3>2
    <2> QED  BY <2>2, <2>3
  <1>18. e.spec = Effective(d, doc)
    <2>1. e.spec \in [Resource -> Specifications \cup {Absent}]  BY <1>16 DEF Within, Databases
    <2>2. Effective(d, doc) = [x \in Resource |-> Effective(d, doc)[x]]  BY DEF Effective
    <2> QED  BY <1>17, <2>1, <2>2
  <1>19. Validate(e.spec, {})  BY <1>18 DEF Validate
  <1>20. \A x \in deleted : e.spec[x] = Absent /\ x \in Resource
    <2> TAKE x \in deleted
    <2>1. PICK j \in 1..n : m[j].res = x /\ m[j].to = Absent  BY <1>15 DEF Removed
    <2>2. x \in Resource  BY <1>9, <2>1, ChangeFacts
    <2>3. PICK l \in 1..n : m[l].res = x /\ e.spec[x] = m[l].to  BY <1>14, <2>1, <2>2 DEF Progress
    <2> QED  BY <1>10, <2>1, <2>2, <2>3
  <1> QED  BY <1>16, <1>19, <1>20 DEF Follows

----------------------------------------------------------------------------
(* Configuration graph: the invariant                                      *)

GraphInv ==
    /\ Within(db, db, {}) /\ Validate(db.spec, {})
    /\ latest \in [Strategy -> Nat] /\ \A s \in Strategy : latest[s] <= Len(db.versions[s])

\* The four resources that a destination leads to are there, and its two ends
\* meet in one provider.
LeadsToOneProvider(d, x) ==
    LET model      == d.spec[x].refs[1]
        credential == d.spec[x].refs[2]
        connection == d.spec[model].refs[1]
        account    == d.spec[credential].refs[1]
    IN  /\ model \in Resource /\ Kind[model] = "Model" /\ d.spec[model] # Absent
        /\ credential \in Resource /\ Kind[credential] = "Credential" /\ d.spec[credential] # Absent
        /\ connection \in Resource /\ Kind[connection] = "ProviderConnection" /\ d.spec[connection] # Absent
        /\ account \in Resource /\ Kind[account] = "ProviderAccount" /\ d.spec[account] # Absent
        /\ d.spec[connection].refs = d.spec[account].refs

LEMMA DestinationLeadsTo ==
    ASSUME NEW d, d \in Databases, Specified(d), Validate(d.spec, {}),
           NEW x \in Resource, Kind[x] = "Destination", d.spec[x] # Absent
    PROVE  LeadsToOneProvider(d, x)
  <1>0. PICK model, credential : model = d.spec[x].refs[1] /\ credential = d.spec[x].refs[2]  OBVIOUS
  <1>9. PICK connection, account : connection = d.spec[model].refs[1] /\ account = d.spec[credential].refs[1]
    OBVIOUS
  <1>1. ASSUME NEW y \in Resource, d.spec[y] # Absent, NEW i \in Nat, i \in 1..Len(RefKinds[Kind[y]]),
               Kind[y] \notin {"Strategy", "AgentToken"}, NEW z, z = d.spec[y].refs[i]
        PROVE  z \in Resource /\ Kind[z] = RefKinds[Kind[y]][i] /\ d.spec[z] # Absent
    <2>1. d.spec[y] \in Options[y]  BY <1>1 DEF Specified
    <2>2. PICK s \in Options[y] : s = d.spec[y]  BY <2>1
    <2>3. /\ s.refs \in Seq(Resource) /\ Len(s.refs) = Len(RefKinds[Kind[y]])
          /\ \A j \in 1..Len(s.refs) : Kind[s.refs[j]] = RefKinds[Kind[y]][j]
      BY <1>1, RefKindsOf
    <2>4. z \in Resource /\ Kind[z] = RefKinds[Kind[y]][i]  BY <1>1, <2>2, <2>3
    <2>5. z \in Refs(d.spec[y])  BY <1>1, <2>2, <2>3 DEF Refs
    <2>6. validateReferences(d.spec, y)  BY <1>1 DEF Validate
    <2> QED  BY <2>4, <2>5, <2>6 DEF validateReferences
  <1>2. /\ 1 \in 1..Len(RefKinds["Destination"]) /\ 2 \in 1..Len(RefKinds["Destination"])
        /\ 1 \in 1..Len(RefKinds["Model"]) /\ 1 \in 1..Len(RefKinds["Credential"])
        /\ RefKinds["Destination"][1] = "Model" /\ RefKinds["Destination"][2] = "Credential"
        /\ RefKinds["Model"][1] = "ProviderConnection" /\ RefKinds["Credential"][1] = "ProviderAccount"
    BY KindFacts
  <1>3. model \in Resource /\ Kind[model] = "Model" /\ d.spec[model] # Absent
    BY <1>0, <1>9, <1>1, <1>2
  <1>4. credential \in Resource /\ Kind[credential] = "Credential" /\ d.spec[credential] # Absent
    BY <1>0, <1>9, <1>1, <1>2
  <1>5. connection \in Resource /\ Kind[connection] = "ProviderConnection" /\ d.spec[connection] # Absent
    BY <1>0, <1>9, <1>1, <1>2, <1>3
  <1>6. account \in Resource /\ Kind[account] = "ProviderAccount" /\ d.spec[account] # Absent
    BY <1>0, <1>9, <1>1, <1>2, <1>4
  <1>7. ~Mismatch(d.spec, x)  BY DEF Validate, validateReferences
  <1>8. d.spec[connection].refs = d.spec[account].refs  BY <1>0, <1>9, <1>5, <1>6, <1>7 DEF Mismatch
  <1> QED  BY <1>0, <1>9, <1>3, <1>4, <1>5, <1>6, <1>8 DEF LeadsToOneProvider

\* Validity survives a change of one resource that nothing refers to.
LEMMA ValidAfter ==
    ASSUME NEW d, d \in Databases, Specified(d), Validate(d.spec, {}),
           NEW x \in Resource, Kind[x] = "Secret", NEW g, \A y \in Resource \ {x} : g[y] = d.spec[y],
           \A y \in Resource \ {x} : d.spec[y] # Absent /\ g[x] = Absent => x \notin Refs(d.spec[y]),
           g[x] # Absent => Refs(g[x]) = {}
    PROVE  Validate(g, {})
  <1> SUFFICES ASSUME NEW y \in Resource, g[y] # Absent PROVE validateReferences(g, y)
    BY DEF Validate
  <1>1. CASE y = x  BY <1>1 DEF validateReferences
  <1>2. CASE y # x
    <2>1. g[y] = d.spec[y] /\ validateReferences(d.spec, y)  BY <1>2 DEF Validate
    <2>2. ASSUME NEW z \in Refs(g[y]) PROVE g[z] # Absent
      <3>1. d.spec[z] # Absent  BY <2>1, <2>2 DEF validateReferences
      <3>2. z \in Resource
        <4>1. d.spec[y] \in Options[y]  BY <2>1 DEF Specified
        <4>2. d.spec[y].refs \in Seq(Resource)  BY <4>1, RefKindsOf
        <4> QED  BY <2>1, <2>2, <4>2 DEF Refs
      <3> QED  BY <1>2, <2>1, <2>2, <3>1, <3>2
    <2>3. ASSUME Kind[y] = "Destination" PROVE ~Mismatch(g, y)
      <3>1. PICK model, credential : model = d.spec[y].refs[1] /\ credential = d.spec[y].refs[2]  OBVIOUS
      <3>2. PICK connection, account :
               connection = d.spec[model].refs[1] /\ account = d.spec[credential].refs[1]
        OBVIOUS
      <3>3. /\ model \in Resource /\ Kind[model] = "Model"
            /\ credential \in Resource /\ Kind[credential] = "Credential"
            /\ connection \in Resource /\ Kind[connection] = "ProviderConnection"
            /\ account \in Resource /\ Kind[account] = "ProviderAccount"
            /\ d.spec[connection].refs = d.spec[account].refs
        <4>1. Kind[y] = "Destination" /\ d.spec[y] # Absent  BY <2>1, <2>3
        <4>2. LeadsToOneProvider(d, y)  BY <4>1, DestinationLeadsTo
        <4> QED  BY <3>1, <3>2, <4>2 DEF LeadsToOneProvider
      <3>4. g[model] = d.spec[model] /\ g[credential] = d.spec[credential]  BY <3>3
      <3>5. g[connection] = d.spec[connection] /\ g[account] = d.spec[account]  BY <3>3
      <3>6. g[y].refs[1] = model /\ g[y].refs[2] = credential  BY <2>1, <3>1
      <3>7. g[model].refs[1] = connection /\ g[credential].refs[1] = account  BY <3>2, <3>4
      <3>8. g[connection].refs = g[account].refs  BY <3>3, <3>5
      <3> QED  BY <3>6, <3>7, <3>8 DEF Mismatch
    <2> QED  BY <2>2, <2>3 DEF validateReferences
  <1> QED  BY <1>1, <1>2

\* Nothing that has no foreign key refers to a secret.
LEMMA SecretRefs ==
    ASSUME NEW d, Within(d, d, {}), NEW x \in Resource, Kind[x] = "Secret"
    PROVE  /\ \A s \in Options[x] : Refs(s) = {}
           /\ \A y \in Resource : d.spec[y] # Absent /\ x \in Refs(d.spec[y])
                                    => Kind[y] # "AgentToken" /\ y \in Referrers(d, x)
  <1>1. ASSUME NEW y \in Resource, NEW s \in Options[y], Kind[y] \in {"Provider", "Egress", "Secret"}
        PROVE  Refs(s) = {}
    <2>1. Kind[y] \notin {"Strategy", "AgentToken"} /\ Len(RefKinds[Kind[y]]) = 0  BY <1>1, KindFacts
    <2>2. Len(s.refs) = 0  BY <2>1, RefKindsOf
    <2> QED  BY <2>2 DEF Refs
  <1>2. ASSUME NEW y \in Resource, d.spec[y] # Absent, x \in Refs(d.spec[y])
        PROVE  Kind[y] # "AgentToken" /\ y \in Referrers(d, x)
    <2>1. PICK s \in Options[y] : s = d.spec[y]  BY <1>2 DEF Within, Specified
    <2>2. PICK i \in 1..Len(s.refs) : s.refs[i] = x  BY <1>2, <2>1 DEF Refs
    <2>3. Kind[y] # "AgentToken" /\ Kind[y] # "Strategy"
      <3>1. Kind[y] = "AgentToken" => Kind[s.refs[i]] = "Route"  BY RefKindsOf
      <3>2. Kind[y] = "Strategy" => Kind[s.refs[i]] = "Destination"  BY RefKindsOf
      <3> QED  BY <2>2, <3>1, <3>2
    <2>4. Typed(y)
      <3>1. Kind[y] \notin {"Provider", "Egress", "Secret"}  BY <1>1, <1>2, <2>1
      <3> QED  BY <2>3, <3>1 DEF Typed
    <2>5. d.row[y] = s.refs  BY <1>2, <2>1, <2>3, <2>4 DEF Within, Projected
    <2>6. d.row[y] # Absent  BY <2>5, RefKindsOf
    <2>7. x \in {d.row[y][j] : j \in 1..Len(d.row[y])}  BY <2>2, <2>5
    <2> QED  BY <1>2, <2>3, <2>6, <2>7 DEF Referrers, Live
  <1> QED  BY <1>1, <1>2

----------------------------------------------------------------------------
(* Configuration graph: the steps                                          *)

LEMMA PublishFollows ==
    ASSUME GraphInv, NEW s \in Strategy, PublishStrategy(s)
    PROVE  Follows(db, db') /\ latest' \in [Strategy -> Nat] /\ \A u \in Strategy : latest'[u] <= Len(db'.versions[u])
  <1>1. PICK p : p = publishStrategyTx(db, s)  OBVIOUS
  <1>2. Within(db, db, {}) /\ db.spec[s] # Absent  BY DEF GraphInv, PublishStrategy
  <1>3. /\ Within(db, p, {})
        /\ p.spec = db.spec
        /\ \E i \in 1..Len(p.versions[s]) : p.versions[s][i] = db.spec[s].refs
        /\ \A u \in Strategy \ {s} : p.versions[u] = db.versions[u]
    BY <1>1, <1>2, PublishStep
  <1>4. db' = p  BY <1>1 DEF PublishStrategy
  <1>5. PICK id : id = CHOOSE i \in 1..Len(p.versions[s]) : p.versions[s][i] = db.spec[s].refs  OBVIOUS
  <1>6. id \in 1..Len(p.versions[s])  BY <1>3, <1>5
  <1>7. latest' = [latest EXCEPT ![s] = id]  BY <1>4, <1>5 DEF PublishStrategy
  <1>8. \A u \in Strategy : latest[u] \in Nat /\ latest[u] <= Len(db.versions[u])  BY DEF GraphInv
  <1>9. latest \in [Strategy -> Nat]  BY DEF GraphInv
  <1>10. p.versions[s] \in Seq(Seq(Resource))  BY <1>3 DEF Within, Databases
  <1>11. PICK n \in Nat : n = Len(p.versions[s])  BY <1>10
  <1>12. id \in Nat /\ id <= n  BY <1>6, <1>11
  <1>13. latest' \in [Strategy -> Nat]  BY <1>7, <1>9, <1>12
  <1>14. \A u \in Strategy : latest'[u] <= Len(p.versions[u])
    <2> TAKE u \in Strategy
    <2>1. CASE u = s
      <3>1. latest'[u] = id  BY <1>7, <1>9, <2>1
      <3> QED  BY <1>11, <1>12, <2>1, <3>1
    <2>2. CASE u # s
      <3>1. latest'[u] = latest[u] /\ p.versions[u] = db.versions[u]  BY <1>3, <1>7, <1>9, <2>2
      <3> QED  BY <1>8, <3>1
    <2> QED  BY <2>1, <2>2
  <1>15. Validate(p.spec, {})  BY <1>3 DEF GraphInv
  <1> QED  BY <1>3, <1>4, <1>13, <1>14, <1>15 DEF Follows

LEMMA RevokeFollows ==
    ASSUME GraphInv, NEW t \in AgentToken, RevokeToken(t)
    PROVE  Follows(db, db') /\ db'.versions = db.versions
  <1>1. db \in Databases  BY DEF GraphInv, Within
  <1>2. /\ db'.spec = db.spec /\ db'.row = db.row /\ db'.versions = db.versions /\ db'.active = db.active
        /\ db'.revoked = db.revoked \cup {t}
        /\ db' = [spec |-> db'.spec, row |-> db'.row, versions |-> db'.versions, active |-> db'.active,
                  revoked |-> db'.revoked]
    BY <1>1 DEF RevokeToken, Databases
  <1>3. PICK e : e = db'  OBVIOUS
  <1>4. e \in Databases  BY <1>1, <1>2, <1>3 DEF Databases
  <1>5. Specified(e) /\ Projected(e) /\ TokensFollow(e, {}) /\ Running(e) /\ Published(e)
    <2>1. Specified(db) /\ Projected(db) /\ TokensFollow(db, {}) /\ Running(db) /\ Published(db)
      BY DEF GraphInv, Within
    <2>2. e.spec = db.spec /\ e.row = db.row /\ e.versions = db.versions /\ e.active = db.active
      BY <1>2, <1>3
    <2>3. Specified(e) /\ Projected(e)  BY <2>1, <2>2 DEF Specified, Projected
    <2>4. TokensFollow(e, {})  BY <2>1, <2>2 DEF TokensFollow
    <2>5. Running(e)  BY <2>1, <2>2 DEF Running
    <2>6. Published(e)  BY <2>1, <2>2 DEF Published
    <2> QED  BY <2>3, <2>4, <2>5, <2>6
  <1>6. Kept(db, e, {})  BY <1>2, <1>3 DEF GraphInv, Within, Kept
  <1>7. Validate(e.spec, {})  BY <1>2, <1>3 DEF GraphInv
  <1> QED  BY <1>2, <1>3, <1>4, <1>5, <1>6, <1>7 DEF Within, Follows

LEMMA PutSecretFollows ==
    ASSUME GraphInv, NEW x \in Resource, PutSecret(x)
    PROVE  Follows(db, db') /\ db'.versions = db.versions
  <1>1. db \in Databases /\ Within(db, db, {}) /\ Specified(db) /\ Validate(db.spec, {})
    BY DEF GraphInv, Within
  <1>2. Kind[x] = "Secret" /\ db.spec[x] = Absent  BY DEF PutSecret, OfKind
  <1>3. PICK s \in Options[x] : db' = [db EXCEPT !.spec[x] = s]  BY DEF PutSecret
  <1>4. /\ db'.spec = [db.spec EXCEPT ![x] = s] /\ db'.row = db.row /\ db'.versions = db.versions
        /\ db'.active = db.active /\ db'.revoked = db.revoked
        /\ db' = [spec |-> db'.spec, row |-> db'.row, versions |-> db'.versions, active |-> db'.active,
                  revoked |-> db'.revoked]
    BY <1>1, <1>3 DEF Databases
  <1>5. PICK e : e = db'  OBVIOUS
  <1>6. db.row[x] = Absent /\ db.row = [db.row EXCEPT ![x] = Absent]
    <2>1. db.row[x] = Absent  BY <1>1, <1>2 DEF Within, Projected
    <2> QED  BY <1>1, <2>1 DEF Databases
  <1>7. ~Typed(x) /\ Kind[x] # "Route"  BY <1>2 DEF Typed
  <1>8. Within(db, e, {})
    <2>1. db.revoked \in SUBSET AgentToken  BY <1>1 DEF Databases
    <2>2. SetTo(db, x, s, 0, e)  BY <1>4, <1>5, <1>6, <1>7, <2>1 DEF SetTo
    <2> QED  BY <1>1, <2>2, SetStep
  <1>9. Validate(e.spec, {})
    <2>1. \A y \in Resource \ {x} : e.spec[y] = db.spec[y]  BY <1>1, <1>4, <1>5 DEF Databases
    <2>2. e.spec[x] = s  BY <1>1, <1>4, <1>5 DEF Databases
    <2>3. Refs(s) = {} /\ s # Absent  BY <1>1, <1>2, SecretRefs, RefKindsOf
    <2> QED  BY <1>1, <1>2, <2>1, <2>2, <2>3, ValidAfter
  <1> QED  BY <1>4, <1>5, <1>8, <1>9 DEF Follows

LEMMA DeleteSecretFollows ==
    ASSUME GraphInv, NEW x \in Resource, DeleteSecret(x)
    PROVE  Follows(db, db') /\ db'.versions = db.versions
  <1>1. db \in Databases /\ Within(db, db, {}) /\ Specified(db) /\ Validate(db.spec, {})
    BY DEF GraphInv, Within
  <1>2. Kind[x] = "Secret"  BY DEF DeleteSecret, OfKind
  <1>3. PICK e : e = db'  OBVIOUS
  <1>4. e = Delete(db, x) /\ e # Rejected  BY <1>3 DEF DeleteSecret
  <1>5. Within(db, e, {} \cup {x})  BY <1>1, <1>4, DeleteStep
  <1>6. e.spec[x] = Absent /\ \A y \in Resource \ {x} : e.spec[y] = db.spec[y]  BY <1>1, <1>4, DeleteSpec
  <1>7. \A y \in Referrers(db, x) : Kind[y] = "AgentToken"  BY <1>4 DEF Delete
  <1>8. \A y \in Resource \ {x} : db.spec[y] # Absent => x \notin Refs(db.spec[y])
    BY <1>1, <1>2, <1>7, SecretRefs
  <1>9. Validate(e.spec, {})  BY <1>1, <1>2, <1>6, <1>8, ValidAfter
  <1>10. e.versions = db.versions
    <2>1. e.versions = [s \in Strategy |-> IF s = x THEN <<>> ELSE db.versions[s]]
      BY <1>1, <1>4 DEF Delete, Databases
    <2>2. \A s \in Strategy : s # x  BY <1>2, KindsDiffer
    <2> QED  BY <1>1, <2>1, <2>2 DEF Databases
  <1>11. Follows(db, e)
    <2>1. {x} \in SUBSET Resource /\ Within(db, e, {x})  BY <1>5
    <2> QED  BY <1>6, <1>9, <2>1 DEF Follows
  <1> QED  BY <1>3, <1>10, <1>11

\* The configured installation.
LEMMA GraphInitially ==
    ASSUME GraphInit
    PROVE  GraphInv
  <1> DEFINE Given(x) == CHOOSE s \in Options[x] : TRUE
  <1>1. \A x \in Base : Given(x) \in Options[x] /\ x \in Resource
    <2> TAKE x \in Base
    <2>1. Options[x] # {}
      <3>1. Cardinality(Options[x]) = 1  BY ConfigGraphAssumption
      <3>2. Cardinality({}) = 0  BY FS_EmptySet
      <3> QED  BY <3>1, <3>2
    <2> QED  BY <2>1, ConfigGraphAssumption
  <1> HIDE DEF Given
  <1>2. /\ db.spec = [x \in Resource |-> IF x \in Base THEN Given(x) ELSE Absent]
        /\ db.row = [x \in Resource |-> IF x \in Base /\ Typed(x) THEN Given(x).refs ELSE Absent]
        /\ db.versions = [s \in Strategy |-> <<>>] /\ db.active = [r \in Route |-> Absent] /\ db.revoked = {}
        /\ db = [spec |-> db.spec, row |-> db.row, versions |-> db.versions, active |-> db.active,
                 revoked |-> db.revoked]
        /\ latest = [s \in Strategy |-> 0]
    BY DEF GraphInit, Given
  <1>3. \A x \in Base : /\ Given(x) # Absent /\ Given(x).refs # Absent /\ Given(x).refs \in Seq(Resource)
                        /\ Given(x).refs \in Seq(Resource \cup {Gone})
    <2> TAKE x \in Base
    <2>1. PICK s \in Options[x] : s = Given(x)  BY <1>1
    <2>2. x \in Resource  BY <1>1
    <2>3. s # Absent /\ s.refs # Absent /\ s.refs \in Seq(Resource)  BY <2>2, RefKindsOf
    <2>4. s.refs \in [1..Len(s.refs) -> Resource \cup {Gone}] /\ Len(s.refs) \in Nat  BY <2>3
    <2>5. s.refs \in Seq(Resource \cup {Gone})  BY <2>4
    <2> QED  BY <2>1, <2>3, <2>5
  <1>4. db \in Databases
    <2>1. db.spec \in [Resource -> Specifications \cup {Absent}]
      <3>1. \A x \in Base : Given(x) \in Specifications  BY <1>1 DEF Specifications
      <3> QED  BY <1>2, <3>1
    <2>2. db.row \in [Resource -> Rows]  BY <1>2, <1>3 DEF Rows
    <2>3. db.versions \in [Strategy -> Seq(Seq(Resource))]
      <3>1. <<>> \in Seq(Seq(Resource))  OBVIOUS
      <3> QED  BY <1>2, <3>1
    <2>4. db.active \in [Route -> (Strategy \X Nat) \cup {Absent}] /\ db.revoked \in SUBSET AgentToken
      BY <1>2
    <2> QED  BY <1>2, <2>1, <2>2, <2>3, <2>4 DEF Databases
  <1>5. Specified(db)  BY <1>1, <1>2 DEF Specified
  <1>6. Projected(db)  BY <1>2, <1>3 DEF Projected
  <1>7. TokensFollow(db, {})
    <2> SUFFICES ASSUME NEW t \in AgentToken
                 PROVE  IF db.spec[t] = Absent THEN db.row[t] = Absent
                        ELSE /\ db.row[t] \in Seq(Resource \cup {Gone}) /\ Len(db.row[t]) = Len(db.spec[t].refs)
                             /\ \A i \in 1..Len(db.spec[t].refs) :
                                  \/ db.row[t][i] = db.spec[t].refs[i]
                                  \/ db.row[t][i] = Gone /\ db.spec[t].refs[i] \in {}
      BY DEF TokensFollow
    <2>1. t \in Resource /\ Typed(t)  BY KindsDiffer
    <2>2. CASE t \in Base
      <3>1. db.spec[t] = Given(t) /\ db.row[t] = Given(t).refs  BY <1>2, <2>1, <2>2
      <3> QED  BY <1>3, <2>2, <3>1
    <2>3. CASE t \notin Base  BY <1>2, <2>1, <2>3
    <2> QED  BY <2>2, <2>3
  <1>8. Running(db)
    <2>1. \A r \in Route : db.spec[r] = Absent /\ db.active[r] = Absent
      <3>1. \A r \in Route : r \in Resource /\ r \notin Base  BY KindsDiffer, ConfigGraphAssumption
      <3> QED  BY <1>2, <3>1
    <2> QED  BY <2>1 DEF Running
  <1>9. Published(db)
    <2>1. \A s \in Strategy : db.versions[s] = <<>>  BY <1>2
    <2>2. ASSUME NEW s \in Strategy
          PROVE  /\ db.spec[s] = Absent => db.versions[s] = <<>>
                 /\ db.versions[s] \in Seq({o.refs : o \in Options[s]})
                 /\ \A i, j \in 1..Len(db.versions[s]) : db.versions[s][i] = db.versions[s][j] => i = j
      <3>1. db.versions[s] = <<>>  BY <2>1
      <3> QED  BY <3>1
    <2> QED  BY <2>2 DEF Published
  <1>10. Kept(db, db, {})
    <2>1. \A s \in Strategy : Len(db.versions[s]) \in Nat  BY <1>4 DEF Databases
    <2>2. \A s \in Strategy : Len(db.versions[s]) <= Len(db.versions[s])  BY <2>1
    <2> QED  BY <2>2 DEF Kept
  <1>11. Validate(db.spec, {})
    <2> SUFFICES ASSUME NEW x \in Resource, db.spec[x] # Absent PROVE validateReferences(db.spec, x)
      BY DEF Validate
    <2>1. x \in Base /\ db.spec[x] = Given(x)  BY <1>2
    <2>2. Refs(Given(x)) \subseteq Base  BY <1>1, <2>1, ConfigGraphAssumption
    <2>3. \A y \in Refs(db.spec[x]) : db.spec[y] # Absent
      <3>1. \A y \in Base : db.spec[y] = Given(y)  BY <1>1, <1>2
      <3> QED  BY <1>3, <2>1, <2>2, <3>1
    <2>4. Kind[x] # "Destination"  BY <2>1, ConfigGraphAssumption
    <2> QED  BY <2>3, <2>4 DEF validateReferences
  <1>12. latest \in [Strategy -> Nat] /\ \A s \in Strategy : latest[s] <= Len(db.versions[s])
    <2>1. latest \in [Strategy -> Nat]  BY <1>2
    <2>2. \A s \in Strategy : latest[s] = 0 /\ Len(db.versions[s]) = 0
      <3>1. Len(<<>>) = 0  OBVIOUS
      <3> QED  BY <1>2, <3>1
    <2> QED  BY <2>1, <2>2
  <1> QED  BY <1>4, <1>5, <1>6, <1>7, <1>8, <1>9, <1>10, <1>11, <1>12 DEF GraphInv, Within

\* What follows a database stands for itself: no row still names a deletion.
LEMMA FollowsSettles ==
    ASSUME NEW b, NEW e, Follows(b, e)
    PROVE  Within(e, e, {}) /\ Validate(e.spec, {})
  <1>1. PICK deleted \in SUBSET Resource : Within(b, e, deleted) /\ \A x \in deleted : e.spec[x] = Absent
    BY DEF Follows
  <1>2. Validate(e.spec, {})  BY DEF Follows
  <1>3. TokensFollow(e, {})
    <2> SUFFICES ASSUME NEW t \in AgentToken
                 PROVE  IF e.spec[t] = Absent THEN e.row[t] = Absent
                        ELSE /\ e.row[t] \in Seq(Resource \cup {Gone}) /\ Len(e.row[t]) = Len(e.spec[t].refs)
                             /\ \A i \in 1..Len(e.spec[t].refs) :
                                  \/ e.row[t][i] = e.spec[t].refs[i]
                                  \/ e.row[t][i] = Gone /\ e.spec[t].refs[i] \in {}
      BY DEF TokensFollow
    <2>1. IF e.spec[t] = Absent THEN e.row[t] = Absent
          ELSE /\ e.row[t] \in Seq(Resource \cup {Gone}) /\ Len(e.row[t]) = Len(e.spec[t].refs)
               /\ \A i \in 1..Len(e.spec[t].refs) :
                    \/ e.row[t][i] = e.spec[t].refs[i]
                    \/ e.row[t][i] = Gone /\ e.spec[t].refs[i] \in deleted
      BY <1>1 DEF Within, TokensFollow
    <2>2. ASSUME e.spec[t] # Absent, NEW i \in 1..Len(e.spec[t].refs)
          PROVE e.spec[t].refs[i] \notin deleted
      <3>1. validateReferences(e.spec, t)  BY <1>2, <2>2, KindsDiffer DEF Validate
      <3>2. e.spec[t].refs[i] \in Refs(e.spec[t])  BY <2>2 DEF Refs
      <3>3. e.spec[e.spec[t].refs[i]] # Absent  BY <3>1, <3>2 DEF validateReferences
      <3> QED  BY <1>1, <3>3
    <2> QED  BY <2>1, <2>2
  <1>4. Kept(e, e, {})
    <2>1. \A s \in Strategy : Len(e.versions[s]) \in Nat  BY <1>1 DEF Within, Databases
    <2>2. \A s \in Strategy : Len(e.versions[s]) <= Len(e.versions[s])  BY <2>1
    <2> QED  BY <2>2 DEF Kept
  <1> QED  BY <1>1, <1>2, <1>3, <1>4 DEF Within

\* The history of publications stays within the versions there are.
LEMMA NoteLatestFacts ==
    ASSUME GraphInv, Follows(db, db'), NoteLatest
    PROVE  latest' \in [Strategy -> Nat] /\ \A s \in Strategy : latest'[s] <= Len(db'.versions[s])
  <1>1. PICK deleted \in SUBSET Resource : Within(db, db', deleted) /\ \A x \in deleted : db'.spec[x] = Absent
    BY DEF Follows
  <1>2. ASSUME NEW s \in Strategy PROVE latest'[s] \in Nat /\ latest'[s] <= Len(db'.versions[s])
    <2>1. PICK n \in Nat : n = Len(db'.versions[s])
      <3>1. db'.versions[s] \in Seq(Seq(Resource))  BY <1>1 DEF Within, Databases
      <3>2. Len(db'.versions[s]) \in Nat  BY <3>1
      <3> QED  BY <3>2
    <2>2. PICK l, o \in Nat : l = latest[s] /\ o = Len(db.versions[s]) /\ l <= o
      <3>1. db.versions[s] \in Seq(Seq(Resource))  BY DEF GraphInv, Within, Databases
      <3>2. Len(db.versions[s]) \in Nat  BY <3>1
      <3>3. latest[s] \in Nat /\ latest[s] <= Len(db.versions[s])  BY DEF GraphInv
      <3> QED  BY <3>2, <3>3
    <2>3. latest'[s] = IF db'.versions[s] = <<>> THEN 0
                       ELSE IF db.versions[s] = <<>> THEN Len(db'.versions[s]) ELSE latest[s]
      BY DEF NoteLatest
    <2>4. CASE db'.versions[s] = <<>>
      <3>1. latest'[s] = 0  BY <2>3, <2>4
      <3> QED  BY <2>1, <3>1
    <2>5. CASE db'.versions[s] # <<>> /\ db.versions[s] = <<>>
      <3>1. latest'[s] = n  BY <2>1, <2>3, <2>5
      <3> QED  BY <2>1, <3>1
    <2>6. CASE db'.versions[s] # <<>> /\ db.versions[s] # <<>>
      <3>1. latest'[s] = l  BY <2>2, <2>3, <2>6
      <3>2. s \notin deleted  BY <1>1, <2>6, KindsDiffer DEF Within, Published
      <3>3. Len(db.versions[s]) <= Len(db'.versions[s])  BY <1>1, <3>2 DEF Within, Kept
      <3>4. o <= n  BY <2>1, <2>2, <3>3
      <3> QED  BY <2>1, <2>2, <3>1, <3>4
    <2> QED  BY <2>4, <2>5, <2>6
  <1>3. \A s \in Strategy : latest'[s] \in Nat  BY <1>2
  <1>4. latest' = [s \in Strategy |-> latest'[s]]  BY DEF NoteLatest
  <1>5. latest' \in [Strategy -> Nat]  BY <1>3, <1>4
  <1> QED  BY <1>2, <1>5

LEMMA DocumentFollows ==
    ASSUME GraphInv, NEW doc \in Documents, NEW edited, ApplyDocument(doc, edited)
    PROVE  Follows(db, db') /\ latest' \in [Strategy -> Nat] /\ \A s \in Strategy : latest'[s] <= Len(db'.versions[s])
  <1>1. /\ Validate(Effective(db, doc), Declared(doc))
        /\ db' = ApplyConfigTx(db, doc, Prepare(db, doc, edited)) /\ db' # Rejected
        /\ NoteLatest
    BY DEF ApplyDocument
  <1>2. Follows(db, db')
    <2>1. PICK e : e = db'  OBVIOUS
    <2>2. e = ApplyConfigTx(db, doc, Prepare(db, doc, edited)) /\ e # Rejected  BY <1>1, <2>1
    <2>3. Within(db, db, {})  BY DEF GraphInv
    <2>4. Follows(db, e)  BY <1>1, <2>2, <2>3, DocumentStep
    <2> QED  BY <2>1, <2>4
  <1> QED  BY <1>1, <1>2, NoteLatestFacts

\* Every step leads to a database that follows the one before.
LEMMA GraphStep ==
    ASSUME GraphInv, GraphNext
    PROVE  Follows(db, db') /\ GraphInv'
  <1>1. /\ Follows(db, db')
        /\ latest' \in [Strategy -> Nat] /\ \A s \in Strategy : latest'[s] <= Len(db'.versions[s])
    <2> DEFINE Latest == latest' \in [Strategy -> Nat] /\ \A s \in Strategy : latest'[s] <= Len(db'.versions[s])
    <2>1. ASSUME NEW doc \in Documents, NEW edited \in SUBSET Unchanged(doc), ApplyDocument(doc, edited)
          PROVE  Follows(db, db') /\ Latest
      BY <2>1, DocumentFollows
    <2>2. ASSUME NEW s \in Strategy, PublishStrategy(s) PROVE Follows(db, db') /\ Latest
      BY <2>2, PublishFollows
    <2>3. ASSUME db'.versions = db.versions, UNCHANGED latest PROVE Latest
      BY <2>3 DEF GraphInv
    <2> HIDE DEF Latest
    <2>4. ASSUME NEW t \in AgentToken, RevokeToken(t) PROVE Follows(db, db') /\ Latest
      BY <2>3, <2>4, RevokeFollows DEF RevokeToken
    <2>5. ASSUME NEW x \in Resource, PutSecret(x) PROVE Follows(db, db') /\ Latest
      BY <2>3, <2>5, PutSecretFollows DEF PutSecret
    <2>6. ASSUME NEW x \in Resource, DeleteSecret(x) PROVE Follows(db, db') /\ Latest
      BY <2>3, <2>6, DeleteSecretFollows DEF DeleteSecret
    <2>7. Follows(db, db') /\ Latest  BY <2>1, <2>2, <2>4, <2>5, <2>6 DEF GraphNext
    <2> QED  BY <2>7 DEF Latest
  <1>2. Within(db', db', {}) /\ Validate(db'.spec, {})
    <2>1. PICK b, e : b = db /\ e = db'  OBVIOUS
    <2>2. Follows(b, e)  BY <1>1, <2>1
    <2>3. Within(e, e, {}) /\ Validate(e.spec, {})  BY <2>2, FollowsSettles
    <2> QED  BY <2>1, <2>3
  <1> QED  BY <1>1, <1>2 DEF GraphInv

LEMMA GraphStutter ==
    ASSUME GraphInv, UNCHANGED graphVars
    PROVE  GraphInv'
  BY DEF GraphInv, graphVars

\* The committed graph is valid and projected, and every document, publication,
\* revocation and secret leads from one such graph to another.
THEOREM GraphInvariance == GraphSpec => []GraphInv
  <1>1. GraphInit => GraphInv  BY GraphInitially
  <1>2. GraphInv /\ [GraphNext]_graphVars => GraphInv'  BY GraphStep, GraphStutter
  <1> QED  BY <1>1, <1>2, PTL DEF GraphSpec

LEMMA GraphInvHasType ==
    ASSUME GraphInv
    PROVE  GraphTypeOK
  <1>1. db \in Databases /\ Specified(db) /\ Published(db)  BY DEF GraphInv, Within
  <1>2. \A x \in Resource : /\ db.spec[x] \in Options[x] \cup {Absent}
                            /\ db.row[x] \in Seq(Resource \cup {Gone}) \cup {Absent}
    BY <1>1 DEF Databases, Specified, Rows
  <1>3. ASSUME NEW s \in Strategy PROVE latest[s] \in 0..Len(db.versions[s])
    <2>1. db.versions[s] \in Seq(Seq(Resource))  BY <1>1 DEF Databases
    <2>2. PICK n \in Nat : n = Len(db.versions[s])
      <3>1. Len(db.versions[s]) \in Nat  BY <2>1
      <3> QED  BY <3>1
    <2>3. latest[s] \in Nat /\ latest[s] <= n  BY <2>2 DEF GraphInv
    <2> QED  BY <2>2, <2>3
  <1>4. db.active \in [Route -> (Strategy \X Nat) \cup {Absent}] /\ db.revoked \in SUBSET AgentToken
    BY <1>1 DEF Databases
  <1> QED  BY <1>1, <1>2, <1>3, <1>4 DEF GraphTypeOK, Published

\* Type correctness of the graph, with UNIQUE(strategy_id, checksum): publishing
\* reuses a version rather than storing a definition twice.
THEOREM GraphTypeCorrect == GraphSpec => []GraphTypeOK
  BY GraphInvariance, GraphInvHasType, PTL

\* The rows the router reads say what the envelopes say.
LEMMA RowsAgree ==
    ASSUME GraphInv, NEW x \in Live(db), Typed(x)
    PROVE  db.row[x] = db.spec[x].refs
  <1>1. x \in Resource /\ db.spec[x] # Absent  BY DEF Live
  <1>2. CASE Kind[x] # "AgentToken"  BY <1>1, <1>2 DEF GraphInv, Within, Projected
  <1>3. CASE Kind[x] = "AgentToken"
    <2>1. x \in AgentToken  BY <1>1, <1>3 DEF AgentToken, OfKind
    <2>2. PICK w, refs : w = db.row[x] /\ refs = db.spec[x].refs  OBVIOUS
    <2>3. /\ w \in Seq(Resource \cup {Gone}) /\ Len(w) = Len(refs)
          /\ \A i \in 1..Len(refs) : w[i] = refs[i]
      BY <1>1, <2>1, <2>2 DEF GraphInv, Within, TokensFollow
    <2>4. refs \in Seq(Resource)  BY <1>1, <2>2, RefKindsOf DEF GraphInv, Within, Specified
    <2>5. w = [i \in 1..Len(refs) |-> w[i]] /\ refs = [i \in 1..Len(refs) |-> refs[i]]  BY <2>3, <2>4
    <2>6. w = refs  BY <2>3, <2>5
    <2> QED  BY <2>2, <2>6
  <1> QED  BY <1>2, <1>3

\* After any documents, the typed rows say what the envelopes say, those of agent
\* tokens included: their routes are checked although no foreign key does.
THEOREM ProjectionStays == GraphSpec => []ProjectionAgrees
  <1>1. GraphInv => ProjectionAgrees  BY RowsAgree DEF ProjectionAgrees
  <1> QED  BY <1>1, GraphInvariance, PTL

\* However accounts, connections, models and destinations are edited, a
\* destination joins a credential and a model of one provider: Validate compares
\* the destinations a document does not declare too.
THEOREM ProvidersAgree == GraphSpec => []ProvidersMatch
  <1>1. ASSUME GraphInv, NEW x \in Live(db), Kind[x] = "Destination"
        PROVE  db.row[db.row[db.row[x][1]][1]][1] = db.row[db.row[db.row[x][2]][1]][1]
    <2>1. PICK model, credential : model = db.spec[x].refs[1] /\ credential = db.spec[x].refs[2]  OBVIOUS
    <2>2. PICK connection, account :
             connection = db.spec[model].refs[1] /\ account = db.spec[credential].refs[1]
      OBVIOUS
    <2>3. x \in Resource /\ db.spec[x] # Absent  BY <1>1 DEF Live
    <2>4. LeadsToOneProvider(db, x)
      <3>1. db \in Databases /\ Specified(db) /\ Validate(db.spec, {})  BY <1>1 DEF GraphInv, Within
      <3> QED  BY <1>1, <2>3, <3>1, DestinationLeadsTo
    <2>5. /\ model \in Live(db) /\ Kind[model] = "Model"
          /\ credential \in Live(db) /\ Kind[credential] = "Credential"
          /\ connection \in Live(db) /\ Kind[connection] = "ProviderConnection"
          /\ account \in Live(db) /\ Kind[account] = "ProviderAccount"
          /\ db.spec[connection].refs = db.spec[account].refs
      BY <2>1, <2>2, <2>4 DEF LeadsToOneProvider, Live
    <2>6. Typed(x) /\ Typed(model) /\ Typed(credential) /\ Typed(connection) /\ Typed(account)
      BY <1>1, <2>5 DEF Typed
    <2>7. db.row[x][1] = model /\ db.row[x][2] = credential  BY <1>1, <2>1, <2>6, RowsAgree
    <2>8. db.row[model][1] = connection /\ db.row[credential][1] = account
      BY <1>1, <2>2, <2>5, <2>6, RowsAgree
    <2>9. db.row[connection] = db.row[account]  BY <1>1, <2>5, <2>6, RowsAgree
    <2> QED  BY <2>7, <2>8, <2>9
  <1>2. GraphInv => ProvidersMatch  BY <1>1 DEF ProvidersMatch
  <1> QED  BY <1>2, GraphInvariance, PTL

\* Every route runs a version that exists and is of its own strategy, through
\* publications, deletions and creations in one document or several.
THEOREM VersionsAreOwn == GraphSpec => []ActiveVersionIsOfStrategy
  <1>1. ASSUME GraphInv, NEW r \in Route \cap Live(db)
        PROVE  db.active[r] \in {db.row[r][1]} \X (1..Len(db.versions[db.row[r][1]]))
    <2>1. r \in Route /\ r \in Live(db) /\ db.spec[r] # Absent  BY <1>1 DEF Live
    <2>2. db.row[r] = db.spec[r].refs  BY <1>1, <2>1, RowsAgree, KindsDiffer
    <2> QED  BY <1>1, <2>1, <2>2 DEF GraphInv, Within, Running
  <1>2. GraphInv => ActiveVersionIsOfStrategy  BY <1>1 DEF ActiveVersionIsOfStrategy
  <1> QED  BY <1>2, GraphInvariance, PTL

\* No step undoes the revocation of a token that is still there after it.
THEOREM RevocationStays == GraphSpec => RevocationSurvivesEdits
  <1>1. ASSUME GraphInv, GraphNext, NEW t \in db.revoked, db'.spec[t] # Absent PROVE t \in db'.revoked
    <2>1. Follows(db, db')  BY <1>1, GraphStep
    <2>2. PICK deleted \in SUBSET Resource : Within(db, db', deleted) /\ \A x \in deleted : db'.spec[x] = Absent
      BY <2>1 DEF Follows
    <2> QED  BY <1>1, <2>2 DEF Within, Kept
  <1>2. GraphInv /\ [GraphNext]_graphVars
          => [\A t \in db.revoked : db'.spec[t] # Absent => t \in db'.revoked]_graphVars
    BY <1>1
  <1> QED  BY <1>2, GraphInvariance, PTL DEF GraphSpec, RevocationSurvivesEdits
=============================================================================
