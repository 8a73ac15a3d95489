---------------------------- MODULE ClientAnswer ----------------------------
(***************************************************************************)
(* What a client of the data API may observe of one request: a single      *)
(* answer that comes from a single destination.  Once a stream is open it  *)
(* can only end, whole or cut; an error response is possible only before.  *)
(***************************************************************************)
CONSTANTS Destination, None

VARIABLES source, answer

Init == source = None /\ answer = "none"

\* Successful headers and the first event go out.
Open(d) == answer = "none" /\ answer' = "streaming" /\ source' = d

Close(end) == answer = "streaming" /\ answer' = end /\ UNCHANGED source

\* A plain answer, which a connection that breaks may cut as well.
Reply(d, end) == answer = "none" /\ answer' = end /\ source' = d

\* An error response, or none at all to a client that left.
Refuse(end) == answer = "none" /\ answer' = end /\ UNCHANGED source

Next == \/ \E d \in Destination : Open(d) \/ Reply(d, "whole") \/ Reply(d, "cut")
        \/ Close("whole") \/ Close("cut")
        \/ Refuse("failed") \/ Refuse("silent")

Spec == Init /\ [][Next]_<<source, answer>>
=============================================================================
