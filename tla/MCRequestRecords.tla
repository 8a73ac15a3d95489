-------------------------- MODULE MCRequestRecords --------------------------
(* Routes that share a destination, and the forms of Retry-After.            *)
EXTENDS RequestRecords, TLC

CONSTANTS x1, x2, d1, d2

OneTarget   == x1 :> <<d1>>
TwoTargets  == x1 :> <<d1, d2>>
Overlapping == x1 :> <<d1, d2>> @@ x2 :> <<d2>>
AllHeaders  == {[kind |-> "seconds", value |-> 1], [kind |-> "date", value |-> 1], [kind |-> "none", value |-> 0]}
\* A date is also one in the past.
TwoHeaders  == {[kind |-> "seconds", value |-> 1], [kind |-> "date", value |-> 1]}
Symmetric   == Permutations(Request)

\* Two requests are followed together only while routes and token are left alone,
\* and one within a second, while at most MaxDisturbed of routes, destinations and
\* token are not as they were.
MaxDisturbed == 1

Disturbed == {x \in RouteId : route[x] # "on"} \cup {d \in DestinationId : dest[d] # "on"}
             \cup (IF token = "valid" THEN {} ELSE {Nil})

OneOrQuiet ==
    \/ Cardinality({r \in Request : req[r] # Idle}) <= 1 /\ Cardinality(Disturbed) <= MaxDisturbed /\ now <= 1
    \/ alias = x2 /\ allowed = {x2} /\ Disturbed \subseteq {d2}
=============================================================================
