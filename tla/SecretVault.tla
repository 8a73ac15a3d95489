---------------------------- MODULE SecretVault ----------------------------
(***************************************************************************)
(* What the secret store promises its callers, with no keys, files or      *)
(* crashes in it: a map from secret names to values.  A mutation that is   *)
(* acknowledged took effect; one that ended in an error after its commit   *)
(* was attempted may or may not have taken effect, and leaves the caller   *)
(* unsure; nothing else changes the map.  Rotation, key collection,        *)
(* restarts and power loss are invisible at this level.                    *)
(***************************************************************************)
CONSTANTS Secret, Value,
          Absent,       \* no secret is stored under the name
          Unsure        \* the caller cannot know what is stored

VARIABLES vault,        \* what a reader would obtain: [Secret -> Value \cup {Absent}]
          promised      \* what callers were last told:  ... \cup {Unsure}

vars == <<vault, promised>>

Init ==
    /\ vault    = [s \in Secret |-> Absent]
    /\ promised = [s \in Secret |-> Absent]

(***************************************************************************)
(* The caller sets s to v (v = Absent is a deletion) and is told so.       *)
(***************************************************************************)
Acknowledge(s, v) ==
    /\ vault'    = [vault EXCEPT ![s] = v]
    /\ promised' = [promised EXCEPT ![s] = v]

(***************************************************************************)
(* The caller's mutation ended in an error: it happened or it did not.     *)
(***************************************************************************)
Unsettle(s, v) ==
    /\ vault'    \in {vault, [vault EXCEPT ![s] = v]}
    /\ promised' = [promised EXCEPT ![s] = Unsure]

Next ==
    \E s \in Secret, v \in Value \cup {Absent} : Acknowledge(s, v) \/ Unsettle(s, v)

Spec == Init /\ [][Next]_vars
=============================================================================
