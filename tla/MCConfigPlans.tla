--------------------------- MODULE MCConfigPlans ---------------------------
(* TLC instances of ConfigPlans *)
EXTENDS ConfigPlans, TLC

CONSTANTS open, keyed, sec

\* One specification refers to a secret, the other to none.
RequiresNone   == open :> {}
RequiresSecret == keyed :> {sec}

Interchangeable == Permutations(Nonce) \cup Permutations(Key) \cup Permutations(Resource) \cup Permutations(Setting)
=============================================================================
