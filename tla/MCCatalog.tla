----------------------------- MODULE MCCatalog -----------------------------
(* A TLC instance of Catalog. *)
EXTENDS Catalog, TLC

CONSTANTS n1, n2

Named == [Strategy |-> {n1, n2}, AgentToken |-> {n1}, Secret |-> {n1, n2}]

Contents == [Strategy |-> {"a", "b"}, AgentToken |-> {"enabled", "disabled", "expired"}, Secret |-> {"a", "b"}]
Symmetric == Permutations(Caller)
=============================================================================
