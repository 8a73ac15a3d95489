-------------------------- MODULE MCRouterEngine --------------------------
(* TLC instance of RouterEngine: all constants are given in the cfg files. *)
EXTENDS RouterEngine
=============================================================================
