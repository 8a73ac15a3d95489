--------------------------- MODULE MCAdminSession ---------------------------
(***************************************************************************)
(* Instances of AdminSession.  Times are counted from one before the       *)
(* administrator's creation, so that the clock can step back behind it.    *)
(***************************************************************************)
EXTENDS AdminSession, TLC

CONSTANTS tab1, tab2, cmd1, cmd2, s1, s2

MCPolicy == {[idle |-> 1, absolute |-> 2], [idle |-> 2, absolute |-> 2]}
OnePolicy == {[idle |-> 2, absolute |-> 3]}

Symmetric == Permutations(Client \ Cli) \cup Permutations(Cli)

=============================================================================
