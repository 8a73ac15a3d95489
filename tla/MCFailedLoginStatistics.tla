---------------------- MODULE MCFailedLoginStatistics ----------------------
(* Two handlers and three failures over two minutes: a batch of the old    *)
(* minute can be under way while the next one is counted.                  *)
EXTENDS FailedLoginStatistics, TLC

Symmetric == Permutations(Handler)
=============================================================================
