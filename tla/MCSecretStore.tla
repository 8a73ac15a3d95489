--------------------------- MODULE MCSecretStore ---------------------------
(* TLC instance of SecretStore. *)
EXTENDS SecretStore, TLC

CONSTANTS k1, k2, k3, k4, k5, s1, s2, p1

FiveKeys   == {k1, k2, k3, k4, k5}
TwoSecrets == {s1, s2}
OneValue   == {p1}
=============================================================================
