----------------------------- MODULE MCArchive -----------------------------
(* A TLC instance of Archive: one whole archive of another maker, and each way *)
(* to miss that.                                                              *)
EXTENDS Archive, TLC

CONSTANTS i1, i2, m1, m2, r1, r2

MCSymmetry == Permutations({i1, i2})

MCContents == {{r1, r2}}

Of(maker, rows) == [k \in DOMAIN rows |-> [of |-> maker, row |-> rows[k]]]

Good ==
    LET db == [of |-> m1, rows |-> {r1, r2}, schema |-> "known"]
        secrets == Of(m1, <<r1, r2>>)
    IN  [entries |-> entryOrder, manifest |-> "valid", database |-> db, secrets |-> secrets,
         sums |-> [database |-> db, secrets |-> secrets], end |-> TRUE, trailing |-> FALSE]

\* With checksums that agree.
Holding(secrets) == [Good EXCEPT !.secrets = secrets, !.sums.secrets = secrets]
Newer == [Good.database EXCEPT !.schema = "newer"]

MCForeign ==
    {Good, Holding(Of(m1, <<r1>>)), Holding(Of(m1, <<r1, r1>>)),
     [Good EXCEPT !.secrets = Of(m2, <<r1, r2>>)],
     [Good EXCEPT !.entries = <<"manifest", "secrets", "database", "checksums">>],
     [Good EXCEPT !.entries = SubSeq(entryOrder, 1, 3)],
     [Good EXCEPT !.entries = Append(@, "secrets")],
     [Good EXCEPT !.manifest = "invalid"], [Good EXCEPT !.manifest = "sizes"],
     [Good EXCEPT !.database = Newer, !.sums.database = Newer],
     [Good EXCEPT !.database.rows = {r1}, !.sums.database.rows = {r1}],
     [Good EXCEPT !.end = FALSE], [Good EXCEPT !.trailing = TRUE]}

MCDamage == {Good, [Good EXCEPT !.end = FALSE]}
=============================================================================
