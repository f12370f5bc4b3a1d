------------------------ MODULE MCPostgresWorkSource ------------------------
(* Small instances of PostgresWorkSource. *)
EXTENDS PostgresWorkSource, TLC

CONSTANTS c1, c2, w1, w2, r1

Symmetry == Permutations({c1, c2}) \cup Permutations({w1, w2})

=============================================================================
