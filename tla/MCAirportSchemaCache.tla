------------------------ MODULE MCAirportSchemaCache ------------------------
(***************************************************************************)
(* A small instance of AirportSchemaCache.                                 *)
(***************************************************************************)
EXTENDS AirportSchemaCache, TLC

CONSTANTS p1, p2, s1, s2, n1, n2

MCLoaders == {p1, p2}
MCShas    == {s1, s2}
MCTemps   == {n1, n2}

MCSymmetry == Permutations(MCLoaders) \cup Permutations(MCShas) \cup Permutations(MCTemps)

=============================================================================
