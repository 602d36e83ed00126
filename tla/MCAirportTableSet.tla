------------------------- MODULE MCAirportTableSet -------------------------
(***************************************************************************)
(* Small instances of AirportTableSet.                                     *)
(***************************************************************************)
EXTENDS AirportTableSet, TLC

CONSTANTS t1, t2, a, b, o1, o2, o3

MCThreads == {t1, t2}
MCNames   == {a, b}
MCObjects == {o1, o2, o3}

\* Connections, tables and addresses are interchangeable.
MCSymmetry == Permutations(MCThreads) \cup Permutations(MCNames) \cup Permutations(MCObjects)

=============================================================================
