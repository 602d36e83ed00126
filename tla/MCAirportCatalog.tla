-------------------------- MODULE MCAirportCatalog -------------------------
(***************************************************************************)
(* Small instances of the parts of a catalog: two connections, two         *)
(* schemas, two changes of the server's schemas, and two versions of a     *)
(* schema's contents.                                                      *)
(***************************************************************************)
EXTENDS CatalogParts, TLC

CONSTANTS t1, t2, main, other

MCThreads == {t1, t2}

\* Connections are interchangeable.
MCSymmetry == Permutations(MCThreads)

MCNames == {main, other}
MCKinds == {"lookup", "scan", "clear", "create", "replace", "drop"}

\* A bound: once the map of schemas is torn the properties of it say nothing more, and of
\* the steps that are left only those that lose entries are followed.
MCTornLoses == part = "schemas" => (torn => Schemas!LoseEntry)

-----------------------------------------------------------------------------
(* Two versions of a schema with a table, functions that share a name, or  *)
(* have names that differ in case, and objects that do not belong there.   *)

Object(kind, name, overload, here) ==
  [kind |-> kind, name |-> name, overload |-> overload, here |-> here]

FirstContents ==
  {Object("table", "t", 1, TRUE), Object("table_function", "f", 1, TRUE),
   Object("table_function", "f", 2, TRUE), Object("scalar_function", "g", 1, TRUE)}
SecondContents ==
  {Object("table", "f", 1, TRUE), Object("table_function", "g", 1, TRUE),
   Object("scalar_function", "f", 1, TRUE), Object("scalar_function", "f", 2, TRUE)}
WithCases   == FirstContents \cup {Object("table_function", "F", 3, TRUE), Object("table", "T", 2, TRUE)}
WithForeign == FirstContents \cup {Object("scalar_function", "h", 1, FALSE)}
WithUnknown == SecondContents \cup {Object("view", "v", 1, TRUE)}

MCContents  == {FirstContents, SecondContents, WithCases, WithForeign, WithUnknown}
MCHistories == {h \in [1 .. 2 -> MCContents] : h[1] # h[2]}
MCLower     == [n \in {"t", "f", "g", "h", "v", "T", "F"} |->
                  CASE n = "T" -> "t" [] n = "F" -> "f" [] OTHER -> n]

=============================================================================
