------------------------ MODULE MCAirportExchanges -------------------------
(***************************************************************************)
(* Small instances of the exchanges: a statement of five chunks, and a     *)
(* scalar function that two threads evaluate, with a vector each of up to  *)
(* two rows and two parameters, of which the second takes any type.        *)
(***************************************************************************)
EXTENDS ExchangeParts

CONSTANTS t1, t2, c1, c2, c3, c4, c5

MCThreads == {t1, t2}
MCChunks  == {c1, c2, c3, c4, c5}

MCParameters    == <<"int", "any">>
MCArgumentTypes == {"int", "text"}
MCAnyType       == "any"

=============================================================================
