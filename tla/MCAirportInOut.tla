--------------------------- MODULE MCAirportInOut ---------------------------
(***************************************************************************)
(* Small instances of AirportInOut, with vectors of two rows: two threads  *)
(* that share the exchange, or one that has it alone, as when the input    *)
(* has one pipeline.                                                       *)
(***************************************************************************)
EXTENDS AirportInOut

CONSTANTS t1, t2

MCThreads == {t1, t2}

\* An answer of a full vector that continues, an empty batch, and a last batch of
\* one vector and a half.
LongReply  == <<2, 0, 3>>

\* A last batch that fills whole vectors.
FullReply  == <<1, 4>>

LongFinal  == <<4, 1>>
ShortFinal == <<1>>
=============================================================================
