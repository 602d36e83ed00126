--------------------------- MODULE MCAirportScan ---------------------------
(***************************************************************************)
(* Small instances of AirportScan, with vectors of two rows.               *)
(***************************************************************************)
EXTENDS AirportScan, TLC

CONSTANTS t1, t2, t3

MCThreads2 == {t1, t2}
MCThreads3 == {t1, t2, t3}

\* The threads are interchangeable; used by the safety run only.
ThreadSymmetry == Permutations(MCThreads3)

FromZero(s) == [e \in 0 .. Len(s) - 1 |-> s[e + 1]]

\* A batch larger than a vector and an empty batch on a Flight endpoint, an IPC
\* stream without batches, a local function of two vectors, an IPC file whose
\* only batch is empty, and a second Flight endpoint.
MCKind    == FromZero(<<"flight", "ipc_stream", "local", "ipc_file", "flight">>)
MCBatches == FromZero(<< <<3, 0, 1>>, <<>>, <<2, 1>>, <<0>>, <<2>> >>)

\* Two Flight endpoints, so that a monitor is replaced, and a local one.
MCKindLive    == FromZero(<<"flight", "flight", "local">>)
MCBatchesLive == FromZero(<< <<0, 1>>, <<3>>, <<1>> >>)

=============================================================================
