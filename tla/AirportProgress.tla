-------------------------- MODULE AirportProgress --------------------------
(***************************************************************************)
(* The progress of a scan (AirportTakeFlightBindData in                    *)
(* airport_flight_stream.hpp, ProcessAppMetadata in                        *)
(* airport_flight_stream.cpp) and the registry external programs ask.      *)
(*                                                                         *)
(* The streams of a scan carry progress reports.  A valid report is stored *)
(* in the slot the stream was opened with, an invalid one fails the        *)
(* stream.  DuckDB's progress bar shows the mean of the slots.  A progress *)
(* of 1.0 is written as Full, and the mean is kept as its numerator.       *)
(***************************************************************************)
EXTENDS Integers

CONSTANTS
  NumEndpoints,  \* endpoints of the flight
  Full           \* steps a report distinguishes between 0.0 and 1.0

ProgressAssumption == NumEndpoints \in Nat /\ Full \in Nat \ {0}

Endpoints == 0 .. NumEndpoints - 1

\* A server may report anything; one step outside of the range stands for all.
Reports == -1 .. Full + 1

VARIABLES
  progress_array,  \* the slots
  slot,            \* the slot each endpoint's stream writes to
  stream,          \* the state of each endpoint's stream
  reported,        \* the last valid report of each stream
  scan             \* the state of the scan: bound, running, over

vars == <<progress_array, slot, stream, reported, scan>>

Init ==
  /\ progress_array = [e \in Endpoints |-> 0]
  /\ slot = [e \in Endpoints |-> -1]
  /\ stream = [e \in Endpoints |-> "unread"]
  /\ reported = [e \in Endpoints |-> 0]
  /\ scan = "bound"

\* AirportTakeFlightInitGlobal: set_endpoint_count.
InitGlobal ==
  /\ scan = "bound"
  /\ scan' = "running"
  /\ progress_array' = [e \in Endpoints |-> 0]
  /\ UNCHANGED <<slot, stream, reported>>

\* ProcessEndpoint hands the stream of every endpoint the same counter.
CounterIndex(e) == 0

\* A stream is opened, in the order of the endpoints.
OpenStream(e) ==
  /\ scan = "running"
  /\ stream[e] = "unread"
  /\ \A f \in 0 .. e - 1 : stream[f] # "unread"
  /\ stream' = [stream EXCEPT ![e] = "open"]
  /\ slot' = [slot EXCEPT ![e] = CounterIndex(e)]
  /\ UNCHANGED <<progress_array, reported, scan>>

Smaller(a, b) == IF a < b THEN a ELSE b

\* Faulty variants of an operator stand before it and say what is wrong in them;
\* no specification uses one.

ValidReport(v) == v >= 0 /\ v <= Full

\* Faulty: a report is added to the slot instead of replacing its value.
ReportAdded(e, v) ==
  /\ stream[e] = "open"
  /\ ValidReport(v)
  /\ progress_array' = [progress_array EXCEPT ![slot[e]] = Smaller(@ + v, Full)]
  /\ reported' = [reported EXCEPT ![e] = v]
  /\ UNCHANGED <<slot, stream, scan>>

\* ProcessAppMetadata: a report arrives with a batch.
Report(e, v) ==
  /\ stream[e] = "open"
  /\ IF ValidReport(v)
     THEN /\ progress_array' = [progress_array EXCEPT ![slot[e]] = v]
          /\ reported' = [reported EXCEPT ![e] = v]
          /\ UNCHANGED stream
     ELSE /\ stream' = [stream EXCEPT ![e] = "failed"]
          /\ UNCHANGED <<progress_array, reported>>
  /\ UNCHANGED <<slot, scan>>

EndOfStream(e) ==
  /\ stream[e] = "open"
  /\ stream' = [stream EXCEPT ![e] = "ended"]
  /\ UNCHANGED <<progress_array, slot, reported, scan>>

\* The scan is over when its streams are, or as soon as one of them failed.
ScanOver ==
  /\ scan = "running"
  /\ \/ \A e \in Endpoints : stream[e] = "ended"
     \/ \E e \in Endpoints : stream[e] = "failed"
  /\ scan' = "over"
  /\ UNCHANGED <<progress_array, slot, stream, reported>>

Idle == scan = "over" /\ UNCHANGED vars

Next ==
  \/ InitGlobal \/ ScanOver \/ Idle
  \/ \E e \in Endpoints :
       OpenStream(e) \/ EndOfStream(e) \/ \E v \in Reports : Report(e, v)

Spec == Init /\ [][Next]_vars

-----------------------------------------------------------------------------

\* total_progress adds up the slots, from the first to the last.
Sum(slots) ==
  LET total[i \in 0 .. NumEndpoints] == IF i = 0 THEN 0 ELSE total[i - 1] + slots[i - 1]
  IN  total[NumEndpoints]

\* total_progress as its numerator: the mean is TotalProgress divided by
\* NumEndpoints * Full.
TotalProgress == Sum(progress_array)

TypeOK ==
  /\ progress_array \in [Endpoints -> Nat]
  /\ slot \in [Endpoints -> Endpoints \cup {-1}]
  /\ stream \in [Endpoints -> {"unread", "open", "ended", "failed"}]
  /\ reported \in [Endpoints -> 0 .. Full]
  /\ scan \in {"bound", "running", "over"}

\* Whatever the servers report, every slot, and with it the mean the bar shows, stays
\* between nothing and everything.
ProgressInRange == \A e \in Endpoints : progress_array[e] \in 0 .. Full

\* The bar never runs ahead of what the streams have reported, in any order of
\* their reports.
BarNotAhead == TotalProgress <= Sum(reported)

\* All streams share the first slot, which has what the last of them reported.
SlotShared ==
  /\ \A e \in Endpoints : stream[e] = "open" => slot[e] = 0
  /\ \A e \in Endpoints \ {0} : progress_array[e] = 0
  /\ Endpoints # {} => \E e \in Endpoints : progress_array[0] = reported[e]
  /\ scan = "bound" => \A e \in Endpoints : stream[e] = "unread" /\ reported[e] = 0

\* The inductive invariant.
ProgressInv == TypeOK /\ SlotShared

=============================================================================
