---------------------------- MODULE RequestParts ----------------------------
(***************************************************************************)
(* The parts of the program that ask a server something in one thread: an  *)
(* action called with retries, the airport_action function, list_flights   *)
(* and the progress of a scan.  They share no state: a behaviour is one of *)
(* the part it starts with, and the variables that only other parts have   *)
(* keep the value Unused.  Parts use the same name for variables that play *)
(* the same role.                                                          *)
(***************************************************************************)
EXTENDS AirportRpc

CONSTANTS
  \* of Action
  MaxResults, Kinds,
  \* of Listing
  Texts, Flights, MaxFlights, VectorSize,
  \* of Progress
  NumEndpoints, Full,
  Unused  \* the value of variables that a part does not have

VARIABLES
  part,
  \* of Action and Listing
  place, stopped, server,
  \* of Action
  kind, monitor, finished, joining, produced, returned, outcome,
  \* of Listing
  cursor, opened, row, base, chunk, results,
  \* of Progress
  progress_array, slot, streams, reported, scan

askingVars   == <<place, stopped, server>>
actionVars   == <<kind, monitor, finished, joining, produced, returned, outcome>>
listingVars  == <<cursor, opened, row, base, chunk, results>>
progressVars == <<progress_array, slot, streams, reported, scan>>
allVars      == <<part, vars, askingVars, actionVars, listingVars, progressVars>>

Action == INSTANCE AirportAction WITH pc <- place, interrupted <- stopped

ASSUME ActionAssumption == Action!MaxResultsAssumption /\ Action!KindsAssumption

Listing == INSTANCE AirportListFlights WITH pc <- place, interrupted <- stopped

ASSUME ListingAssumption ==
  Listing!VectorSizeAssumption /\ Listing!MaxFlightsAssumption /\ Listing!FlightsAssumption

Progress == INSTANCE AirportProgress WITH stream <- streams

ASSUME ScanProgressAssumption == Progress!ProgressAssumption

-----------------------------------------------------------------------------

\* What AirportRpc has in behaviours of the other parts: a call that was interrupted before
\* it began.
RpcAtRest ==
  /\ context = TRUE /\ want_result = TRUE /\ interrupted = TRUE
  /\ pc = "interrupted" /\ loop = "DoAction" /\ attempt = 0
  /\ requests = 0 /\ committed = 0 /\ executed = {} /\ stream = 0 /\ result = "null"

askingIdle ==
  /\ place = Unused /\ stopped = Unused /\ server = Unused
actionIdle ==
  /\ kind = Unused /\ monitor = Unused /\ finished = Unused /\ joining = Unused
  /\ produced = Unused /\ returned = Unused /\ outcome = Unused
listingIdle ==
  /\ cursor = Unused /\ opened = Unused /\ row = Unused
  /\ base = Unused /\ chunk = Unused /\ results = Unused
progressIdle ==
  /\ progress_array = Unused /\ slot = Unused /\ streams = Unused /\ reported = Unused
  /\ scan = Unused

\* An action is followed twice: in "action" the server lives and the deadline is far, in
\* "slow action" the deadline expires and the server need not live.
PartsInit ==
  \/ /\ part = "call" /\ Init
     /\ askingIdle /\ actionIdle /\ listingIdle /\ progressIdle
  \/ /\ part \in {"action", "slow action"} /\ Action!Init
     /\ RpcAtRest /\ listingIdle /\ progressIdle
  \/ /\ part = "listing" /\ Listing!Init
     /\ RpcAtRest /\ actionIdle /\ progressIdle
  \/ /\ part = "progress" /\ Progress!Init
     /\ RpcAtRest /\ askingIdle /\ actionIdle /\ listingIdle

PartsNext ==
  /\ UNCHANGED part
  /\ \/ /\ part = "call" /\ Next
        /\ UNCHANGED <<askingVars, actionVars, listingVars, progressVars>>
     \/ /\ part \in {"action", "slow action"} /\ Action!Next
        /\ UNCHANGED <<vars, listingVars, progressVars>>
     \/ /\ part = "listing" /\ Listing!Next
        /\ UNCHANGED <<vars, actionVars, progressVars>>
     \/ /\ part = "progress" /\ Progress!Next
        /\ UNCHANGED <<vars, askingVars, actionVars, listingVars>>

\* The fairness of each part, as its module states it.
ActionStep(A) == part \in {"action", "slow action"} /\ A
actionOwn     == <<askingVars, actionVars>>
listingOwn    == <<askingVars, listingVars>>

PartsFairness ==
  /\ Fairness
  /\ WF_actionOwn(ActionStep(Action!StatementStep))
  /\ WF_actionOwn(ActionStep(Action!Wake)) /\ WF_actionOwn(ActionStep(Action!Ask))
  /\ WF_actionOwn(ActionStep(Action!CancelAnswered \/ Action!CancelUnanswered))
  /\ WF_actionOwn(part = "action" /\ Action!Register)
  /\ SF_actionOwn(part = "action" /\ Action!CancelAnswered)
  /\ WF_actionOwn(part = "slow action" /\ Action!DeadlineExpires)
  /\ WF_listingOwn(part = "listing" /\ Listing!Step)

PartsSpec == PartsInit /\ [][PartsNext]_allVars /\ PartsFairness
-----------------------------------------------------------------------------

\* A statement that says nothing of an error has returned every result of the action,
\* and one that was not interrupted is not cancelled at the server.
CompleteIsComplete ==
  part \in {"action", "slow action"} => Action!CompleteIsComplete /\ Action!ActionInv

\* A row's descriptor and its endpoints' tickets, and the locations of a flight's only
\* endpoint, read back through the offsets of the shared child vectors, are those of the
\* flight the row stands for.  Flights come out in the server's order, none twice; only
\* those in hand when a vector was full do not, so that a list that is shorter than a
\* vector is handed out whole (list_flights).
ListingReadsBack ==
  part = "listing" =>
    /\ Listing!ListingInv /\ Listing!RowsReadBack
    /\ Listing!RowsInOrder /\ Listing!ShortListingComplete

\* Whatever the servers report, and in whatever order, every slot, and with it the mean
\* the bar shows, stays between nothing and everything, and the bar never runs ahead of
\* what the streams have reported.
BarNotAhead ==
  part = "progress" => Progress!ProgressInv /\ Progress!ProgressInRange /\ Progress!BarNotAhead

\* Every part ends.  A call with a context does, whatever the server does or does not do.
\* An interrupted "execute" does, even if the server produces nothing and the first
\* requests to cancel it come too early or are lost; any other statement does by the
\* deadline, and the monitor, which the server may never tell of the cancellation, does
\* not keep it from ending.  A listing ends if the server answers.
PartsEnd ==
  /\ part = "call" => CallEnds
  /\ (part = "action" /\ stopped /\ kind = "execute") ~> place = "over"
  /\ part = "slow action" => <>(place = "over")
  /\ part = "listing" => <>(place \in {"done", "failed"})
=============================================================================
