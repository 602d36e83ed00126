--------------------------- MODULE AirportAction ----------------------------
(***************************************************************************)
(* The function airport_action (airport_action.cpp).                       *)
(*                                                                         *)
(* The function sends one action and returns its results one by one.  For  *)
(* the action "execute" a monitor thread waits for the user's interrupt    *)
(* and then asks the server, by a request of its own, to cancel the        *)
(* execution; it asks again until the server says that it has done so,     *)
(* because the request may reach the server before the execution is known  *)
(* there.  For other actions the monitor only sets a stop token, which     *)
(* wakes no thread that waits for the server.                              *)
(***************************************************************************)
EXTENDS Integers

CONSTANTS
  MaxResults,  \* bounds the results of an action
  Kinds        \* subset of {"execute", "other"}: the actions called

MaxResultsAssumption == MaxResults \in Nat
KindsAssumption == Kinds \subseteq {"execute", "other"}

VARIABLES
  kind,        \* of the action
  pc,          \* where the thread of the statement is
  monitor,     \* where interrupt_monitor's thread is
  finished,    \* the flag of that name
  joining,     \* the monitor is being destroyed: done_ is set and its thread joined
  interrupted, \* context.interrupted
  server,      \* what the server has of the action
  produced,    \* results the server has sent
  returned,    \* results the statement has returned
  outcome      \* how the statement has ended

vars == <<kind, pc, monitor, finished, joining, interrupted, server, produced, returned, outcome>>

Init ==
  /\ kind \in Kinds
  /\ pc = "start" /\ monitor = "none" /\ finished = FALSE /\ joining = FALSE
  /\ interrupted = FALSE
  /\ server = "none" /\ produced = 0 /\ returned = 0
  /\ outcome = "none"

Interrupt ==
  /\ pc # "over" /\ ~interrupted /\ interrupted' = TRUE
  /\ UNCHANGED <<kind, pc, monitor, finished, joining, server, produced, returned, outcome>>

-----------------------------------------------------------------------------
(* do_action.                                                              *)

Ends(how) == pc' = "ended" /\ outcome' = how

Start ==
  /\ pc = "start"
  /\ IF interrupted
     THEN Ends("interrupted") /\ UNCHANGED <<monitor, server>>
     ELSE pc' = "calling" /\ monitor' = "watching" /\ server' = "sent" /\ UNCHANGED outcome
  /\ UNCHANGED <<kind, finished, joining, interrupted, produced, returned>>

\* DoAction returns when the server sends something.
CallReturns ==
  /\ pc = "calling" /\ server \in {"running", "complete"}
  /\ pc' = "open"
  /\ UNCHANGED <<kind, monitor, finished, joining, interrupted, server, produced, returned, outcome>>

\* AirportCheckContextInterrupt before a result is read.
Check ==
  /\ pc = "open"
  /\ IF interrupted THEN Ends("interrupted") ELSE pc' = "reading" /\ UNCHANGED outcome
  /\ UNCHANGED <<kind, monitor, finished, joining, interrupted, server, produced, returned>>

ReadResult ==
  /\ pc = "reading" /\ returned < produced
  /\ returned' = returned + 1 /\ pc' = "open"
  /\ UNCHANGED <<kind, monitor, finished, joining, interrupted, server, produced, outcome>>

\* There are no more results: finished is set, then the monitor is destroyed.
ReadEnd ==
  /\ pc = "reading" /\ returned = produced /\ server = "complete"
  /\ finished' = TRUE /\ joining' = TRUE /\ pc' = "draining"
  /\ UNCHANGED <<kind, monitor, interrupted, server, produced, returned, outcome>>

Drain ==
  /\ pc = "draining" /\ monitor = "exited"
  /\ Ends(IF interrupted THEN "interrupted" ELSE "complete")
  /\ UNCHANGED <<kind, monitor, finished, joining, interrupted, server, produced, returned>>

\* Faulty: what fails is taken for the end of the results.
FailsAsEnd ==
  /\ pc = "calling" \/ (pc = "reading" /\ returned = produced)
  /\ server \in {"cancelled", "failed"}
  /\ Ends(IF interrupted THEN "interrupted" ELSE "complete")
  /\ UNCHANGED <<kind, monitor, finished, joining, interrupted, server, produced, returned>>

\* The call or a read fails.  A call that fails after an interrupt is reported as one; the
\* error of a read is a result, not an exception, and is raised as it is.
Fails ==
  /\ pc = "calling" \/ (pc = "reading" /\ returned = produced)
  /\ server \in {"cancelled", "failed"}
  /\ Ends(IF pc = "calling" /\ interrupted THEN "interrupted" ELSE "error")
  /\ UNCHANGED <<kind, monitor, finished, joining, interrupted, server, produced, returned>>

\* The 300 seconds of AirportSetCallDeadline are over; they are those of all results.
DeadlineExpires ==
  /\ pc \in {"calling", "reading"}
  /\ Ends(IF pc = "calling" /\ interrupted THEN "interrupted" ELSE "deadline")
  /\ UNCHANGED <<kind, monitor, finished, joining, interrupted, server, produced, returned>>

\* DuckDB wants no more results.
Limit ==
  /\ pc = "open" /\ Ends("limit")
  /\ UNCHANGED <<kind, monitor, finished, joining, interrupted, server, produced, returned>>

\* ~ActionGlobalState sets finished and joins the monitor's thread.
Destroy ==
  /\ pc = "ended"
  /\ finished' = TRUE /\ joining' = TRUE /\ pc' = "destroying"
  /\ UNCHANGED <<kind, monitor, interrupted, server, produced, returned, outcome>>

Over ==
  /\ pc = "destroying" /\ monitor \in {"none", "exited"}
  /\ pc' = "over"
  /\ UNCHANGED <<kind, monitor, finished, joining, interrupted, server, produced, returned, outcome>>

StatementStep ==
  \/ Start \/ Check \/ ReadResult \/ ReadEnd \/ Drain \/ Fails \/ Destroy \/ Over
  \/ (CallReturns /\ server = "complete")

-----------------------------------------------------------------------------
(* The monitor's thread.                                                   *)

\* AirportInterruptMonitor's loop ends; the callback of "execute" is called if the user
\* has interrupted, even when the monitor is being destroyed.
Wake ==
  /\ monitor = "watching" /\ (interrupted \/ joining)
  /\ monitor' = IF interrupted /\ kind = "execute" THEN "resting" ELSE "exited"
  /\ UNCHANGED <<kind, pc, finished, joining, interrupted, server, produced, returned, outcome>>

\* The loop of the callback: it ends when finished is set, and asks once more if not.
Ask ==
  /\ monitor = "resting"
  /\ monitor' = IF finished THEN "exited" ELSE "asking"
  /\ UNCHANGED <<kind, pc, finished, joining, interrupted, server, produced, returned, outcome>>

CancelServer == server' = IF server = "running" THEN "cancelled" ELSE server

\* Faulty: one answer is enough.
CancelAnsweredOnce ==
  /\ monitor = "asking"
  /\ monitor' = "exited" /\ CancelServer
  /\ UNCHANGED <<kind, pc, finished, joining, interrupted, produced, returned, outcome>>

\* The server cancels an execution it knows, and says so.
CancelAnswered ==
  /\ monitor = "asking"
  /\ monitor' = (IF server = "running" THEN "exited" ELSE "resting") /\ CancelServer
  /\ UNCHANGED <<kind, pc, finished, joining, interrupted, produced, returned, outcome>>

\* The request is not answered within its second, though it may have arrived.
CancelUnanswered ==
  /\ monitor = "asking"
  /\ monitor' = "resting" /\ (CancelServer \/ UNCHANGED server)
  /\ UNCHANGED <<kind, pc, finished, joining, interrupted, produced, returned, outcome>>

-----------------------------------------------------------------------------
(* The server.                                                             *)

Register ==
  /\ server = "sent" /\ server' = "running"
  /\ UNCHANGED <<kind, pc, monitor, finished, joining, interrupted, produced, returned, outcome>>

Produce ==
  /\ server = "running" /\ produced < MaxResults /\ produced' = produced + 1
  /\ UNCHANGED <<kind, pc, monitor, finished, joining, interrupted, server, returned, outcome>>

Complete ==
  /\ server = "running" /\ server' \in {"complete", "failed"}
  /\ UNCHANGED <<kind, pc, monitor, finished, joining, interrupted, produced, returned, outcome>>

Next ==
  \/ Interrupt
  \/ StatementStep \/ CallReturns \/ DeadlineExpires \/ Limit
  \/ Wake \/ Ask \/ CancelAnswered \/ CancelUnanswered
  \/ Register \/ Produce \/ Complete

Spec == Init /\ [][Next]_vars

\* Both threads run, the server gets the action, answers some request to cancel it, and
\* what has ended there comes back; it need neither produce a result nor complete, and the
\* deadline need not expire.
FairSpec ==
  /\ Spec
  /\ WF_vars(StatementStep) /\ WF_vars(Wake) /\ WF_vars(Ask)
  /\ WF_vars(Register) /\ WF_vars(CancelAnswered \/ CancelUnanswered) /\ SF_vars(CancelAnswered)

\* The server may never answer, but the deadline expires.
DeadlineSpec ==
  /\ Spec
  /\ WF_vars(StatementStep) /\ WF_vars(Wake) /\ WF_vars(Ask)
  /\ WF_vars(CancelAnswered \/ CancelUnanswered) /\ WF_vars(DeadlineExpires)

-----------------------------------------------------------------------------

\* The state has its type; the monitor is there from the request to its end.
TypeOK ==
  /\ kind \in Kinds
  /\ pc \in {"start", "calling", "open", "reading", "draining", "ended", "destroying", "over"}
  /\ monitor \in {"none", "watching", "resting", "asking", "exited"}
  /\ finished \in BOOLEAN /\ joining \in BOOLEAN /\ interrupted \in BOOLEAN
  /\ server \in {"none", "sent", "running", "complete", "failed", "cancelled"}
  /\ produced \in 0 .. MaxResults /\ returned \in 0 .. produced
  /\ outcome \in {"none", "complete", "interrupted", "error", "deadline", "limit"}
  /\ server # "none" => monitor # "none"

\* A statement that says nothing of an error has returned every result of the action,
\* and one that was not interrupted is not cancelled at the server.
CompleteIsComplete ==
  /\ outcome = "complete" => server = "complete" /\ returned = produced
  /\ server = "cancelled" => interrupted /\ kind = "execute"

\* The inductive invariant: nothing is asked of the server or said of the statement before
\* it starts, only an interrupted "execute" is asked to be cancelled, and the monitor is
\* awaited after the last result.
ActionInv ==
  /\ TypeOK
  /\ CompleteIsComplete
  /\ pc = "start" => server = "none" /\ outcome = "none"
  /\ monitor \in {"resting", "asking"} => interrupted /\ kind = "execute"
  /\ pc = "draining" => server = "complete" /\ returned = produced

\* An interrupted "execute" ends, even when the server produces nothing, and even when the
\* first requests to cancel it come too early or are lost.
InterruptEnds == (interrupted /\ kind = "execute") ~> pc = "over"

\* Every statement ends by the deadline, and the monitor does not keep it from ending: the
\* server may never say that it has cancelled an execution that has ended by itself.
StatementEnds == <>(pc = "over")

=============================================================================
