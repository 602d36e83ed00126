----------------------------- MODULE AirportRpc -----------------------------
(***************************************************************************)
(* AirportCallAction (airport_rpc.cpp): one action of the server, called   *)
(* with retries.                                                           *)
(*                                                                         *)
(* First DoAction is tried, then, if the caller wants one, the first       *)
(* result is read, and at last the result stream is drained.  The first    *)
(* two are repeated after an IOError, which is also what an expired        *)
(* deadline is; an interrupt is looked for before every attempt and after  *)
(* every error, but only for a caller that passes its ClientContext.       *)
(*                                                                         *)
(* Each DoAction is a request of its own: the server may execute any of    *)
(* them, at any time after it was sent, whatever the client learns of it.  *)
(***************************************************************************)
EXTENDS Integers, FiniteSets

CONSTANT MaxRetries

ASSUME MaxRetriesAssumption == MaxRetries \in Nat

VARIABLES
  context,      \* the caller passed its ClientContext
  want_result,  \* the caller wants a result
  interrupted,  \* context->interrupted
  pc,           \* where the call is
  loop,         \* which of the two retry loops it is in
  attempt,      \* the attempt counter of that loop
  requests,     \* DoAction requests sent so far
  committed,    \* at the interrupt: those, and the one about to be sent
  executed,     \* those the server has executed
  stream,       \* the request whose result stream the call holds, or 0
  result        \* results_buffer: a value, or null

caller == <<context, want_result>>
vars == <<caller, interrupted, pc, loop, attempt, requests, committed, executed, stream, result>>

Ended    == {"returned", "interrupted", "failed"}
Places   == {"start", "check", "sending", "calling", "sleeping", "drain", "draining"} \cup Ended
Statuses == {"IOError", "Cancelled", "UnknownError", "other"}

Init ==
  /\ context \in BOOLEAN /\ want_result \in BOOLEAN
  /\ interrupted = FALSE
  /\ pc = "start" /\ loop = "DoAction" /\ attempt = 0
  /\ requests = 0 /\ committed = 0 /\ executed = {} /\ stream = 0 /\ result = "null"

\* AirportCheckContextInterrupt: without a context there is nothing to check.
InterruptSeen == context /\ interrupted

\* The check before the first loop; a context also gets a deadline.
Start ==
  /\ pc = "start"
  /\ pc' = IF InterruptSeen THEN "interrupted" ELSE "check"
  /\ UNCHANGED <<caller, interrupted, loop, attempt, requests, committed, executed, stream, result>>

\* Faulty variants of an operator stand before it and say what is wrong in them;
\* no specification uses one.

\* Faulty: the interrupt is looked for before the first attempt only.
AttemptUnchecked ==
  /\ pc = "check"
  /\ pc' = "sending"
  /\ UNCHANGED <<caller, interrupted, loop, attempt, requests, committed, executed, stream, result>>

\* The checks before an attempt.
Attempt ==
  /\ pc = "check"
  /\ pc' = IF InterruptSeen THEN "interrupted" ELSE "sending"
  /\ UNCHANGED <<caller, interrupted, loop, attempt, requests, committed, executed, stream, result>>

\* The attempt itself; an interrupt since the checks does not keep it back.
Send ==
  /\ pc = "sending"
  /\ pc' = "calling"
  /\ requests' = IF loop = "DoAction" THEN requests + 1 ELSE requests
  /\ UNCHANGED <<caller, interrupted, loop, attempt, committed, executed, stream, result>>

\* Faulty: a caller that wants no result does not drain the stream.
DoActionReturnsUndrained ==
  /\ pc = "calling" /\ loop = "DoAction"
  /\ stream' = requests
  /\ IF want_result THEN pc' = "check" /\ loop' = "Next" /\ attempt' = 0
     ELSE pc' = "returned" /\ UNCHANGED <<loop, attempt>>
  /\ UNCHANGED <<caller, interrupted, requests, committed, executed, result>>

\* DoAction succeeds: there is a result stream, and the attempts count anew.
DoActionReturns ==
  /\ pc = "calling" /\ loop = "DoAction"
  /\ stream' = requests
  /\ IF want_result THEN pc' = "check" /\ loop' = "Next" /\ attempt' = 0
     ELSE pc' = "drain" /\ UNCHANGED <<loop, attempt>>
  /\ UNCHANGED <<caller, interrupted, requests, committed, executed, result>>

\* Next returns the server's result, if it has one; repeated on a stream that has
\* failed already it possibly returns nothing.
NextReturns ==
  /\ pc = "calling" /\ loop = "Next"
  /\ \/ stream \in executed /\ result' \in {"value", "null"}
     \/ attempt > 0 /\ result' = "null"
  /\ pc' = "drain"
  /\ UNCHANGED <<caller, interrupted, loop, attempt, requests, committed, executed, stream>>

\* Faulty: one attempt too many.
LastAttemptLate == attempt > MaxRetries

LastAttempt == attempt = MaxRetries

\* An attempt fails.  After an interrupt any error a cancellation may cause is
\* an interrupt; otherwise only an IOError is worth another attempt.
AttemptFails(status) ==
  /\ pc = "calling"
  /\ pc' = IF InterruptSeen /\ status \in {"Cancelled", "IOError", "UnknownError"}
           THEN "interrupted"
           ELSE IF LastAttempt \/ status # "IOError" THEN "failed" ELSE "sleeping"
  /\ UNCHANGED <<caller, interrupted, loop, attempt, requests, committed, executed, stream, result>>

\* The backoff is over.  Nothing wakes the thread earlier.
Wake ==
  /\ pc = "sleeping"
  /\ pc' = "check"
  /\ attempt' = attempt + 1
  /\ UNCHANGED <<caller, interrupted, loop, requests, committed, executed, stream, result>>

CheckBeforeDrain ==
  /\ pc = "drain"
  /\ pc' = IF InterruptSeen THEN "interrupted" ELSE "draining"
  /\ UNCHANGED <<caller, interrupted, loop, attempt, requests, committed, executed, stream, result>>

\* The stream ends without an error only if the server has executed the action.
\* A stream that failed in Next may also be found empty.
DrainReturns ==
  /\ pc = "draining"
  /\ stream \in executed \/ (loop = "Next" /\ attempt > 0 /\ result = "null")
  /\ pc' = "returned"
  /\ UNCHANGED <<caller, interrupted, loop, attempt, requests, committed, executed, stream, result>>

DrainFails ==
  /\ pc = "draining"
  /\ pc' = "failed"
  /\ UNCHANGED <<caller, interrupted, loop, attempt, requests, committed, executed, stream, result>>

\* The server executes a request, perhaps one the client has given up.
Execute(r) ==
  /\ r \notin executed
  /\ executed' = executed \cup {r}
  /\ UNCHANGED <<caller, interrupted, pc, loop, attempt, requests, committed, stream, result>>

Interrupt ==
  /\ ~interrupted
  /\ interrupted' = TRUE
  /\ committed' = IF pc = "sending" /\ loop = "DoAction" THEN requests + 1 ELSE requests
  /\ UNCHANGED <<caller, pc, loop, attempt, requests, executed, stream, result>>

Over == pc \in Ended /\ UNCHANGED vars

Step ==
  \/ Start \/ Attempt \/ Send \/ DoActionReturns \/ NextReturns
  \/ \E status \in Statuses : AttemptFails(status)
  \/ Wake \/ CheckBeforeDrain \/ DrainReturns \/ DrainFails

Next == Step \/ (\E r \in 1 .. requests : Execute(r)) \/ Interrupt \/ Over

\* The thread keeps running.  A call with a deadline returns, with the answer or
\* with an IOError; a call without one may block for good.
Fairness ==
  /\ WF_vars(Start \/ Attempt \/ Send \/ Wake \/ CheckBeforeDrain)
  /\ WF_vars(context /\ AttemptFails("IOError"))
  /\ WF_vars(context /\ DrainFails)

Spec == Init /\ [][Next]_vars /\ Fairness

-----------------------------------------------------------------------------

TypeOK ==
  /\ context \in BOOLEAN /\ want_result \in BOOLEAN /\ interrupted \in BOOLEAN
  /\ pc \in Places
  /\ loop \in {"DoAction", "Next"}
  /\ attempt \in 0 .. MaxRetries
  /\ requests \in Nat
  /\ committed \in Nat
  /\ executed \subseteq 1 .. requests
  /\ stream \in 0 .. requests
  /\ result \in {"value", "null"}

\* A call that returns has had its action executed, even one that wants no
\* result: only draining the stream tells.  The exception is a call that repeated
\* Next on a failed stream and got nothing; it returns null.
ReturnMeansExecuted ==
  pc = "returned" =>
    \/ stream \in executed
    \/ want_result /\ loop = "Next" /\ attempt > 0 /\ result = "null"

\* However the attempts fail, the server sees at most one request and its
\* MaxRetries repetitions.
RequestsBounded == requests <= MaxRetries + 1

\* An interrupted caller with a context sends no request but the one it was about
\* to send at that moment, even when the interrupt comes during a backoff.
NoRequestAfterInterrupt == context /\ interrupted => requests <= committed

\* The inductive invariant: while the first loop runs, the requests are its attempts,
\* a backoff is followed by another attempt that is still allowed, and after an
\* interrupt a request is left only to a thread that was past the checks.
RpcInv ==
  /\ TypeOK
  /\ RequestsBounded
  /\ ReturnMeansExecuted
  /\ NoRequestAfterInterrupt
  /\ loop = "Next" => want_result
  /\ loop = "DoAction" /\ pc \in {"start", "check", "sending"} => requests = attempt
  /\ loop = "DoAction" /\ pc \in {"calling", "sleeping"} => requests = attempt + 1
  /\ pc = "sleeping" => attempt < MaxRetries
  /\ context /\ interrupted /\ loop = "DoAction" /\ pc = "sending" => requests < committed

\* A call with a context ends, whatever the server does or does not do.
CallEnds == context => <>(pc \in Ended)

=============================================================================
