--------------------------- MODULE FlightDelivery ---------------------------
(***************************************************************************)
(* What a scan of a flight promises to the query, without threads, chunks  *)
(* or a cursor: rows are delivered in any mix of endpoints, but in stream  *)
(* order within an endpoint and never twice, and the scan succeeds only    *)
(* when no row is missing.  AirportScan implements this module.            *)
(***************************************************************************)
EXTENDS Integers

CONSTANT Rows  \* a set of triples <<endpoint, batch, position>>

VARIABLES
  out,      \* how often each row was delivered
  outcome   \* what the query knows of the scan

Precedes(r, s) == r[1] = s[1] /\ (r[2] < s[2] \/ (r[2] = s[2] /\ r[3] < s[3]))

Init == out = [r \in Rows |-> 0] /\ outcome = "running"

\* Deliver the next rows of one endpoint: a scan that has given up in one place
\* may still deliver rows from another.
Deliver ==
  /\ outcome # "success"
  /\ \E e \in {r[1] : r \in Rows} :
       LET new == {r \in Rows : out'[r] # out[r]}
       IN  /\ new # {}
           /\ \A r \in new : r[1] = e /\ out[r] = 0 /\ out'[r] = 1
           /\ \A r \in new, s \in Rows : Precedes(s, r) => out'[s] = 1
  /\ DOMAIN out' = Rows
  /\ UNCHANGED outcome

\* Only a complete delivery is a success.
Succeed ==
  /\ outcome = "running"
  /\ \A r \in Rows : out[r] = 1
  /\ outcome' = "success"
  /\ UNCHANGED out

\* The consumer stops early, or the scan fails or is interrupted.
GiveUp ==
  /\ outcome # "success"
  /\ outcome' \in {"stopped", "error"}
  /\ UNCHANGED out

Next == Deliver \/ Succeed \/ GiveUp

Spec == Init /\ [][Next]_<<out, outcome>>

=============================================================================
