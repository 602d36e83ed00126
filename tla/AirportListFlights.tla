------------------------ MODULE AirportListFlights -------------------------
(***************************************************************************)
(* The table function airport_flights (airport_list_flights.cpp): one      *)
(* thread opens the listing of a server and turns flights into rows, a     *)
(* vector at a time.                                                       *)
(*                                                                         *)
(* A row keeps its lists (the parts of a path, the endpoints, and the      *)
(* locations of each endpoint) as an offset and a length into child        *)
(* vectors all rows of a vector share, which is what can go wrong here.    *)
(* Texts are values of a small set.                                        *)
(***************************************************************************)
EXTENDS Integers, Sequences

CONSTANTS
  Texts,        \* parts of paths, tickets and locations
  Flights,      \* what a server may list: records [type, path, endpoints, schema]
  MaxFlights,   \* bounds how many flights a server lists
  VectorSize    \* STANDARD_VECTOR_SIZE

VectorSizeAssumption == VectorSize \in Nat \ {0}
MaxFlightsAssumption == MaxFlights \in Nat
\* A descriptor is of no known type only if the server sends one the program was not
\* built for.
FlightsAssumption ==
  \A f \in Flights :
    /\ f.type \in {"cmd", "path", "unknown"} /\ f.schema \in BOOLEAN
    /\ f.path \in Seq(Texts) /\ f.endpoints \in Seq([ticket : Texts, locations : Seq(Texts)])

VARIABLES
  server,       \* the flights the server lists
  cursor,       \* how many flights the listing has given
  opened,       \* global_state.listing is there
  pc,           \* where the thread is
  row,          \* the flight being handled: its position, 0 if there is none
  base,         \* endpoint_list_current_size: how many endpoints the rows before have
  chunk,        \* the output vector being filled
  results,      \* the vectors handed to DuckDB
  interrupted   \* the user has asked to stop

vars == <<server, cursor, opened, pc, row, base, chunk, results, interrupted>>

Nowhere == [offset |-> 0, length |-> 0]

\* What is not written has whatever the vector holds.
Unset == [offset |-> -1, length |-> -1]

\* A vector of rows: one descriptor and one list of endpoints a row, and the child vectors: one ticket
\* and one place of its locations an endpoint.
EmptyChunk == [descriptors |-> <<>>, parts |-> <<>>, lists |-> <<>>, tickets |-> <<>>,
               places |-> <<>>, locations |-> <<>>, from |-> <<>>]

Init ==
  /\ server \in UNION {[1 .. n -> Flights] : n \in 0 .. MaxFlights}
  /\ cursor = 0 /\ opened = FALSE /\ pc = "idle" /\ row = 0 /\ base = 0
  /\ chunk = EmptyChunk /\ results = <<>> /\ interrupted = FALSE

----------------------------------------------------------------------------
(* The steps of list_flights.                                              *)

\* DuckDB asks for a vector, until one is empty.
Call ==
  /\ pc = "idle" /\ pc' = "check"
  /\ chunk' = EmptyChunk
  /\ UNCHANGED <<server, cursor, opened, row, base, results, interrupted>>

\* The first call opens the listing.
OpenListing ==
  /\ pc = "check" /\ ~opened /\ ~interrupted
  /\ opened' = TRUE
  /\ UNCHANGED <<server, cursor, pc, row, base, chunk, results, interrupted>>

OpenFails ==
  /\ pc = "check" /\ ~opened
  /\ pc' = "failed"
  /\ UNCHANGED <<server, cursor, opened, row, base, chunk, results, interrupted>>

\* AirportCheckContextInterrupt, before a read and after each row.
CheckInterrupt ==
  /\ pc \in {"check", "added"} /\ interrupted
  /\ pc' = "failed"
  /\ UNCHANGED <<server, cursor, opened, row, base, chunk, results, interrupted>>

\* listing->Next(): a flight, or nothing more.
NextFlight ==
  IF cursor < Len(server)
  THEN cursor' = cursor + 1 /\ row' = cursor + 1
  ELSE row' = 0 /\ UNCHANGED cursor

ReadFirst ==
  /\ pc = "check" /\ opened /\ ~interrupted
  /\ NextFlight
  /\ pc' = "read"
  /\ UNCHANGED <<server, opened, base, chunk, results, interrupted>>

\* The first read of a call finds nothing: an empty vector ends the scan.
NoMoreFlights ==
  /\ pc = "read" /\ row = 0 /\ chunk.from = <<>>
  /\ pc' = "done"
  /\ UNCHANGED <<server, cursor, opened, row, base, chunk, results, interrupted>>

ReadFails ==
  /\ pc \in {"check", "added"} /\ opened
  /\ pc' = "failed"
  /\ UNCHANGED <<server, cursor, opened, row, base, chunk, results, interrupted>>

\* Faulty: every list starts where the last one started.
DescribedAtZero(c, f) ==
  IF f.type = "path"
  THEN [c EXCEPT !.descriptors = Append(@, [offset |-> 0, length |-> Len(f.path)]),
                 !.parts       = @ \o f.path]
  ELSE [c EXCEPT !.descriptors = Append(@, Nowhere)]

\* A command, or a path as a list of parts.
Described(c, f) ==
  IF f.type = "path"
  THEN [c EXCEPT !.descriptors = Append(@, [offset |-> Len(c.parts), length |-> Len(f.path)]),
                 !.parts       = @ \o f.path]
  ELSE [c EXCEPT !.descriptors = Append(@, Nowhere)]

\* One turn of the loop, up to the check for an interrupt: first the descriptor of a row.
AddDescriptor ==
  /\ pc = "read" /\ row # 0 /\ Len(chunk.from) < VectorSize
  /\ IF server[row].type = "unknown" THEN pc' = "failed" /\ UNCHANGED <<base, chunk>>
     ELSE /\ pc' = "endpoints" /\ base' = Len(chunk.tickets)
          /\ chunk' = Described(chunk, server[row])
  /\ UNCHANGED <<server, cursor, opened, row, results, interrupted>>

\* Then its endpoints, one by one.  The place of an endpoint's locations is written at the
\* first endpoint of the row, whichever endpoint it is for.
AddEndpoint ==
  /\ pc = "endpoints" /\ Len(chunk.tickets) - base < Len(server[row].endpoints)
  /\ LET e     == server[row].endpoints[Len(chunk.tickets) - base + 1]
         place == [offset |-> Len(chunk.locations), length |-> Len(e.locations)]
     IN  chunk' = [chunk EXCEPT !.tickets   = Append(@, e.ticket),
                                !.places    = [Append(@, Unset) EXCEPT ![base + 1] = place],
                                !.locations = @ \o e.locations]
  /\ UNCHANGED <<server, cursor, opened, pc, row, base, results, interrupted>>

\* Last the list they make, and the schema: the row is written, and not yet counted.
AddRow ==
  /\ pc = "endpoints" /\ Len(chunk.tickets) - base = Len(server[row].endpoints)
  /\ IF ~server[row].schema THEN pc' = "failed" /\ UNCHANGED chunk
     ELSE /\ pc' = "added"
          /\ chunk' = [chunk EXCEPT
                         !.lists = Append(@, [offset |-> base, length |-> Len(server[row].endpoints)]),
                         !.from  = Append(@, row)]
  /\ UNCHANGED <<server, cursor, opened, row, base, results, interrupted>>

\* The turn ends by reading the next flight, whether or not there is room for it.
ReadNext ==
  /\ pc = "added" /\ ~interrupted
  /\ NextFlight
  /\ pc' = "read"
  /\ UNCHANGED <<server, opened, base, chunk, results, interrupted>>

\* The vector is full or the listing has ended: the flight in hand, if any, is dropped.
ReturnRows ==
  /\ pc = "read" /\ chunk.from # <<>>
  /\ row = 0 \/ Len(chunk.from) = VectorSize
  /\ results' = Append(results, chunk)
  /\ pc' = "idle" /\ row' = 0 /\ chunk' = EmptyChunk
  /\ UNCHANGED <<server, cursor, opened, base, interrupted>>

\* The user, at any time.
Interrupt ==
  /\ ~interrupted /\ pc \notin {"done", "failed"}
  /\ interrupted' = TRUE
  /\ UNCHANGED <<server, cursor, opened, pc, row, base, chunk, results>>

Step ==
  \/ Call \/ OpenListing \/ OpenFails \/ CheckInterrupt \/ ReadFirst \/ NoMoreFlights
  \/ ReadFails \/ AddDescriptor \/ AddEndpoint \/ AddRow \/ ReadNext \/ ReturnRows

Next == Step \/ Interrupt

Spec     == Init /\ [][Next]_vars
FairSpec == Spec /\ WF_vars(Step)

----------------------------------------------------------------------------
(* Properties.                                                             *)

\* What DuckDB reads of a shared child vector from a place on is a list.
ReadsAs(s, place, list) ==
  /\ place.length = Len(list)
  /\ \A k \in 1 .. Len(list) : place.offset + k \in 1 .. Len(s) /\ s[place.offset + k] = list[k]

Places == [offset : Nat, length : Nat]
ChunkType ==
  [descriptors : Seq(Places), parts : Seq(Texts), lists : Seq(Places), tickets : Seq(Texts),
   places : Seq(Places \cup {Unset}), locations : Seq(Texts), from : Seq(1 .. Len(server))]

\* The state has its type.
TypeOK ==
  /\ server \in Seq(Flights) /\ cursor \in 0 .. Len(server)
  /\ opened \in BOOLEAN /\ interrupted \in BOOLEAN
  /\ pc \in {"idle", "check", "read", "endpoints", "added", "done", "failed"}
  /\ row \in 0 .. Len(server) /\ base \in Nat
  /\ chunk \in ChunkType /\ results \in Seq(ChunkType)
  /\ Len(chunk.from) <= VectorSize /\ Len(chunk.lists) = Len(chunk.from)
  /\ Len(chunk.descriptors) >= Len(chunk.from) /\ Len(chunk.places) = Len(chunk.tickets)
  /\ pc \notin {"endpoints", "failed"} => Len(chunk.descriptors) = Len(chunk.from)

\* Row i of a vector, read back through the offsets of the child vectors that all rows
\* share, is the flight it stands for: the parts of its path, the tickets of its endpoints
\* and the locations of its only endpoint, if it has no others (list_flights).
ReadsBack(c, i) ==
  LET f == server[c.from[i]]
  IN  /\ f.type = "path" => ReadsAs(c.parts, c.descriptors[i], f.path)
      /\ ReadsAs(c.tickets, c.lists[i], [k \in DOMAIN f.endpoints |-> f.endpoints[k].ticket])
      /\ Len(f.endpoints) = 1 =>
           /\ c.lists[i].offset + 1 \in DOMAIN c.places
           /\ ReadsAs(c.locations, c.places[c.lists[i].offset + 1], f.endpoints[1].locations)

RowsReadBack == \A j \in DOMAIN results : \A i \in DOMAIN results[j].from : ReadsBack(results[j], i)

\* The flights of full vectors with the one that is dropped after each.
Taken(n) == n * (VectorSize + 1)

\* Flights come out in the order the server lists them, none twice, and the only ones
\* that do not come out are those in hand when a vector was full.
RowsInOrder ==
  \A j \in DOMAIN results :
    /\ j < Len(results) => Len(results[j].from) = VectorSize
    /\ \A i \in DOMAIN results[j].from : results[j].from[i] = Taken(j - 1) + i

\* A listing that ended without an error and with less flights than a vector has rows
\* was handed out whole.
ShortListingComplete ==
  pc = "done" /\ Len(server) <= VectorSize =>
    \A k \in DOMAIN server : \E j \in DOMAIN results : \E i \in DOMAIN results[j].from : results[j].from[i] = k

\* The rows of the vector being filled are read back already; so is the row in hand as far
\* as it is written, behind them in the child vectors.
ChunkInv ==
  /\ \A i \in DOMAIN chunk.from :
       /\ ReadsBack(chunk, i)
       /\ pc = "endpoints" /\ chunk.lists[i].length # 0 =>
            chunk.lists[i].offset + chunk.lists[i].length <= base
  /\ pc = "endpoints" =>
       LET f == server[row]
           k == Len(chunk.tickets) - base
       IN  /\ Len(chunk.descriptors) = Len(chunk.from) + 1 /\ k \in 0 .. Len(f.endpoints)
           /\ f.type = "path" => ReadsAs(chunk.parts, chunk.descriptors[Len(chunk.from) + 1], f.path)
           /\ \A e \in 1 .. k : chunk.tickets[base + e] = f.endpoints[e].ticket
           /\ Len(f.endpoints) = 1 /\ k = 1 =>
                ReadsAs(chunk.locations, chunk.places[base + 1], f.endpoints[1].locations)

\* How far the listing is: it goes on behind full vectors, or it has ended.
AllFull  == \A j \in DOMAIN results : Len(results[j].from) = VectorSize
Ended ==
  /\ results # <<>> /\ chunk.from = <<>>
  /\ cursor = Len(server) /\ cursor = Taken(Len(results) - 1) + Len(results[Len(results)].from)

OrderInv ==
  LET taken == Taken(Len(results)) + Len(chunk.from)
  IN  /\ \A i \in DOMAIN chunk.from : chunk.from[i] = Taken(Len(results)) + i
      /\ pc \in {"idle", "check", "done"} =>
           chunk.from = <<>> /\ row = 0 /\ (Ended \/ (AllFull /\ cursor = taken))
      /\ pc = "done" => cursor = Len(server)
      /\ pc = "read" /\ row = 0 => cursor = Len(server) /\ (Ended \/ (AllFull /\ cursor = taken))
      /\ pc = "read" /\ row # 0 => AllFull /\ row = cursor /\ cursor = taken + 1
      /\ pc = "endpoints" =>
           AllFull /\ row = cursor /\ cursor = taken + 1 /\ Len(chunk.from) < VectorSize
      /\ pc = "added" => AllFull /\ row = cursor /\ cursor = taken

\* The inductive invariant.
ListingInv == TypeOK /\ RowsReadBack /\ RowsInOrder /\ ChunkInv /\ OrderInv

=============================================================================
