------------------------- MODULE MCAirportRequests --------------------------
(***************************************************************************)
(* Small instances of the requests.                                        *)
(***************************************************************************)
EXTENDS RequestParts

MCKinds == {"execute", "other"}

-----------------------------------------------------------------------------
(* Up to five flights: a command with one endpoint, paths with one part    *)
(* and two, with no endpoint and with two, a descriptor of an unknown      *)
(* type, and a schema that cannot be read.  Vectors have two rows.         *)

Location(t, ls) == [ticket |-> t, locations |-> ls]
Flight(type, path, endpoints, schema) ==
  [type |-> type, path |-> path, endpoints |-> endpoints, schema |-> schema]

MCFlights ==
  { Flight("cmd", <<>>, << Location("t1", <<"l1">>) >>, TRUE),
    Flight("path", <<"a">>, << Location("t2", <<"l1", "l2">>) >>, TRUE),
    Flight("path", <<"a", "b">>, <<>>, TRUE),
    Flight("path", <<"b">>, << Location("t3", <<"l3">>), Location("t4", <<>>) >>, TRUE),
    Flight("unknown", <<>>, <<>>, TRUE),
    Flight("cmd", <<>>, <<>>, FALSE) }

MCTexts == {"a", "b", "t1", "t2", "t3", "t4", "l1", "l2", "l3"}

=============================================================================
