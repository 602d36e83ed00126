---------------------- MODULE AirportFunctionParameters ----------------------
(***************************************************************************)
(* The parameters of a table function of the server                        *)
(* (airport_table_function_set.cpp): how the fields of its input schema    *)
(* become the signature DuckDB binds a call with, and how the arguments of *)
(* the call become the record that is sent to the server.                  *)
(*                                                                         *)
(* A field is a positional parameter, a named one, or the table input of   *)
(* an in/out function; its type may be ANY.  A value is stood for by the   *)
(* parameter it is given for; the type of a parameter that is not ANY by   *)
(* the parameter's name.                                                   *)
(***************************************************************************)
EXTENDS Integers, Sequences, FiniteSets, Selection

CONSTANTS
  Functions,  \* the input schemas: sequences of [name, kind, any]
  AnyTypes,   \* the types of what is given for an ANY
  Null        \* the value of a named parameter that is left out

Range(s) == {s[i] : i \in 1 .. Len(s)}
Kinds    == {"positional", "named", "table"}

FunctionsAssumption ==
  \A f \in Functions :
    /\ f \in Seq(Range(f))
    /\ \A i \in 1 .. Len(f) : f[i].kind \in Kinds /\ f[i].any \in BOOLEAN
    /\ \A i, j \in 1 .. Len(f) : i # j => f[i].name # f[j].name

VARIABLES
  function,    \* the fields of the input schema
  phase,
  signature,   \* the fields whose values DuckDB takes by position
  inputs,      \* input.inputs: [of, type], one for each of signature
  named,       \* input.named_parameters: a function from names to [of, type]
  parameters   \* the record sent: [name, of, type] of each column

vars == <<function, phase, signature, inputs, named, parameters>>

Init ==
  /\ function \in Functions
  /\ phase = "listed"
  /\ signature = <<>> /\ inputs = <<>>
  /\ named = [n \in {} |-> n] /\ parameters = <<>>

Names(kind) == {f.name : f \in {g \in Range(function) : g.kind = kind}}

-----------------------------------------------------------------------------
(* AirportSchemaToLogicalTypesWithNaming and LoadEntries.                  *)

\* An in/out function is given all its parameters by position.
Signature ==
  IF Names("table") # {} THEN function
  ELSE Selected(function, {i \in 1 .. Len(function) : function[i].kind # "named"})

LoadEntries ==
  /\ phase = "listed"
  /\ signature' = Signature
  /\ phase' = "loaded"
  /\ UNCHANGED <<function, inputs, named, parameters>>

\* The types a value may have that is given for a parameter; a table is no value.
TypesOf(f) == IF f.kind = "table" THEN {Null} ELSE IF f.any THEN AnyTypes ELSE {f.name}

\* A call is bound: DuckDB casts arguments to the types of the signature, and puts a
\* place holder for a table; it takes one table at most.
Call ==
  /\ phase = "loaded"
  /\ \A i, j \in 1 .. Len(signature) :
       signature[i].kind = "table" /\ signature[j].kind = "table" => i = j
  /\ inputs' \in {s \in [1 .. Len(signature) -> [of : {f.name : f \in Range(signature)} \cup {Null},
                                                type : UNION {TypesOf(f) : f \in Range(signature)}]] :
                    \A i \in 1 .. Len(signature) :
                      /\ s[i].of = IF signature[i].kind = "table" THEN Null ELSE signature[i].name
                      /\ s[i].type \in TypesOf(signature[i])}
  /\ \E given \in SUBSET Names("named") :
       named' \in {m \in [given -> [of : given, type : UNION {TypesOf(f) : f \in Range(function)}]] :
                     \A f \in Range(function) :
                       f.name \in given => m[f.name].of = f.name /\ m[f.name].type \in TypesOf(f)}
  /\ phase' = "called"
  /\ UNCHANGED <<function, signature, parameters>>

-----------------------------------------------------------------------------
(* AirportDynamicSerializeParameters.                                      *)

\* The columns of the record are the fields but for the table.
Columns == Selected(function, {i \in 1 .. Len(function) : function[i].kind # "table"})

\* Faulty: the named parameters are taken to be among the inputs.
SeenNamedParametersNever(i) == 0

\* seen_named_parameters: the named parameters up to the field at i.
SeenNamedParameters(i) == Cardinality({j \in 1 .. i : function[j].kind = "named"})

\* Where a column of type ANY gets its type, and a positional one its value.  A named one
\* has counted itself by then; the place of a table, 0, is no index.
AnyIndex(i) == i - SeenNamedParameters(i)
SourceIndex(i) ==
  LET at == i - SeenNamedParameters(i)
  IN  IF function[at].kind = "table" THEN 0 ELSE at

\* Field i is written to column i, cast to its type, though the columns do not count the table.
Fails ==
  \/ \E i \in 1 .. Len(function) : function[i].kind # "table" /\ i > Len(Columns)
  \/ \E i \in 1 .. Len(function) :
       function[i].any /\ function[i].kind # "table" /\ AnyIndex(i) \notin 1 .. Len(inputs)
  \/ \E i \in 1 .. Len(function) :
       function[i].kind = "positional" /\ SourceIndex(i) \notin 1 .. Len(inputs)

ColumnType(i) == IF function[i].any THEN inputs[AnyIndex(i)].type ELSE function[i].name

\* A named parameter that is not given is NULL.
ColumnValue(i) ==
  CASE function[i].kind = "positional"     -> inputs[SourceIndex(i)].of
    [] function[i].name \in DOMAIN named -> named[function[i].name].of
    [] OTHER                             -> Null

\* What the index of a vector does not have is an internal error.
SerializeParameters ==
  /\ phase = "called"
  /\ IF Fails THEN phase' = "failed" /\ UNCHANGED parameters
     ELSE /\ parameters' = [i \in 1 .. Len(Columns) |->
                [name |-> function[i].name, of |-> ColumnValue(i), type |-> ColumnType(i)]]
          /\ phase' = "sent"
  /\ UNCHANGED <<function, signature, inputs, named>>

Next == LoadEntries \/ Call \/ SerializeParameters

Spec == Init /\ [][Next]_vars

-----------------------------------------------------------------------------

\* The state is well formed; a record that is sent has a value or NULL in each column, and
\* none for a table.
TypeOK ==
  /\ function \in Functions
  /\ phase \in {"listed", "loaded", "called", "sent", "failed"}
  /\ Range(signature) \subseteq Range(function)
  /\ Len(inputs) \in {0, Len(signature)}
  /\ DOMAIN named \subseteq Names("named")
  /\ {p.of : p \in Range(parameters)} \subseteq {f.name : f \in Range(function)} \cup {Null}
  /\ Len(parameters) <= Len(function) /\ {p.name : p \in Range(parameters)} \cap Names("table") = {}

\* The type of what the call gives for a parameter.
GivenType(n) ==
  IF n \in DOMAIN named THEN named[n].type
  ELSE inputs[CHOOSE i \in 1 .. Len(signature) : signature[i].name = n].type

\* Every parameter of a call is sent under its own name, with the value and the actual
\* type it is given, and those left out are NULL, however positional and named parameters
\* alternate in the input schema (airport_table_function_set.cpp:154-185).  This is so for
\* functions without a table, and for those with a table that comes last and without
\* named parameters; a named parameter must not be ANY.
ParametersAsGiven ==
  (phase \in {"sent", "failed"} /\ (\A f \in Range(function) : f.kind = "named" => ~f.any)
     /\ (Names("table") # {} => function[Len(function)].kind = "table" /\ Names("named") = {})) =>
    /\ phase = "sent" /\ {p.name : p \in Range(parameters)} = {f.name : f \in Range(Columns)}
    /\ \A p \in Range(parameters) :
         IF p.name \in Names("named") /\ p.name \notin DOMAIN named THEN p.of = Null
         ELSE p.of = p.name /\ p.type = GivenType(p.name)

\* What a call has given, and keeps while it is sent.
CallInv ==
  /\ phase = "listed" => signature = <<>>
  /\ phase # "listed" => signature = Signature
  /\ phase \in {"listed", "loaded"} => inputs = <<>> /\ named = [n \in {} |-> n]
  /\ phase # "sent" => parameters = <<>>
  /\ phase \notin {"listed", "loaded"} =>
       /\ Len(inputs) = Len(signature)
       /\ \A i, j \in 1 .. Len(signature) :
            signature[i].kind = "table" /\ signature[j].kind = "table" => i = j
       /\ \A i \in 1 .. Len(signature) :
            /\ inputs[i].of = IF signature[i].kind = "table" THEN Null ELSE signature[i].name
            /\ inputs[i].type \in TypesOf(signature[i])
       /\ \A f \in Range(function) :
            f.name \in DOMAIN named => named[f.name].of = f.name /\ named[f.name].type \in TypesOf(f)

\* The inductive invariant.
FunctionInv == TypeOK /\ CallInv /\ ParametersAsGiven

=============================================================================
