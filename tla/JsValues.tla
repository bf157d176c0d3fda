------------------------------- MODULE JsValues -------------------------------
(***************************************************************************)
(* The JavaScript values that N-API gives to native code, as the           *)
(* conversions see them, and the Result of reading one.                    *)
(***************************************************************************)
EXTENDS Naturals, Sequences

CONSTANT Indices  \* the keys of an array's elements, in order

Ok(v) == [ok |-> TRUE, value |-> v]
Err == [ok |-> FALSE]

-----------------------------------------------------------------------------
(* A hole in an array reads as undefined, and is not told from one.        *)
Undefined == <<"undefined">>
Null == <<"null">>
Boolean(b) == <<"boolean", b>>
Number(n) == <<"number", n>>
BigInt(n) == <<"bigint", n>>
String(s) == <<"string", s>>
Array(items) == <<"array", items>>
Object(props) == <<"object", props>>
SetOf(items) == <<"set", items>>

(* napi_typeof                                                             *)
TypeOf(js) == IF js[1] \in {"array", "set"} THEN "object" ELSE js[1]

IsArray(js) == js[1] = "array"

(* The properties that a value has of its own, as napi_get_property and    *)
(* napi_get_property_names see them; undefined and null have none to ask.  *)
Props(js) ==
    IF js[1] = "object" THEN js[2]
    ELSE IF IsArray(js)
    THEN [k \in {Indices[i] : i \in DOMAIN js[2]} |->
              js[2][CHOOSE i \in DOMAIN Indices : Indices[i] = k]]
    ELSE <<>>

NoProperties(js) == js \in {Undefined, Null}

(* What was read, all of it or nothing                                     *)
All(read) ==
    IF \E i \in DOMAIN read : ~read[i].ok THEN Err
    ELSE Ok([i \in DOMAIN read |-> read[i].value])

=============================================================================
