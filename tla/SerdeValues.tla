----------------------------- MODULE SerdeValues -----------------------------
(***************************************************************************)
(* Data that goes to JavaScript through serde: Env::to_js_value with the   *)
(* serializer Ser, Env::from_js_value with the deserializer De, and the    *)
(* conversions of serde_json::Value.  A shape says which Serializer method *)
(* a derived Serialize calls, and which Deserializer method and visitor a  *)
(* derived Deserialize has; those are serde's.                             *)
(***************************************************************************)
EXTENDS Conversions

-----------------------------------------------------------------------------
(* A variant without data, or data without a value                         *)
IsUnit(shape) == shape.kind = "unit"

RECURSIVE SerToJs(_, _)

(* Not like the serializer: elements are set one after the other, but the  *)
(* index is that of the one before.                                        *)
SerSeq_SameIndex(shapes, v) ==
    Array([i \in DOMAIN v |->
              IF i = Len(v) THEN SerToJs(shapes[i], v[i]) ELSE Undefined])

(* serialize_seq, tuple and tuple_struct, and serialize_element            *)
SerSeq(shapes, v) == Array([i \in DOMAIN v |-> SerToJs(shapes[i], v[i])])

(* serialize_map, of keys that are strings                                 *)
SerMap(shape, v) == Object([k \in DOMAIN v |-> SerToJs(shape.of, v[k])])

(* serialize_struct, and serialize_field: an Option is null.               *)
SerStruct(fields, v) ==
    Object([k \in {Names[i] : i \in DOMAIN fields} |->
               LET i == CHOOSE n \in DOMAIN fields : Names[n] = k
               IN SerToJs(fields[i], v[i])])

(* An enum is externally tagged, but for a variant of several fields: the  *)
(* object that has its name is dropped, and its array, or a new object     *)
(* with its fields, is all there is.                                       *)
SerTupleVariant(payload, v) == SerSeq(payload.of, v)
SerStructVariant(payload, v) == SerStruct(payload.of, v)

SerEnum(shape, v) ==
    LET payload == shape.of[v[1]]
    IN CASE IsUnit(payload) -> String(v[1])
         [] payload.kind = "newtype" ->
               Object([k \in {v[1]} |-> SerToJs(payload.of, v[2])])
         [] payload.kind = "tuple" -> SerTupleVariant(payload, v[2])
         [] payload.kind = "struct" -> SerStructVariant(payload, v[2])

SerToJs(shape, v) ==
    CASE shape.kind = "bool" -> Boolean(v)
      [] shape.kind = "i32" -> Number(v)
      [] shape.kind = "str" -> String(v)
      [] IsUnit(shape) -> Null
      [] shape.kind = "option" ->
            IF v = <<"None">> THEN Null ELSE SerToJs(shape.of, v[2])
      [] shape.kind = "newtype" -> SerToJs(shape.of, v)
      [] shape.kind = "seq" -> SerSeq([i \in DOMAIN v |-> shape.of], v)
      [] shape.kind = "tuple" -> SerSeq(shape.of, v)
      [] shape.kind = "map" -> SerMap(shape, v)
      [] shape.kind = "struct" -> SerStruct(shape.of, v)
      [] shape.kind = "enum" -> SerEnum(shape, v)

-----------------------------------------------------------------------------
RECURSIVE DeFromJs(_, _)

(* JsArrayAccess: the elements of an array, in order.  A tuple takes as    *)
(* many as it has, and nothing looks whether some are left.                *)
DeSeq(shapes, js) ==
    IF ~IsArray(js) \/ Len(js[2]) < Len(shapes) THEN Err
    ELSE All([i \in DOMAIN shapes |-> DeFromJs(shapes[i], js[2][i])])

(* JsObjectAccess: the enumerable properties, and what each holds; a Set   *)
(* has none.                                                               *)
IsMap(js) == TypeOf(js) = "object" /\ ~IsArray(js)

DeMap(shape, js) ==
    IF ~IsMap(js) THEN Err
    ELSE All([k \in Keys(js) |-> DeFromJs(shape.of, js[2][k])])

(* A derived struct: by name from an object, where a missing Option is     *)
(* None, or in order from an array.                                        *)
DeStruct(fields, js) ==
    IF IsArray(js) THEN DeSeq(fields, js)
    ELSE IF ~IsMap(js) THEN Err
    ELSE All([i \in DOMAIN fields |->
                 IF Names[i] \in Keys(js) THEN DeFromJs(fields[i], js[2][Names[i]])
                 ELSE IF fields[i].kind = "option" THEN Ok(<<"None">>) ELSE Err])

(* deserialize_option                                                      *)
DeOption(shape, js) ==
    IF js \in {Undefined, Null} THEN Ok(<<"None">>) ELSE Some(DeFromJs(shape.of, js))

(* deserialize_enum: a string, or an object with one property              *)
DeVariant(js) ==
    IF js[1] = "string" THEN Ok(<<js[2], Undefined>>)
    ELSE IF TypeOf(js) = "object" /\ \E k \in Keys(js) : Keys(js) = {k}
    THEN LET k == CHOOSE name \in Keys(js) : TRUE IN Ok(<<k, Get(js, k)>>)
    ELSE Err

(* JsVariantAccess: what the kind of variant wants                         *)
DePayload(payload, named, js) ==
    IF IsUnit(payload)
    THEN IF named \/ js \in {Undefined, Null} THEN Ok(<<>>) ELSE Err
    ELSE IF named THEN Err
    ELSE CASE payload.kind = "newtype" -> DeFromJs(payload.of, js)
           [] payload.kind = "tuple" -> DeSeq(payload.of, js)
           [] payload.kind = "struct" -> DeStruct(payload.of, js)

DeEnum(shape, js) ==
    LET variant == DeVariant(js)
    IN IF ~variant.ok THEN Err
       ELSE LET name == variant.value[1]
            IN IF name \notin DOMAIN shape.of THEN Err
               ELSE LET payload == DePayload(shape.of[name], js[1] = "string",
                                             variant.value[2])
                    IN IF payload.ok THEN Ok(<<name, payload.value>>) ELSE Err

(* deserialize_any, up to the visitor of the shape                         *)
DeFromJs(shape, js) ==
    CASE shape.kind = "bool" -> BoolFromJs(js)
      [] shape.kind = "i32" -> F64FromJs(js)
      [] shape.kind = "str" -> StringFromJs(js)
      [] IsUnit(shape) -> IF js \in {Undefined, Null} THEN Ok(<<>>) ELSE Err
      [] shape.kind = "option" -> DeOption(shape, js)
      [] shape.kind = "newtype" -> DeFromJs(shape.of, js)
      [] shape.kind = "seq" ->
            IF ~IsArray(js) THEN Err
            ELSE DeSeq([i \in DOMAIN js[2] |-> shape.of], js)
      [] shape.kind = "tuple" -> DeSeq(shape.of, js)
      [] shape.kind = "map" -> DeMap(shape, js)
      [] shape.kind = "struct" -> DeStruct(shape.of, js)
      [] shape.kind = "enum" -> DeEnum(shape, js)

-----------------------------------------------------------------------------
(* serde_json::Value, as the JavaScript values that it is equal to         *)
RECURSIVE JsonFromJs(_)

(* Map<String, Value>: undefined properties are left out.                  *)
JsonMapFromJs(js) ==
    LET keys == {k \in Keys(js) : Get(js, k) # Undefined}
        read == All([k \in keys |-> JsonFromJs(js[2][k])])
    IN IF read.ok THEN Ok(Object(read.value)) ELSE Err

JsonFromJs(js) ==
    CASE js[1] \in {"null", "boolean", "number", "string"} -> Ok(js)
      [] IsArray(js) ->
            LET read == All([i \in DOMAIN js[2] |-> JsonFromJs(js[2][i])])
            IN IF read.ok THEN Ok(Array(read.value)) ELSE Err
      [] IsMap(js) -> JsonMapFromJs(js)
      [] OTHER -> Err

-----------------------------------------------------------------------------
Plain == {[kind |-> kind] : kind \in {"bool", "i32", "str", "unit"}}

ShapesOver(inner, beside) ==
    [kind : {"option", "newtype", "seq", "map"}, of : inner]
        \cup [kind : {"tuple", "struct"}, of : inner \X beside]
        \cup [kind : {"enum"},
              of : {[tag \in {"full", Empty} |->
                        IF tag = Empty THEN [kind |-> "unit"] ELSE payload] :
                        payload \in [kind : {"newtype"}, of : inner]
                            \cup [kind : {"tuple", "struct"}, of : inner \X beside]}]

Shapes ==
    LET one == ShapesOver(Plain, Plain)
    IN Plain \cup one \cup ShapesOver(one, {[kind |-> "str"]})

RECURSIVE Data(_)
Fields(shapes) == Data(shapes[1]) \X Data(shapes[2])
Data(shape) ==
    CASE shape.kind = "bool" -> BOOLEAN
      [] shape.kind = "i32" -> {0, 1}
      [] shape.kind = "str" -> {"s"}
      [] shape.kind = "unit" -> {<<>>}
      [] shape.kind = "option" ->
            {<<"None">>} \cup {<<"Some", v>> : v \in Data(shape.of)}
      [] shape.kind = "newtype" -> Data(shape.of)
      [] shape.kind = "seq" -> {<<>>} \cup {<<v, v>> : v \in Data(shape.of)}
      [] shape.kind = "map" ->
            UNION {[keys -> Data(shape.of)] :
                       keys \in SUBSET {Names[i] : i \in DOMAIN Names}}
      [] shape.kind \in {"tuple", "struct"} -> Fields(shape.of)
      [] shape.kind = "enum" ->
            {<<Empty, <<>>>>} \cup
                {<<"full", v>> : v \in IF shape.of["full"].kind = "newtype"
                                       THEN Data(shape.of["full"].of)
                                       ELSE Fields(shape.of["full"].of)}

(* What a shape must be built of for its data to come back: null stands    *)
(* for None, and variants of several fields lose their name.               *)
RECURSIVE Carried(_)
Carried(shape) ==
    CASE shape.kind = "option" ->
            /\ Carried(shape.of)
            /\ \A v \in Data(shape.of) : SerToJs(shape.of, v) # Null
      [] shape.kind \in {"newtype", "seq", "map"} -> Carried(shape.of)
      [] shape.kind \in {"tuple", "struct"} ->
            \A i \in DOMAIN shape.of : Carried(shape.of[i])
      [] shape.kind = "enum" ->
            /\ shape.of["full"].kind = "newtype"
            /\ Carried(shape.of["full"].of)
      [] OTHER -> TRUE

(* What JSON.stringify makes of a value: a Set is an empty object, and     *)
(* undefined properties are left out.                                      *)
RECURSIVE Stringify(_)
Stringify(js) ==
    CASE IsArray(js) -> Array([i \in DOMAIN js[2] |-> Stringify(js[2][i])])
      [] IsMap(js) ->
            Object([k \in {key \in Keys(js) : Get(js, key) # Undefined} |->
                       Stringify(js[2][k])])
      [] js = Undefined -> Null
      [] OTHER -> js

(* Data of a shape comes back from JavaScript as it went there.            *)
SerdeComesBack(shape) ==
    Carried(shape) =>
        \A v \in Data(shape) : DeFromJs(shape, SerToJs(shape, v)) = Ok(v)

(* A JavaScript value is either refused as a serde_json::Value or the JSON *)
(* that JavaScript itself makes of it.                                     *)
JsonIsJs(type) ==
    \A v \in Values(type) :
        LET js == ToJs(type, v)
            json == JsonFromJs(js)
        IN json.ok => json.value = Stringify(js)

=============================================================================
