----------------------------- MODULE Conversions -----------------------------
(***************************************************************************)
(* The conversions between Rust and JavaScript values (ToNapiValue,        *)
(* FromNapiValue and ValidateNapiValue) of the types that #[napi]          *)
(* functions take and return: those of the library, and those that the     *)
(* macro writes for #[napi(object)], #[napi(array)], #[napi(transparent)]  *)
(* structs and for enums.  A type is a record that names its kind and what *)
(* it is built of.                                                         *)
(***************************************************************************)
EXTENDS JsValues

CONSTANTS
    Names,  \* the names of a struct's fields, in order, and keys of maps
    Empty   \* the variant of enums with data that has none

-----------------------------------------------------------------------------
(* Not like get: null is taken for a missing property as well.             *)
Get_SkipsNull(js, key) ==
    IF key \in DOMAIN Props(js) /\ Props(js)[key] # Null
    THEN Props(js)[key] ELSE Undefined

(* Object::get, where undefined stands for None, of a value on which       *)
(* N-API finds properties                                                  *)
Get(js, key) ==
    IF key \in DOMAIN Props(js) THEN Props(js)[key] ELSE Undefined

(* Object::keys                                                            *)
Keys(js) == DOMAIN Props(js)

IsOption(type) == type.kind = "Option"

(* An Option field is neither written nor read but when there is           *)
(* something, unless use_nullable says so.                                 *)
AlwaysSet(type, field) == ~IsOption(field) \/ type.nullable

RECURSIVE ToJs(_, _)
RECURSIVE Valid(_, _)
RECURSIVE FromJs(_, _)

Some(read) == IF read.ok THEN Ok(<<"Some", read.value>>) ELSE Err

-----------------------------------------------------------------------------
(* bool, f64, String, Null and Undefined: what typeof is to be             *)
ValueType(kind) ==
    CASE kind = "bool" -> "boolean"
      [] kind = "f64" -> "number"
      [] kind = "String" -> "string"
      [] kind = "Null" -> "null"
      [] kind = "Undefined" -> "undefined"
      [] OTHER -> "object"

BoolFromJs(js) == IF js[1] = "boolean" THEN Ok(js[2]) ELSE Err
F64FromJs(js) == IF js[1] = "number" THEN Ok(js[2]) ELSE Err
StringFromJs(js) == IF js[1] = "string" THEN Ok(js[2]) ELSE Err

(* Null and () take anything.                                              *)
NilFromJs(js) == Ok(<<>>)

(* Enums without data, of numbers or of strings                            *)
PlainToJs(type, v) == type.of[v]

PlainFromJs(type, js) ==
    IF \E v \in DOMAIN type.of : type.of[v] = js
    THEN Ok(CHOOSE v \in DOMAIN type.of : type.of[v] = js) ELSE Err

PlainValid(type, js) == \E v \in DOMAIN type.of : js[1] = type.of[v][1]

-----------------------------------------------------------------------------
OptionToJs(type, v) == IF v = <<"None">> THEN Null ELSE ToJs(type.of, v[2])

OptionValid(type, js) == js \in {Undefined, Null} \/ Valid(type.of, js)

OptionFromJs(type, js) ==
    IF js \in {Undefined, Null} THEN Ok(<<"None">>) ELSE Some(FromJs(type.of, js))

(* Rc, Arc and Mutex are what they hold.                                   *)
RcToJs(type, v) == ToJs(type.of, v)
RcFromJs(type, js) == FromJs(type.of, js)
MutexToJs(type, v) == ToJs(type.of, v)
MutexFromJs(type, js) == FromJs(type.of, js)

(* Vec and arrays                                                          *)
VecToJs(type, v) == Array([i \in DOMAIN v |-> ToJs(type.of, v[i])])

VecFromJs(type, js) ==
    IF ~IsArray(js) THEN Err
    ELSE All([i \in DOMAIN js[2] |-> FromJs(type.of, js[2][i])])

VecValid(js) == IsArray(js)

TupleToJs(type, v) == Array([i \in DOMAIN v |-> ToJs(type.of[i], v[i])])

TupleFromJs(type, js) ==
    IF ~IsArray(js) \/ Len(js[2]) < Len(type.of) THEN Err
    ELSE All([i \in DOMAIN type.of |-> FromJs(type.of[i], js[2][i])])

(* HashMap and BTreeMap                                                    *)
MapToJs(type, v) == Object([k \in DOMAIN v |-> ToJs(type.of, v[k])])

MapFromJs(type, js) ==
    IF NoProperties(js) THEN Err
    ELSE All([k \in {key \in Keys(js) : Get(js, key) # Undefined} |->
                 FromJs(type.of, Get(js, k))])

(* HashSet and BTreeSet: new Set(array), and what its iterator gives.      *)
SetToJs(type, v) == SetOf({ToJs(type.of, item) : item \in v})

SetFromJs(type, js) ==
    IF js[1] # "set" \/ \E item \in js[2] : ~FromJs(type.of, item).ok THEN Err
    ELSE Ok({FromJs(type.of, item).value : item \in js[2]})

(* Either: the first alternative that validates and reads the value        *)
EitherToJs(type, v) == ToJs(type.of[v[1]], v[2])

EitherFromJs(type, js) ==
    LET takes == {i \in DOMAIN type.of :
                     Valid(type.of[i], js) /\ FromJs(type.of[i], js).ok}
        first == CHOOSE i \in takes : \A j \in takes : i <= j
    IN IF takes = {} THEN Err
       ELSE Ok(<<first, FromJs(type.of[first], js).value>>)

EitherValid(type, js) == \E i \in DOMAIN type.of : Valid(type.of[i], js)

-----------------------------------------------------------------------------
(* #[napi(transparent)]                                                    *)
TransparentToJs(type, v) == ToJs(type.of, v)
TransparentFromJs(type, js) == FromJs(type.of, js)

(* The properties of a struct, whose fields are always set or only when    *)
(* there is something                                                      *)
FieldsToJs(type, fields, v) ==
    LET set == {i \in DOMAIN fields :
                    AlwaysSet(type, fields[i]) \/ v[i] # <<"None">>}
    IN [k \in {Names[i] : i \in set} |->
           LET i == CHOOSE n \in set : Names[n] = k IN ToJs(fields[i], v[i])]

(* The fields of a struct or variant, each read from what is there         *)
FieldsFromJs(type, fields, js) ==
    IF NoProperties(js) THEN Err
    ELSE All([i \in DOMAIN fields |->
                 LET prop == Get(js, Names[i])
                 IN IF AlwaysSet(type, fields[i])
                    THEN IF prop = Undefined THEN Err
                         ELSE FromJs(fields[i], prop)
                    ELSE IF prop = Undefined THEN Ok(<<"None">>)
                         ELSE Some(FromJs(fields[i].of, prop))])

(* #[napi(object)]                                                         *)
StructToJs(type, v) == Object(FieldsToJs(type, type.of, v))
StructFromJs(type, js) == FieldsFromJs(type, type.of, js)

(* #[napi(array)]: the array is as long as the struct has fields whatever  *)
(* is set; get past the end is None, and a hole is read as any element.    *)
ArrayToJs(type, v) ==
    Array([i \in DOMAIN type.of |->
              IF AlwaysSet(type, type.of[i]) \/ v[i] # <<"None">>
              THEN ToJs(type.of[i], v[i]) ELSE Undefined])

ElementFromJs(type, field, js, i) ==
    IF AlwaysSet(type, field)
    THEN IF i > Len(js[2]) THEN Err ELSE FromJs(field, js[2][i])
    ELSE IF i > Len(js[2]) THEN Ok(<<"None">>)
         ELSE Some(FromJs(field.of, js[2][i]))

ArrayFromJs(type, js) ==
    IF ~IsArray(js) THEN Err
    ELSE All([i \in DOMAIN type.of |-> ElementFromJs(type, type.of[i], js, i)])

(* Enums with data: an object with the name of the variant in "type"       *)
EnumToJs(type, v) ==
    LET props == FieldsToJs(type, type.of[v[1]], v[2])
    IN Object([k \in DOMAIN props \cup {"type"} |->
                  IF k = "type" THEN String(v[1]) ELSE props[k]])

EnumFromJs(type, js) ==
    LET tag == Get(js, "type")
    IN IF NoProperties(js) \/ tag[1] # "string" THEN Err
       ELSE IF tag[2] \notin DOMAIN type.of THEN Err
       ELSE LET inner == FieldsFromJs(type, type.of[tag[2]], js)
            IN IF inner.ok THEN Ok(<<tag[2], inner.value>>) ELSE Err

-----------------------------------------------------------------------------
(* to_napi_value                                                           *)
ToJs(type, v) ==
    CASE type.kind \in {"bool", "f64", "String"} -> <<ValueType(type.kind), v>>
      [] type.kind = "Null" -> Null
      [] type.kind = "Undefined" -> Undefined
      [] type.kind = "plain" -> PlainToJs(type, v)
      [] type.kind = "Option" -> OptionToJs(type, v)
      [] type.kind = "Rc" -> RcToJs(type, v)
      [] type.kind = "Mutex" -> MutexToJs(type, v)
      [] type.kind = "Vec" -> VecToJs(type, v)
      [] type.kind = "tuple" -> TupleToJs(type, v)
      [] type.kind = "map" -> MapToJs(type, v)
      [] type.kind = "set" -> SetToJs(type, v)
      [] type.kind = "either" -> EitherToJs(type, v)
      [] type.kind = "transparent" -> TransparentToJs(type, v)
      [] type.kind = "struct" -> StructToJs(type, v)
      [] type.kind = "array" -> ArrayToJs(type, v)
      [] type.kind = "enum" -> EnumToJs(type, v)

(* validate: the default one of the trait but for those that have their    *)
(* own                                                                     *)
Valid(type, js) ==
    CASE type.kind = "Option" -> OptionValid(type, js)
      [] type.kind = "Vec" -> VecValid(js)
      [] type.kind = "plain" -> PlainValid(type, js)
      [] type.kind = "either" -> EitherValid(type, js)
      [] type.kind \in {"Rc", "Mutex", "transparent"} -> Valid(type.of, js)
      [] OTHER -> TypeOf(js) = ValueType(type.kind)

(* from_napi_value                                                         *)
FromJs(type, js) ==
    CASE type.kind = "bool" -> BoolFromJs(js)
      [] type.kind = "f64" -> F64FromJs(js)
      [] type.kind = "String" -> StringFromJs(js)
      [] type.kind \in {"Null", "Undefined"} -> NilFromJs(js)
      [] type.kind = "plain" -> PlainFromJs(type, js)
      [] type.kind = "Option" -> OptionFromJs(type, js)
      [] type.kind = "Rc" -> RcFromJs(type, js)
      [] type.kind = "Mutex" -> MutexFromJs(type, js)
      [] type.kind = "Vec" -> VecFromJs(type, js)
      [] type.kind = "tuple" -> TupleFromJs(type, js)
      [] type.kind = "map" -> MapFromJs(type, js)
      [] type.kind = "set" -> SetFromJs(type, js)
      [] type.kind = "either" -> EitherFromJs(type, js)
      [] type.kind = "transparent" -> TransparentFromJs(type, js)
      [] type.kind = "struct" -> StructFromJs(type, js)
      [] type.kind = "array" -> ArrayFromJs(type, js)
      [] type.kind = "enum" -> EnumFromJs(type, js)

-----------------------------------------------------------------------------
(* The types up to two levels deep, and values of each                     *)
Leaves ==
    {[kind |-> kind] : kind \in {"bool", "f64", "String", "Null", "Undefined"}}
        \cup {[kind |-> "plain", of |-> [x |-> Number(0), y |-> Number(1)]],
              [kind |-> "plain", of |-> [x |-> String("s"), y |-> String("x")]]}

Over(inner, beside) ==
    [kind : {"Option", "Vec", "map", "set", "Rc", "Mutex", "transparent"},
     of : inner]
        \cup [kind : {"tuple", "either"}, of : inner \X beside]
        \cup [kind : {"array", "struct"}, of : inner \X beside,
              nullable : BOOLEAN]
        \cup [kind : {"enum"}, nullable : BOOLEAN,
              of : {[tag \in {"full", Empty} |->
                        IF tag = Empty THEN <<>> ELSE <<type>>] : type \in inner}]

OneLevel == Over(Leaves, Leaves)
Types == Leaves \cup OneLevel \cup Over(OneLevel, {[kind |-> "String"]})

RECURSIVE Values(_)

FieldValues(fields) ==
    CASE fields = <<>> -> {<<>>}
      [] Len(fields) = 1 -> {<<v>> : v \in Values(fields[1])}
      [] Len(fields) = 2 -> Values(fields[1]) \X Values(fields[2])

Values(type) ==
    CASE type.kind = "bool" -> BOOLEAN
      [] type.kind = "f64" -> {0, 1}
      [] type.kind = "String" -> {"s"}
      [] type.kind \in {"Null", "Undefined"} -> {<<>>}
      [] type.kind = "plain" -> DOMAIN type.of
      [] type.kind = "Option" ->
            {<<"None">>} \cup {<<"Some", v>> : v \in Values(type.of)}
      [] type.kind = "Vec" -> {<<>>} \cup {<<v>> : v \in Values(type.of)}
      [] type.kind = "set" -> {{}} \cup {{v} : v \in Values(type.of)}
                                   \cup {Values(type.of)}
      [] type.kind = "map" ->
            UNION {[keys -> Values(type.of)] :
                       keys \in SUBSET {Names[i] : i \in DOMAIN Names}}
      [] type.kind \in {"Rc", "Mutex", "transparent"} -> Values(type.of)
      [] type.kind = "either" ->
            UNION {{<<i, v>> : v \in Values(type.of[i])} : i \in DOMAIN type.of}
      [] type.kind \in {"tuple", "array", "struct"} -> FieldValues(type.of)
      [] type.kind = "enum" ->
            UNION {{<<tag, v>> : v \in FieldValues(type.of[tag])} :
                       tag \in DOMAIN type.of}

-----------------------------------------------------------------------------
(* No value of the type is undefined in JavaScript.                        *)
NeverUndefined(type) == \A v \in Values(type) : ToJs(type, v) # Undefined

(* A value of the second alternative is never taken for the first.         *)
ToldApart(first, second) ==
    \A v \in Values(second) :
        LET js == ToJs(second, v)
        IN ~(Valid(first, js) /\ FromJs(first, js).ok)

(* What a type must be built of for its values to come back: undefined     *)
(* stands for a missing property, and for None; a None of #[napi(array)]   *)
(* leaves a hole that only a type that takes undefined can read.           *)
RECURSIVE Transmits(_)
Transmits(type) ==
    CASE type.kind \in {"Option", "map"} ->
            Transmits(type.of) /\ NeverUndefined(type.of)
      [] type.kind \in {"Vec", "set", "Rc", "Mutex", "transparent"} ->
            Transmits(type.of)
      [] type.kind \in {"tuple", "array"} ->
            \A i \in DOMAIN type.of :
                /\ Transmits(type.of[i])
                /\ type.kind = "array" => AlwaysSet(type, type.of[i])
      [] type.kind = "either" ->
            /\ \A i \in DOMAIN type.of : Transmits(type.of[i])
            /\ ToldApart(type.of[1], type.of[2])
      [] type.kind = "struct" ->
            \A i \in DOMAIN type.of :
                Transmits(type.of[i]) /\ NeverUndefined(type.of[i])
      [] type.kind = "enum" ->
            \A tag \in DOMAIN type.of : \A i \in DOMAIN type.of[tag] :
                Transmits(type.of[tag][i]) /\ NeverUndefined(type.of[tag][i])
      [] OTHER -> TRUE

(* A value that is passed to JavaScript and back is read without error,    *)
(* and is the same to JavaScript when it is passed again, however the      *)
(* types are nested: nothing is dropped, taken for something else or read  *)
(* from the wrong place.                                                   *)
ComesBack(type) ==
    Transmits(type) =>
        \A v \in Values(type) :
            LET js == ToJs(type, v)
                back == FromJs(type, js)
            IN back.ok /\ ToJs(type, back.value) = js

=============================================================================
