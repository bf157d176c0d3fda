------------------------------ MODULE TypeDefs ------------------------------
(***************************************************************************)
(* The TypeScript types that the macro writes for Rust types, in           *)
(* parameters, in results and in fields.  A TypeScript type is the set of  *)
(* its alternatives.                                                       *)
(***************************************************************************)
EXTENDS Conversions, FiniteSets

CONSTANT Injected  \* Env, This or a Reference of the class: no JS arguments

Only(name) == {<<name>>}

RECURSIVE TsOf(_, _)

-----------------------------------------------------------------------------
(* Option<T>, where undefined is a way to say null but in results          *)
TsOfOption(type, returned) ==
    TsOf(type.of, FALSE) \cup Only("null")
        \cup (IF returned THEN {} ELSE Only("undefined"))

(* Not like gen_field: a nullable field may be left out too.               *)
GenField_Optional(type, field) ==
    IF IsOption(field)
    THEN [ts |-> TsOf(field.of, FALSE)
                     \cup (IF type.nullable THEN Only("null") ELSE {}),
          optional |-> TRUE]
    ELSE [ts |-> TsOf(field, FALSE), optional |-> FALSE]

(* A field: "name?: T" for Option<T>, or "name: T | null" with             *)
(* use_nullable                                                            *)
GenField(type, field) ==
    IF ~IsOption(field) THEN [ts |-> TsOf(field, FALSE), optional |-> FALSE]
    ELSE IF type.nullable
    THEN [ts |-> TsOf(field.of, FALSE) \cup Only("null"), optional |-> FALSE]
    ELSE [ts |-> TsOf(field.of, FALSE), optional |-> TRUE]

GenFields(type, fields) ==
    [k \in {Names[i] : i \in DOMAIN fields} |->
        GenField(type, fields[CHOOSE i \in DOMAIN fields : Names[i] = k])]

(* gen_ts_class, of objects, arrays and enums with data                    *)
GenObject(type) == {<<"interface", GenFields(type, type.of)>>}

GenArray(type) ==
    {<<"tuple", [i \in DOMAIN type.of |-> GenField(type, type.of[i])]>>}

GenVariants(type) ==
    {LET fields == GenFields(type, type.of[tag])
     IN <<"interface",
          [k \in DOMAIN fields \cup {"type"} |->
              IF k = "type"
              THEN [ts |-> {<<"enum", {String(tag)}>>}, optional |-> FALSE]
              ELSE fields[k]]>> : tag \in DOMAIN type.of}

(* KNOWN_TYPES, whose arguments are neither results nor fields             *)
KnownType(type) ==
    CASE type.kind = "bool" -> Only("boolean")
      [] type.kind = "f64" -> Only("number")
      [] type.kind = "String" -> Only("string")
      [] type.kind = "Null" -> Only("null")
      [] type.kind = "Undefined" -> Only("undefined")
      [] type.kind \in {"Rc", "Mutex"} -> TsOf(type.of, FALSE)
      [] type.kind = "Vec" -> {<<"Array", TsOf(type.of, FALSE)>>}
      [] type.kind = "map" -> {<<"Record", TsOf(type.of, FALSE)>>}
      [] type.kind = "set" -> {<<"Set", TsOf(type.of, FALSE)>>}
      [] type.kind = "either" ->
            UNION {TsOf(type.of[i], FALSE) : i \in DOMAIN type.of}

(* ty_to_ts_type                                                           *)
TsOf(type, returned) ==
    CASE type.kind = "Option" -> TsOfOption(type, returned)
      [] type.kind = "tuple" ->
            {<<"tuple", [i \in DOMAIN type.of |->
                            [ts |-> TsOf(type.of[i], FALSE), optional |-> FALSE]]>>}
      [] type.kind = "plain" -> {<<"enum", {type.of[v] : v \in DOMAIN type.of}>>}
      [] type.kind = "transparent" -> TsOf(type.of, FALSE)
      [] type.kind = "struct" -> GenObject(type)
      [] type.kind = "array" -> GenArray(type)
      [] type.kind = "enum" -> GenVariants(type)
      [] OTHER -> KnownType(type)

(* FnArgList: "arg?: T" for the options after the last required argument   *)
FnArgList(types) ==
    [i \in DOMAIN types |->
        [ts |-> TsOf(types[i], FALSE),
         optional |-> \A j \in i .. Len(types) : IsOption(types[j])]]

(* What is injected is no argument in TypeScript (gen_ts_func_args) ...    *)
Declared(params) == SelectSeq(params, LAMBDA param : param # Injected)

(* ... and has no index among those that the function reads                *)
(* (gen_arg_conversions).                                                  *)
ArgIndex(params, i) ==
    Cardinality({j \in 1 .. i : params[j] # Injected})

-----------------------------------------------------------------------------
(* TypeScript: the values of a type                                        *)
RECURSIVE InTs(_, _)

InAlternative(js, ts) ==
    CASE ts[1] = "enum" -> js \in ts[2]
      [] ts[1] = "Array" ->
            IsArray(js) /\ \A i \in DOMAIN js[2] : InTs(js[2][i], ts[2])
      [] ts[1] = "tuple" ->
            /\ IsArray(js)
            /\ Len(js[2]) <= Len(ts[2])
            /\ \A i \in DOMAIN ts[2] :
                  IF i > Len(js[2]) THEN ts[2][i].optional
                  ELSE \/ InTs(js[2][i], ts[2][i].ts)
                       \/ ts[2][i].optional /\ js[2][i] = Undefined
      [] ts[1] = "Record" ->
            js[1] = "object" /\ \A k \in DOMAIN js[2] : InTs(js[2][k], ts[2])
      [] ts[1] = "Set" -> js[1] = "set" /\ \A item \in js[2] : InTs(item, ts[2])
      [] ts[1] = "interface" ->
            /\ js[1] = "object"
            /\ \A k \in DOMAIN ts[2] :
                  IF k \notin DOMAIN js[2] THEN ts[2][k].optional
                  ELSE \/ InTs(js[2][k], ts[2][k].ts)
                       \/ ts[2][k].optional /\ js[2][k] = Undefined
      [] OTHER -> js[1] = ts[1]

InTs(js, ts) == \E alternative \in ts : InAlternative(js, alternative)

RECURSIVE Members(_)

MayOmit(part) == Members(part.ts) \cup (IF part.optional THEN {Undefined} ELSE {})

(* The prefixes of a list whose optional ends are left out, and a value of *)
(* each part that there is                                                 *)
Lists(parts) ==
    UNION {CASE n = 0 -> {<<>>}
             [] n = 1 -> {<<a>> : a \in MayOmit(parts[1])}
             [] n = 2 -> MayOmit(parts[1]) \X MayOmit(parts[2]) :
               n \in {k \in 0 .. Len(parts) :
                          \A i \in k + 1 .. Len(parts) : parts[i].optional}}

(* Some of the values of each alternative                                  *)
Examples(ts) ==
    CASE ts[1] = "boolean" -> {Boolean(TRUE), Boolean(FALSE)}
      [] ts[1] = "number" -> {Number(0), Number(1)}
      [] ts[1] = "string" -> {String("s")}
      [] ts[1] \in {"null", "undefined"} -> {ts}
      [] ts[1] = "enum" -> ts[2]
      [] ts[1] = "Array" -> {Array(<<>>)} \cup {Array(<<m>>) : m \in Members(ts[2])}
      [] ts[1] = "tuple" -> {Array(list) : list \in Lists(ts[2])}
      [] ts[1] = "Record" ->
            UNION {{Object(props) : props \in [keys -> Members(ts[2])]} :
                       keys \in SUBSET {Names[1]}}
      [] ts[1] = "Set" -> {SetOf({})} \cup {SetOf({m}) : m \in Members(ts[2])}
      [] ts[1] = "interface" ->
            LET all == UNION {MayOmit(ts[2][k]) : k \in DOMAIN ts[2]}
            IN UNION {{Object(props) :
                          props \in {given \in [keys -> all] :
                              \A k \in keys : given[k] \in MayOmit(ts[2][k])}} :
                          keys \in {ks \in SUBSET DOMAIN ts[2] :
                              \A k \in DOMAIN ts[2] \ ks : ts[2][k].optional}}

Members(ts) == UNION {Examples(alternative) : alternative \in ts}

-----------------------------------------------------------------------------
(* What TypeScript lets pass and the conversions refuse: a field that must *)
(* be there is there as undefined, since its type takes that; and in an    *)
(* #[napi(array)] an optional element is undefined, not left out.          *)
RECURSIVE Readable(_)
ReadableFields(type, fields) ==
    \A i \in DOMAIN fields :
        /\ Readable(fields[i])
        /\ AlwaysSet(type, fields[i]) =>
              <<"undefined">> \notin GenField(type, fields[i]).ts

Readable(type) ==
    CASE type.kind \in {"Option", "Vec", "map", "set", "Rc", "Mutex", "transparent"} ->
            Readable(type.of)
      [] type.kind \in {"tuple", "either"} ->
            \A i \in DOMAIN type.of : Readable(type.of[i])
      [] type.kind = "array" ->
            \A i \in DOMAIN type.of :
                Readable(type.of[i]) /\ AlwaysSet(type, type.of[i])
      [] type.kind = "struct" -> ReadableFields(type, type.of)
      [] type.kind = "enum" ->
            \A tag \in DOMAIN type.of : ReadableFields(type, type.of[tag])
      [] OTHER -> TRUE

(* A value that Rust returns is of the type declared for it, and a value   *)
(* of the type declared for a parameter is read without an error: the two  *)
(* generators of the macro, of code and of declarations, agree.            *)
DeclaredTrue(type) ==
    /\ \A v \in Values(type) : InTs(ToJs(type, v), TsOf(type, TRUE))
    /\ Readable(type) =>
          \A js \in Members(TsOf(type, FALSE)) : FromJs(type, js).ok

(* A call that the signature allows, options at its end left out or not,   *)
(* gives each parameter an argument that it reads, wherever Env, This or a *)
(* Reference stand among the parameters.                                   *)
CallsAreTaken(types) ==
    \A at \in 0 .. Len(types) :
        LET params == SubSeq(types, 1, at) \o <<Injected>>
                          \o SubSeq(types, at + 1, Len(types))
        IN \A args \in Lists(FnArgList(Declared(params))) :
               \A i \in DOMAIN params :
                   params[i] # Injected =>
                       LET n == ArgIndex(params, i)
                       IN FromJs(params[i],
                                 IF n > Len(args) THEN Undefined ELSE args[n]).ok

TypesTrue(type) ==
    /\ DeclaredTrue(type)
    /\ type.kind = "tuple" /\ Readable(type) => CallsAreTaken(type.of)

=============================================================================
