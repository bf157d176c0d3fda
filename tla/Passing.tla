------------------------------- MODULE Passing -------------------------------
(***************************************************************************)
(* What is passed in calls: a Rust function that gives JavaScript a value  *)
(* of some type, by the conversions of the library, of the macro or of     *)
(* serde, and takes it back.  Conversions call no code of the program, so  *)
(* that they are interleaved with nothing: they are looked at in the first *)
(* state of NativeCall.                                                    *)
(***************************************************************************)
EXTENDS SerdeValues, TypeDefs, Numbers, NativeCall

VARIABLE passed  \* the integer, or the type or shape of a value

Nothing == [what |-> "nothing"]

Subjects ==
    [what : {"integer"}, integer : BigInts]
        \cup [what : {"type"}, type : Types]
        \cup [what : {"shape"}, shape : Shapes]

PassingInit == CallInit /\ passed = Nothing

Passes ==
    /\ CallInit /\ passed = Nothing
    /\ passed' \in Subjects
    /\ UNCHANGED callVars

Passed ==
    /\ passed # Nothing
    /\ passed' = Nothing
    /\ UNCHANGED callVars

PassingNext ==
    \/ passed = Nothing /\ CallNext /\ UNCHANGED passed
    \/ Passes
    \/ Passed

PassingSpec == PassingInit /\ [][PassingNext]_<<callVars, passed>>

-----------------------------------------------------------------------------
(* Data comes back from JavaScript as it went there, however its type is   *)
(* nested, by the conversions of the library and the macro and by serde;   *)
(* serde_json::Value reads what they make as JSON.stringify does; and no   *)
(* integer is cut, wrapped or called exact when it is not, whatever its    *)
(* type and width (number.rs, bigint.rs, and the numbers of serde).        *)
DataComesBack ==
    /\ passed.what = "integer" => NumberIsExact(passed.integer)
    /\ passed.what = "type" => ComesBack(passed.type) /\ JsonIsJs(passed.type)
    /\ passed.what = "shape" => SerdeComesBack(passed.shape)

(* A value that Rust returns is of the TypeScript type that the macro      *)
(* declares for it, and arguments that the declared signature lets pass    *)
(* are read without an error: the generators of code and of declarations   *)
(* in the backend crate agree.                                             *)
TypesAreTrue == passed.what = "type" => TypesTrue(passed.type)

=============================================================================
