----------------------------- MODULE NativeCall -----------------------------
(***************************************************************************)
(* Calls between JavaScript and Rust on the JS thread, and what becomes of *)
(* an exception on the way: the code that #[napi] writes around a          *)
(* function, Function::call and Function::apply and the closures made of   *)
(* callback arguments, and Error, which keeps the JavaScript value that it *)
(* was made of by reference.                                               *)
(***************************************************************************)
EXTENDS Naturals, Sequences, FiniteSets, SequencesExt

CONSTANTS
    MaxDepth,   \* Rust functions on the stack
    MaxErrors,  \* Errors that Rust code holds, in its frames or elsewhere
    MaxCauses,  \* length of the chains of causes that Rust code makes
    Refs,       \* the references of N-API
    Thrown      \* the kinds of values that JavaScript functions throw

ASSUME NativeCallAssumption ==
    /\ MaxDepth \in Nat /\ MaxErrors \in Nat /\ MaxCauses \in Nat \ {0}
    /\ Refs \subseteq Nat \ {0} /\ IsFiniteSet(Refs)
    /\ Thrown \subseteq {"error", "caused", "oddcause", "hostile",
                         "string", "symbol", "object"}

VARIABLES
    who,       \* "js" or "rust": whose code runs, on top of the stack
    stack,     \* the Rust functions that have not returned
    pending,   \* the exception that N-API has pending, or that JS unwinds with
    errors,    \* the Errors that Rust code holds, each at a place of its own
    errorRefs, \* of each reference of N-API, the value and the count
    thrown     \* the value that was thrown when pending came to be

callVars == <<who, stack, pending, errors, errorRefs, thrown>>

-----------------------------------------------------------------------------
(* JavaScript values that are thrown: Errors, one with a cause and one     *)
(* whose cause is a symbol, one whose toString raises; values that are not *)
(* Errors; and those that are made of an Error, with its reason and cause. *)
None == <<"none">>
Error == <<"error">>
Raised == <<"raised">>
Made(reason, cause) == <<"made", reason, cause>>

IsError(v) ==
    v[1] \in {"error", "caused", "oddcause", "hostile", "raised", "made"}

IsObject(v) == IsError(v) \/ v = <<"object">>

(* Strings are made of symbols, and of the hostile one, by raising.        *)
CoerceRaises(v) == v \in {<<"symbol">>, <<"hostile">>}

Cause(v) ==
    CASE v \in {<<"caused">>, <<"object">>} -> Error
      [] v = <<"oddcause">> -> <<"symbol">>
      [] v[1] = "made" -> v[3]
      [] OTHER -> None

-----------------------------------------------------------------------------
(* An Error is the sequence of itself and its causes; raw is 0 or the      *)
(* reference to the value that it was made of.                             *)
Reason(v) == IF CoerceRaises(v) THEN <<"">> ELSE v

Free == {r \in Refs : errorRefs[r].count = 0}

(* The value, and the values of extract_error_cause: none when to get them *)
(* raises, an exception which is cleared with the Error made of it, nor of *)
(* a value that is not an object.                                          *)
Chain(v) ==
    IF ~IsObject(v) \/ CoerceRaises(v) \/ Cause(v) = None THEN <<v>>
    ELSE IF Cause(Cause(v)) = None THEN <<v, Cause(v)>>
    ELSE <<v, Cause(v), Cause(Cause(v))>>

(* From<Unknown>, one reference each; what coercing a symbol raises stays  *)
(* pending.                                                                *)
RawsFor(values) == [i \in DOMAIN values |-> SetToSeq(Free)[i]]

ErrorFrom(v, origin) ==
    LET values == Chain(v)
    IN [status |-> "GenericFailure", origin |-> origin,
        chain |-> [i \in DOMAIN values |->
                      [raw |-> RawsFor(values)[i],
                       reason |-> Reason(values[i])]]]

RefsFrom(v) ==
    LET values == Chain(v)
        raws == RawsFor(values)
    IN [r \in Refs |->
           IF \E i \in DOMAIN raws : raws[i] = r
           THEN [value |-> values[CHOOSE i \in DOMAIN raws : raws[i] = r],
                 count |-> 1]
           ELSE errorRefs[r]]

LeavesPending(v) == \E i \in DOMAIN Chain(v) : Chain(v)[i] = <<"symbol">>

(* Error::new                                                              *)
NewError(status, reason, causes) ==
    [status |-> status, origin |-> Made(reason, None),
     chain |-> <<[raw |-> 0, reason |-> reason]>> \o causes]

(* An Error that is made goes to a place where there is none.              *)
Slots == 1 .. MaxErrors
NoError == [status |-> "none", origin |-> None, chain |-> <<>>]
Holding == {i \in Slots : errors[i] # NoError}
HasSlot == \E i \in Slots : errors[i] = NoError
FreeSlot == CHOOSE i \in Slots : errors[i] = NoError
Keep(error) == errors' = [errors EXCEPT ![FreeSlot] = error]

(* An Error without its cause                                              *)
Alone(chain) == <<Head(chain)>>

(* Where in a chain of causes a reference is, and how often                *)
Positions(r, chain) == {k \in DOMAIN chain : chain[k].raw = r}
Times(r, chain) == Cardinality(Positions(r, chain))

(* Not like Drop: into_value has taken the references off the count, and   *)
(* Drop does again.                                                        *)
Released_Twice(chain) ==
    [r \in Refs |-> [errorRefs[r] EXCEPT !.count = @ - 2 * Times(r, chain)]]

(* Drop, of the Error and its causes: unref, and delete when that was the  *)
(* last one                                                                *)
Released(chain) ==
    [r \in Refs |->
        IF errorRefs[r].count = Times(r, chain)
        THEN [value |-> None, count |-> 0]
        ELSE [errorRefs[r] EXCEPT !.count = @ - Times(r, chain)]]

(* Not like into_value: the Error is always made anew.                     *)
IntoValue_Anew(error) == Made(error.chain[1].reason, None)

(* to_napi_value of the cause: the value referred to, whatever that is, or *)
(* one made with the reason and the cause's own cause.                     *)
CauseValue(chain) ==
    LET from[k \in 2 .. Len(chain) + 1] ==
            IF k > Len(chain) THEN None
            ELSE IF chain[k].raw # 0 THEN errorRefs[chain[k].raw].value
            ELSE Made(chain[k].reason, from[k + 1])
    IN from[2]

(* JsError::into_value: the value itself if that is an Error, or a new one *)
(* with the reason and, if there is one, the cause.                        *)
IntoValue(error) ==
    LET first == error.chain[1]
    IN IF first.raw # 0 /\ IsError(errorRefs[first.raw].value)
       THEN errorRefs[first.raw].value
       ELSE Made(first.reason, CauseValue(error.chain))

-----------------------------------------------------------------------------
CallInit ==
    /\ who = "js"
    /\ stack = <<>>
    /\ pending = None
    /\ errors = [i \in Slots |-> NoError]
    /\ errorRefs = [r \in Refs |-> [value |-> None, count |-> 0]]
    /\ thrown = None

(* throw_into of an Error that the function, which is left, ends with: not *)
(* one that says an exception is pending; one that is pending goes first.  *)
ThrowInto(error) ==
    LET kept == error.status = "PendingException" \/ pending # None
    IN /\ who' = "js"
       /\ pending' = IF kept THEN pending ELSE IntoValue(error)
       /\ thrown' = IF kept THEN thrown ELSE error.origin

InJs == who = "js" /\ pending = None
InRust == who = "rust"

(* JavaScript calls a Rust function whose argument is as it should be, is  *)
(* not of its type (or not an array), is an array with an element that is  *)
(* not, or raises when it is read; and the function is strict, says        *)
(* return_if_invalid, or neither.  Promise::validate answers a value that  *)
(* is no promise with a rejected promise, which is returned as it is.      *)
Refuses(check, arg) ==
    IF check = "return_if_invalid" THEN FALSE
    ELSE \/ arg \in {"invalid", "element"}
         \/ arg = "no_promise" /\ check = "none"

CallRust(check, arg) ==
    /\ InJs
    /\ IF arg = "valid"
       THEN /\ Len(stack) < MaxDepth
            /\ stack' = Append(stack, [via |-> "none", told |-> FALSE])
            /\ who' = "rust"
            /\ UNCHANGED <<pending, thrown>>
       ELSE /\ UNCHANGED stack
            /\ IF arg = "raises"
               THEN who' = "js" /\ pending' = Raised /\ thrown' = Raised
               ELSE IF Refuses(check, arg)
               THEN ThrowInto(NewError("GenericFailure", <<"rust">>, <<>>))
               ELSE UNCHANGED <<who, pending, thrown>>
    /\ UNCHANGED <<errors, errorRefs>>

(* The function on top of the stack goes on: does it know what is pending? *)
BackInRust(told) ==
    [stack EXCEPT ![Len(stack)] = [via |-> "none", told |-> told]]

(* Not like the macro check_pending_exception: the exception is read, and  *)
(* stays.                                                                  *)
Receive_Uncleared(via, v, origin) ==
    /\ who' = "rust"
    /\ HasSlot
    /\ Cardinality(Free) >= Len(Chain(v))
    /\ Keep(ErrorFrom(v, origin))
    /\ errorRefs' = RefsFrom(v)
    /\ pending' = v
    /\ thrown' = origin
    /\ stack' = BackInRust(FALSE)

(* What a call of a JavaScript function that raised gives: call and the    *)
(* closures take the exception out of N-API and make an Error of it, apply *)
(* (bind and new_instance alike) only one that says so.                    *)
Receive(via, v, origin) ==
    /\ who' = "rust"
    /\ HasSlot
    /\ IF via = "call"
       THEN /\ Cardinality(Free) >= Len(Chain(v))
            /\ Keep(ErrorFrom(v, origin))
            /\ errorRefs' = RefsFrom(v)
            /\ pending' = IF LeavesPending(v) THEN Raised ELSE None
            /\ thrown' = IF LeavesPending(v) THEN Raised ELSE None
            /\ stack' = BackInRust(FALSE)
       ELSE /\ Keep(NewError("PendingException", <<"rust">>, <<>>))
            /\ pending' = v
            /\ thrown' = origin
            /\ stack' = BackInRust(TRUE)
            /\ UNCHANGED errorRefs

(* Rust calls a JavaScript function: N-API does not while an exception is  *)
(* pending, and reports that one.                                          *)
CallJs(via) ==
    /\ InRust
    /\ IF pending # None THEN Receive(via, pending, thrown)
       ELSE /\ who' = "js"
            /\ stack' = [stack EXCEPT ![Len(stack)].via = via]
            /\ UNCHANGED <<pending, errors, errorRefs, thrown>>

(* The function returns.                                                   *)
JsReturns ==
    /\ InJs
    /\ stack # <<>>
    /\ who' = "rust"
    /\ stack' = [stack EXCEPT ![Len(stack)].via = "none"]
    /\ UNCHANGED <<pending, errors, errorRefs, thrown>>

(* The function throws, or what it called raises and it does not catch it. *)
JsThrows(v) ==
    /\ InJs
    /\ stack # <<>>
    /\ Receive(Last(stack).via, v, v)

JsUnwinds ==
    /\ who = "js" /\ pending # None
    /\ stack # <<>>
    /\ Receive(Last(stack).via, pending, thrown)

JsCatches ==
    /\ who = "js" /\ pending # None
    /\ pending' = None
    /\ thrown' = None
    /\ UNCHANGED <<who, stack, errors, errorRefs>>

-----------------------------------------------------------------------------
(* What Rust code does with Errors: makes one, gives one another as cause  *)
MakeError ==
    /\ InRust
    /\ HasSlot
    /\ Keep(NewError("GenericFailure", <<"rust">>, <<>>))
    /\ UNCHANGED <<who, stack, pending, errorRefs, thrown>>

(* instead of the cause that it had, ...                                   *)
SetCause(i, j) ==
    /\ InRust
    /\ i # j
    /\ Len(errors[j].chain) < MaxCauses
    /\ Len(Chain(IntoValue(errors[j]))) < MaxCauses
    /\ errors' = [errors EXCEPT ![i].chain = Alone(@) \o errors[j].chain,
                                ![j] = NoError]
    /\ errorRefs' = Released(Tail(errors[i].chain))
    /\ UNCHANGED <<who, stack, pending, thrown>>

(* Not like try_clone: the reference is not counted again.                 *)
CloneRefs_Shared(error) == errorRefs

(* try_clone takes a reference with it, and leaves the cause.              *)
CloneRefs(error) ==
    IF error.chain[1].raw = 0 THEN errorRefs
    ELSE [errorRefs EXCEPT ![error.chain[1].raw].count = @ + 1]

CloneError(i) ==
    /\ InRust
    /\ HasSlot
    /\ Keep([errors[i] EXCEPT !.chain = Alone(@)])
    /\ errorRefs' = CloneRefs(errors[i])
    /\ UNCHANGED <<who, stack, pending, thrown>>

(* drops it, or gives it to JavaScript as a value (to_napi_value), ...     *)
DropError(i) ==
    /\ InRust
    /\ errors' = [errors EXCEPT ![i] = NoError]
    /\ errorRefs' = Released(errors[i].chain)
    /\ UNCHANGED <<who, stack, pending, thrown>>

(* and returns: whatever is pending is then thrown in JavaScript, ...      *)
ReturnOk ==
    /\ InRust
    /\ who' = "js"
    /\ stack' = Front(stack)
    /\ UNCHANGED <<pending, errors, errorRefs, thrown>>

(* or with an Error, which ends there.                                     *)
ReturnErr(i) ==
    /\ InRust
    /\ stack' = Front(stack)
    /\ ThrowInto(errors[i])
    /\ errors' = [errors EXCEPT ![i] = NoError]
    /\ errorRefs' = Released(errors[i].chain)

(* A panic is an Error where catch_unwind was asked for.                   *)
Panic ==
    /\ InRust
    /\ stack' = Front(stack)
    /\ ThrowInto(NewError("GenericFailure", <<"rust">>, <<>>))
    /\ UNCHANGED <<errors, errorRefs>>

CallNext ==
    \/ \E check \in {"none", "strict", "return_if_invalid"},
          arg \in {"valid", "invalid", "element", "raises", "no_promise"} :
           CallRust(check, arg)
    \/ \E via \in {"call", "apply"} : CallJs(via)
    \/ JsReturns \/ JsUnwinds \/ JsCatches
    \/ \E kind \in Thrown : JsThrows(<<kind>>)
    \/ MakeError \/ ReturnOk \/ Panic
    \/ \E i \in Holding :
           \/ CloneError(i) \/ DropError(i) \/ ReturnErr(i)
           \/ \E j \in Holding : SetCause(i, j)

CallSpec == CallInit /\ [][CallNext]_callVars

-----------------------------------------------------------------------------
CallTypeOK ==
    /\ who \in {"js", "rust"}
    /\ who = "rust" => stack # <<>>
    /\ stack \in Seq([via : {"none", "call", "apply"}, told : BOOLEAN])
    /\ Len(stack) <= MaxDepth
    /\ DOMAIN errors = Slots
    /\ \A i \in Holding : errors[i].chain # <<>>
    /\ \A i \in Slots : \A k \in DOMAIN errors[i].chain :
           errors[i].chain[k].raw \in Refs \cup {0}
    /\ \A r \in Refs : errorRefs[r].count \in Nat

(* The places where Rust has a reference: in which Error, and where in its *)
(* chain                                                                   *)
HeldAt(r, held) == UNION {{i} \X Positions(r, held[i].chain) : i \in Slots}

(* The count of an error reference is the number of Errors that have it,   *)
(* as their own or as a cause's: whatever was cloned, dropped, thrown,     *)
(* given away or made a cause, none is released twice, none is read after  *)
(* it was deleted, and none is left behind (error.rs, Drop, try_clone,     *)
(* into_value).                                                            *)
RefsAreHeld ==
    \A r \in Refs :
        /\ errorRefs[r].count = Cardinality(HeldAt(r, errors))
        /\ errorRefs[r].count = 0 <=> errorRefs[r].value = None

(* What is caught for a value that was thrown: that one if it is an Error, *)
(* or else one made of it, with its reason; the cause is the one that the  *)
(* value has unless Rust code left or set it.                              *)
Same(v, caught) ==
    \/ caught = v
    \/ ~IsError(v) /\ caught[1] = "made" /\ caught[2] = Reason(v)
    \/ v[1] = "made" /\ caught[1] = "made" /\ caught[2] = v[2]

(* What JavaScript catches is what was thrown, through however many layers *)
(* of Rust and JavaScript, whether Rust code held the Error, cloned it or  *)
(* let the exception pend, and whatever else it held meanwhile.            *)
ThrownIsCaught == who = "js" /\ pending # None => Same(thrown, pending)

(* While Rust code runs no exception is pending that it does not know of:  *)
(* the last call it made reported it as PendingException; or it is what    *)
(* was raised by making a string of a symbol, thrown itself or the cause   *)
(* of what was, which nothing tells.                                       *)
PendingIsTold ==
    who = "rust" /\ pending # None => Last(stack).told \/ pending = Raised

(* Errors cross the layers of Rust and JavaScript as what they are.        *)
ErrorsAreTold == ThrownIsCaught /\ PendingIsTold

=============================================================================
