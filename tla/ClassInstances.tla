---------------------------- MODULE ClassInstances ----------------------------
(***************************************************************************)
(* The Rust value T behind an object of a #[napi] class, from the          *)
(* constructor, a factory or Rust to the finalizer: callback_info.rs,      *)
(* js_values/class.rs, js_values/value_ref.rs, bindgen_runtime/mod.rs and  *)
(* what codegen/fn.rs generates around a method.  T is in a Box wrapped in *)
(* the object; REFERENCE_MAP finds the N-API reference of the wrap and the *)
(* finalize callbacks by its address.  Reference, SharedReference and      *)
(* WeakReference, the generator object of an async iterator and a running  *)
(* async method keep the object, or look at T.  All of it is on the JS     *)
(* thread; the order is up to the program and the garbage collector.       *)
(***************************************************************************)
EXTENDS Naturals, FiniteSetsExt

CONSTANTS
    Objects,    \* objects of the class
    MaxHolders, \* References, generators and async methods at a time
    MaxShares   \* objects made by share_with from one T

ASSUME BoundsAssumption == MaxHolders \in Nat /\ MaxShares \in Nat

VARIABLES
    js,         \* [Objects -> JsStates]: for JS and the garbage collector
    box,        \* [Objects -> BoxStates]: the Box of T
    ref,        \* [Objects -> RefStates]: the napi_ref of the wrap
    count,      \* its reference count
    mapped,     \* the objects whose T has an entry in REFERENCE_MAP
    refs,       \* the References to it, owners of SharedReferences included
    weak,       \* it has a WeakReference
    shares,     \* objects of share_with that its finalize callbacks will drop
    gen,        \* [Objects -> GenStates]: the generator object made from it
    call,       \* [Objects -> CallStates]: an async method of it
    flag,       \* ___CALL_FROM_FACTORY
    building,   \* the constructor called by a factory is running
    envGone,    \* the environment ended
    origin,     \* history: how it came to be, see Origins
    outlived,   \* history: the References there were when T was freed
    badDrops,   \* history: objects whose deleted napi_ref was used by a drop
    rustFailed  \* history: new_instance failed to construct

objVars == <<js, box, ref, count, mapped, origin>>
holders == <<refs, weak, shares, gen, call>>
process == <<flag, building, envGone, rustFailed>>
vars == <<objVars, holders, process, outlived, badDrops>>

JsStates == {"none", "held", "dropped", "collected"}
BoxStates == {"none", "wrapped", "freed", "abandoned", "leaked"}
RefStates == {"none", "live", "deleted"}

(* "held": its hidden property keeps the object; "function": JS has only   *)
(* its next; "lost": the reference it was to delete leaked.                *)
GenStates == {"none", "held", "function", "lost"}
CallStates == {"none", "running", "lost"}

(* "bare": a constructor returned early, the object has no T; "nested": so *)
(* it did while a factory constructed; "broken": an N-API call failed.     *)
Origins == {"none", "js", "factory", "rust", "bare", "nested", "broken"}

Init ==
    /\ js = [o \in Objects |-> "none"]
    /\ box = [o \in Objects |-> "none"]
    /\ ref = [o \in Objects |-> "none"]
    /\ count = [o \in Objects |-> 0]
    /\ mapped = {}
    /\ refs = [o \in Objects |-> 0]
    /\ weak = [o \in Objects |-> FALSE]
    /\ shares = [o \in Objects |-> 0]
    /\ gen = [o \in Objects |-> "none"]
    /\ call = [o \in Objects |-> "none"]
    /\ flag = FALSE /\ building = FALSE /\ envGone = FALSE
    /\ origin = [o \in Objects |-> "none"]
    /\ outlived = [o \in Objects |-> 0]
    /\ badDrops = {} /\ rustFailed = FALSE

-----------------------------------------------------------------------------
(* Objects come to be                                                      *)

Holders(o) ==
    refs[o] + (IF gen[o] = "none" THEN 0 ELSE 1)
            + (IF call[o] = "none" THEN 0 ELSE 1)

CanHold == MapThenSumSet(Holders, Objects) < MaxHolders /\ ~envGone

Fresh(o) == js[o] = "none" /\ ~envGone

Becomes(o, reached, boxed, how) ==
    /\ js' = [js EXCEPT ![o] = reached]
    /\ box' = [box EXCEPT ![o] = boxed]
    /\ origin' = [origin EXCEPT ![o] = how]

(* Reference::add_ref: T may have the address of one whose finalize        *)
(* failed, which left its entry.                                           *)
AddRef(o) ==
    \E old \in {{}} \cup {{p} : p \in {p \in mapped : box[p] = "abandoned"}} :
        /\ mapped' = (mapped \ old) \cup {o}
        /\ ref' = [p \in Objects |-> IF p = o THEN "live"
                                     ELSE IF p \in old THEN "deleted"
                                     ELSE ref[p]]

Wrapped(o, how, initial) ==
    /\ Becomes(o, "held", "wrapped", how)
    /\ count' = [count EXCEPT ![o] = initial]
    /\ AddRef(o)

(* napi_wrap fails: T leaks, and the exception drops the object.           *)
WrapFails(o) ==
    /\ Becomes(o, "dropped", "leaked", "broken")
    /\ UNCHANGED <<ref, count, mapped>>

(* "harmony need to unref count to 0"; when that fails the object stays    *)
(* wrapped, without an entry.                                              *)
Wrap(o, how) ==
    \/ Wrapped(o, how, 0)
    \/ WrapFails(o)
    \/ /\ Becomes(o, "dropped", "wrapped", "broken")
       /\ ref' = [ref EXCEPT ![o] = "live"]
       /\ count' = [count EXCEPT ![o] = 1]
       /\ UNCHANGED mapped

(* The constructor, also the one for classes without any, returns at once. *)
Bare(o) ==
    /\ Becomes(o, "held", "none", IF building THEN "nested" ELSE "bare")
    /\ UNCHANGED <<ref, count, mapped>>

(* `new T()` in JS                                                         *)
Construct(o) ==
    /\ Fresh(o)
    /\ IF flag THEN Bare(o) ELSE Wrap(o, "js")
    /\ UNCHANGED <<holders, process, outlived, badDrops>>

(* _factory calls the constructor, of a class that may extend T in JS.     *)
FactoryBegins ==
    /\ ~building /\ ~envGone
    /\ building' = TRUE /\ flag' = TRUE
    /\ UNCHANGED <<objVars, holders, envGone, rustFailed, outlived, badDrops>>

(* Mutant: an exception in the constructor leaves the flag up.             *)
FactoryEnds_FlagKept(o) ==
    /\ building /\ Fresh(o)
    /\ building' = FALSE
    /\ \/ flag' = FALSE /\ Wrap(o, "factory")
       \/ UNCHANGED <<flag, objVars>>
    /\ UNCHANGED <<holders, envGone, rustFailed, outlived, badDrops>>

(* The second disjunct: the constructor threw.                             *)
FactoryEnds(o) ==
    /\ building /\ Fresh(o)
    /\ building' = FALSE /\ flag' = FALSE
    /\ \/ Wrap(o, "factory")
       \/ UNCHANGED objVars
    /\ UNCHANGED <<holders, envGone, rustFailed, outlived, badDrops>>

(* new_instance, for a T that Rust returns: the count stays 1.             *)
NewInstance(o) ==
    /\ Fresh(o) /\ ~building
    /\ flag' = FALSE
    /\ Wrapped(o, "rust", 1) \/ WrapFails(o)
    /\ UNCHANGED <<holders, building, envGone, rustFailed, outlived, badDrops>>

(* into_reference: JS is not given the object.                             *)
IntoReference(o) ==
    /\ Fresh(o) /\ ~building /\ CanHold
    /\ flag' = FALSE
    /\ Becomes(o, "dropped", "wrapped", "rust")
    /\ refs' = [refs EXCEPT ![o] = 1]
    /\ count' = [count EXCEPT ![o] = 2]
    /\ AddRef(o)
    /\ UNCHANGED <<weak, shares, gen, call, building, envGone, rustFailed,
                   outlived, badDrops>>

(* napi_new_instance fails: the return is early.                           *)
NewInstanceFails ==
    /\ ~building /\ ~envGone
    /\ flag' = TRUE /\ rustFailed' = TRUE
    /\ UNCHANGED <<objVars, holders, building, envGone, outlived, badDrops>>

-----------------------------------------------------------------------------
(* References in Rust                                                      *)

(* strong_count of the finalize callbacks: the entry has one               *)
Strong(o) == refs[o] + (IF o \in mapped THEN 1 ELSE 0)

(* A deleted napi_ref (its T is abandoned) is not used.                    *)
Refer(o) ==
    /\ CanHold /\ ref[o] = "live"
    /\ refs' = [refs EXCEPT ![o] = @ + 1]
    /\ count' = [count EXCEPT ![o] = @ + 1]
    /\ UNCHANGED <<js, box, ref, mapped, origin, weak, shares, gen, call,
                   process, outlived, badDrops>>

(* from_napi_value, and from_value_ptr of `this` in a method               *)
FromValue(o) ==
    /\ js[o] = "held" /\ box[o] = "wrapped" /\ o \in mapped
    /\ Refer(o)

(* Reference::clone, SharedReference::clone, clone_owner                   *)
CloneReference(o) == refs[o] > 0 /\ Refer(o)

(* WeakReference::get                                                      *)
WeakSees(o) == weak[o] /\ Strong(o) > 0

(* Mutant: the N-API reference is not counted up.                          *)
Upgrade_Uncounted(o) ==
    /\ WeakSees(o) /\ CanHold /\ ref[o] = "live"
    /\ refs' = [refs EXCEPT ![o] = @ + 1]
    /\ UNCHANGED <<objVars, weak, shares, gen, call, process, outlived,
                   badDrops>>

Upgrade(o) == WeakSees(o) /\ Refer(o)

Downgrade(o) ==
    /\ refs[o] > 0 /\ ~weak[o]
    /\ weak' = [weak EXCEPT ![o] = TRUE]
    /\ UNCHANGED <<objVars, refs, shares, gen, call, process, outlived,
                   badDrops>>

(* A share is kept by the chain of callbacks, the Reference by its owner   *)
(* field.                                                                  *)
ShareWith(o) ==
    /\ refs[o] > 0 /\ shares[o] < MaxShares /\ ~envGone
    /\ shares' = [shares EXCEPT ![o] = @ + 1]
    /\ UNCHANGED <<objVars, refs, weak, gen, call, process, outlived,
                   badDrops>>

(* Mutant: the napi_ref is used without a look at the callbacks.           *)
Release_Unguarded(o) ==
    /\ refs[o] > 0
    /\ refs' = [refs EXCEPT ![o] = @ - 1]
    /\ IF ref[o] = "live" /\ count[o] > 0
       THEN count' = [count EXCEPT ![o] = @ - 1] /\ UNCHANGED badDrops
       ELSE badDrops' = badDrops \cup {o} /\ UNCHANGED count

(* Mutant: the last Reference but the entry does not unref.                *)
Release_TooFew(o) ==
    /\ refs[o] > 0
    /\ refs' = [refs EXCEPT ![o] = @ - 1]
    /\ IF Strong(o) <= 2 THEN UNCHANGED <<count, badDrops>>
       ELSE IF ref[o] = "live" /\ count[o] > 0
       THEN count' = [count EXCEPT ![o] = @ - 1] /\ UNCHANGED badDrops
       ELSE badDrops' = badDrops \cup {o} /\ UNCHANGED count

(* Drop of a Reference, or of the SharedReference that owns it: "If Rc     *)
(* strong count == 1, then the referenced object is dropped on GC"         *)
Release(o) ==
    /\ refs[o] > 0
    /\ refs' = [refs EXCEPT ![o] = @ - 1]
    /\ IF Strong(o) <= 1 THEN UNCHANGED <<count, badDrops>>
       ELSE IF ref[o] = "live" /\ count[o] > 0
       THEN count' = [count EXCEPT ![o] = @ - 1] /\ UNCHANGED badDrops
       ELSE badDrops' = badDrops \cup {o} /\ UNCHANGED count

DropReference(o) ==
    /\ Release(o)
    /\ UNCHANGED <<js, box, ref, mapped, origin, weak, shares, gen, call,
                   process, outlived>>

(* to_napi_value of a Reference or SharedReference                         *)
ReferenceToJs(o) ==
    /\ ~envGone /\ js[o] = "dropped"
    /\ js' = [js EXCEPT ![o] = "held"]
    /\ Release(o)
    /\ UNCHANGED <<box, ref, mapped, origin, weak, shares, gen, call, process,
                   outlived>>

(* to_napi_value of a WeakReference                                        *)
WeakToJs(o) ==
    /\ ~envGone /\ js[o] = "dropped" /\ WeakSees(o)
    /\ js' = [js EXCEPT ![o] = "held"]
    /\ UNCHANGED <<box, ref, count, mapped, origin, holders, process, outlived,
                   badDrops>>

-----------------------------------------------------------------------------
(* Generator objects and async methods                                     *)

(* symbol_async_generator: the reference to `this` is kept in an external  *)
(* that is a hidden property of the generator; it leaks when the external  *)
(* is not made.                                                            *)
MakeGenerator(o) ==
    /\ CanHold /\ js[o] = "held" /\ box[o] = "wrapped" /\ gen[o] = "none"
    /\ \E next \in {"held", "lost"} : gen' = [gen EXCEPT ![o] = next]
    /\ UNCHANGED <<objVars, refs, weak, shares, call, process, outlived,
                   badDrops>>

(* cleanup_instance_ref; JS may still have a function of the generator.    *)
DropGenerator(o) ==
    /\ \/ gen[o] = "held" /\ gen' = [gen EXCEPT ![o] = "none"]
       \/ gen[o] = "held" /\ gen' = [gen EXCEPT ![o] = "function"]
       \/ gen[o] = "function" /\ gen' = [gen EXCEPT ![o] = "none"]
    /\ UNCHANGED <<objVars, refs, weak, shares, call, process, outlived,
                   badDrops>>

(* An async method: references to `this` and the arguments are made before *)
(* the arguments are converted, and leak when that fails, as for an object *)
(* without T.                                                              *)
AsyncCall(o) ==
    /\ CanHold /\ js[o] = "held" /\ call[o] = "none"
    /\ \/ box[o] = "wrapped" /\ call' = [call EXCEPT ![o] = "running"]
       \/ call' = [call EXCEPT ![o] = "lost"]
    /\ UNCHANGED <<objVars, refs, weak, shares, gen, process, outlived,
                   badDrops>>

(* The finalize callback of the future unrefs and deletes them; it is not  *)
(* called when the runtime or the environment went away first.             *)
AsyncEnds(o) ==
    /\ call[o] = "running"
    /\ \/ ~envGone /\ call' = [call EXCEPT ![o] = "none"]
       \/ call' = [call EXCEPT ![o] = "lost"]
    /\ UNCHANGED <<objVars, refs, weak, shares, gen, process, outlived,
                   badDrops>>

-----------------------------------------------------------------------------
(* The garbage collector and the end of the environment                    *)

Forget(o) ==
    /\ ~envGone /\ js[o] = "held"
    /\ js' = [js EXCEPT ![o] = "dropped"]
    /\ UNCHANGED <<box, ref, count, mapped, origin, holders, process, outlived,
                   badDrops>>

(* A strong reference keeps the object.                                    *)
Pinned(o) ==
    \/ ref[o] = "live" /\ count[o] > 0
    \/ gen[o] \in {"held", "lost"} \/ call[o] # "none"

(* raw_finalize_unchecked: T::finalize fails and the rest is skipped.      *)
FinalizeFails(o) ==
    /\ box' = [box EXCEPT ![o] = "abandoned"]
    /\ UNCHANGED <<ref, mapped, shares>>

(* Mutant: the finalize callbacks are not run.                             *)
FinalizeRuns_NoCallbacks(o) ==
    /\ box' = [box EXCEPT ![o] = "freed"]
    /\ mapped' = mapped \ {o}
    /\ ref' = IF o \in mapped THEN [ref EXCEPT ![o] = "deleted"] ELSE ref
    /\ UNCHANGED shares

(* raw_finalize_unchecked: T, then the entry, the shares and the reference *)
FinalizeRuns(o) ==
    /\ box' = [box EXCEPT ![o] = "freed"]
    /\ mapped' = mapped \ {o}
    /\ ref' = IF o \in mapped THEN [ref EXCEPT ![o] = "deleted"] ELSE ref
    /\ shares' = IF o \in mapped THEN [shares EXCEPT ![o] = 0] ELSE shares

Finalize(o) ==
    /\ js' = [js EXCEPT ![o] = "collected"]
    /\ outlived' = [outlived EXCEPT ![o] = refs[o]]
    /\ IF box[o] = "wrapped" THEN FinalizeRuns(o) \/ FinalizeFails(o)
       ELSE UNCHANGED <<box, ref, mapped, shares>>
    /\ UNCHANGED <<count, origin, refs, weak, gen, call, process, badDrops>>

Collect(o) == ~envGone /\ js[o] = "dropped" /\ ~Pinned(o) /\ Finalize(o)

EnvironmentEnds ==
    /\ ~envGone /\ ~building
    /\ envGone' = TRUE
    /\ UNCHANGED <<objVars, holders, flag, building, rustFailed, outlived,
                   badDrops>>

(* What is left is finalized, whatever refers to it.                       *)
FinalizeAtEnd(o) == envGone /\ js[o] \in {"held", "dropped"} /\ Finalize(o)

-----------------------------------------------------------------------------
Create(o) ==
    Construct(o) \/ FactoryEnds(o) \/ NewInstance(o) \/ IntoReference(o)

Reference(o) ==
    \/ FromValue(o) \/ CloneReference(o) \/ Upgrade(o) \/ Downgrade(o)
    \/ ShareWith(o) \/ DropReference(o) \/ ReferenceToJs(o) \/ WeakToJs(o)

Method(o) ==
    MakeGenerator(o) \/ DropGenerator(o) \/ AsyncCall(o) \/ AsyncEnds(o)

Next ==
    \/ FactoryBegins \/ NewInstanceFails \/ EnvironmentEnds
    \/ \E o \in Objects :
          \/ Create(o) \/ Reference(o) \/ Method(o)
          \/ Forget(o) \/ Collect(o) \/ FinalizeAtEnd(o)

Spec == Init /\ [][Next]_vars

-----------------------------------------------------------------------------
Extra(o) == IF origin[o] \in {"rust", "broken"} THEN 1 ELSE 0

(* Types, with the account of the napi_ref: of a wrap that can still be    *)
(* used it counts the References, and one more for an object from Rust or  *)
(* one whose constructor failed.                                           *)
TypeOK ==
    /\ js \in [Objects -> JsStates] /\ box \in [Objects -> BoxStates]
    /\ ref \in [Objects -> RefStates] /\ mapped \subseteq Objects
    /\ weak \in [Objects -> BOOLEAN]
    /\ shares \in [Objects -> 0..MaxShares]
    /\ gen \in [Objects -> GenStates] /\ call \in [Objects -> CallStates]
    /\ flag \in BOOLEAN /\ building \in BOOLEAN /\ envGone \in BOOLEAN
    /\ origin \in [Objects -> Origins] /\ rustFailed \in BOOLEAN
    /\ outlived \in [Objects -> Nat] /\ badDrops \subseteq Objects
    /\ count \in [Objects -> Nat] /\ refs \in [Objects -> Nat]
    /\ \A o \in Objects :
          ref[o] = "live" /\ box[o] = "wrapped" =>
             count[o] = refs[o] + Extra(o)

(* Rust may look at T: through a Reference, an upgraded WeakReference, the *)
(* generator object or a method that runs.                                 *)
InUse(o) ==
    \/ refs[o] > 0 \/ WeakSees(o)
    \/ gen[o] = "held" \/ call[o] = "running"

(* T is not freed while it is in use, up to the end of the environment,    *)
(* unless its own finalize failed ("the instance can be garbage collected  *)
(* while the generator is still being used").                              *)
InUseIsAlive ==
    \A o \in Objects :
        InUse(o) /\ ~envGone /\ box[o] # "abandoned" => box[o] = "wrapped"

LetGo(o) ==
    /\ js[o] = "dropped" /\ refs[o] = 0
    /\ gen[o] \in {"none", "function"} /\ call[o] = "none"
    /\ origin[o] \notin {"rust", "broken"}

(* An object that neither JS nor Rust holds can be collected, what         *)
(* share_with made from T goes with T, and an N-API reference goes with    *)
(* its entry of REFERENCE_MAP; except an object made by Rust, one of a     *)
(* call that failed halfway, and one whose references were lost.           *)
LetGoIsFreed ==
    \A o \in Objects :
        /\ LetGo(o) => ~Pinned(o)
        /\ box[o] = "freed" => shares[o] = 0
        /\ ref[o] = "live" /\ o \notin mapped => origin[o] = "broken"

(* The drop of a Reference uses a deleted N-API reference only when two or *)
(* more of them outlived the object at the end of the environment ("It     *)
(* always happened on exiting process").                                   *)
DropGuard ==
    \A o \in badDrops :
        \/ outlived[o] >= 2 /\ envGone
        \/ box[o] = "abandoned"

(* JS gets an object without T from a constructor only inside a factory's  *)
(* own construction, or after an N-API call of new_instance failed.        *)
BareOnlyAfterFailure ==
    \A o \in Objects : origin[o] = "bare" => rustFailed

(* What goes wrong with an object is one of the known failures.            *)
FailuresAreKnown == DropGuard /\ BareOnlyAfterFailure

=============================================================================
