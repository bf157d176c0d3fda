----------------------------- MODULE Attachments -----------------------------
(***************************************************************************)
(* Native values that Rust gives to JS objects and to the environment, and *)
(* that a finalizer or a hook frees later: wrapped values, externals,      *)
(* finalizers, closures behind functions and accessors, instance data and  *)
(* cleanup hooks (js_values/object.rs, external.rs and env.rs), with the   *)
(* strong references that Rust takes (ObjectRef, FunctionRef, ExternalRef, *)
(* Ref).  Types are tags; every N-API call may fail.                       *)
(***************************************************************************)
EXTENDS Naturals, FiniteSets

CONSTANTS
    Natives,   \* native values
    Objects,   \* JS objects that may carry them
    Tags,      \* the TypeIds of their types
    Nothing    \* no native value

ASSUME AttachAssumption == Nothing \notin Natives

VARIABLES
    tag,       \* the type of each native value
    way,       \* what it was given to JS as, see Ways
    carriers,  \* the objects whose finalizer frees it
    doors,     \* the objects through which it is reached
    lost,      \* why nothing will ever free it, see Losses
    freed,     \* history: how often it was freed
    js,        \* each object: "none", "reachable", "unreachable", "collected"
    ref,       \* a strong reference to it: "none", "held" or "lost"
    borrowed,  \* what the Rust function that runs has a &mut of
    instance,  \* the instance data of the environment
    kept,      \* instance data that Rust keeps a &'static mut of
    hooks,     \* values of the cleanup hooks that are installed
    handles,   \* AsyncCleanupHooks that Rust holds
    ended,     \* the environment ended
    badUses,   \* history: values used after they were freed
    misread    \* history: values not read as what they are, and the type

nativeVars == <<way, carriers, doors, lost>>
jsObjects == <<js, ref>>
envVars == <<instance, kept, hooks, handles, ended>>
seen == <<borrowed, badUses, misread>>
attachments == <<tag, nativeVars, freed, jsObjects, envVars, seen>>

(* "legacy": the external of Env::create_external; "accessors": closures   *)
(* of Properties; "class": those given to define_class.                    *)
Ways == {"none", "wrap", "external", "legacy", "finalizer", "function",
         "accessors", "class", "instance", "hook", "async_hook"}

(* "refused": an N-API call failed; "mistyped": removed as another type;   *)
(* "overwritten": instance data; "removed": a hook; "class": see Ways.     *)
Losses == {"no", "refused", "mistyped", "overwritten", "removed", "class"}

AttachInit ==
    /\ tag \in [Natives -> Tags]
    /\ way = [n \in Natives |-> "none"]
    /\ carriers = [n \in Natives |-> {}] /\ doors = [n \in Natives |-> {}]
    /\ lost = [n \in Natives |-> "no"] /\ freed = [n \in Natives |-> 0]
    /\ js = [o \in Objects |-> "none"] /\ ref = [o \in Objects |-> "none"]
    /\ borrowed = Nothing /\ instance = Nothing
    /\ kept = {} /\ hooks = {} /\ handles = {} /\ ended = FALSE
    /\ badUses = {} /\ misread = {}

-----------------------------------------------------------------------------
Present(o) == js[o] = "reachable" /\ ~ended

(* The value is boxed, and freed with the objects of cs.                   *)
Give(n, w, cs, ds) ==
    /\ way[n] = "none"
    /\ way' = [way EXCEPT ![n] = w]
    /\ carriers' = [carriers EXCEPT ![n] = cs]
    /\ doors' = [doors EXCEPT ![n] = ds]
    /\ lost' = [lost EXCEPT ![n] = IF w = "class" THEN w ELSE "no"]

(* The call that was to take the box fails, and nobody takes it back.      *)
Refuse(n, w) ==
    /\ way[n] = "none"
    /\ way' = [way EXCEPT ![n] = w]
    /\ lost' = [lost EXCEPT ![n] = "refused"]
    /\ UNCHANGED <<carriers, doors>>

(* A value is used when it may be freed already.                           *)
Use(n) == badUses' = IF freed[n] > 0 THEN badUses \cup {n} ELSE badUses

Drops(ns) == freed' = [n \in Natives |-> freed[n] + (IF n \in ns THEN 1 ELSE 0)]

(* An object is made, in JS or by Rust.                                    *)
NewObject(o) ==
    /\ js[o] = "none" /\ ~ended
    /\ js' = [js EXCEPT ![o] = "reachable"]
    /\ UNCHANGED <<tag, nativeVars, freed, ref, envVars, seen>>

(* napi_wrap refuses an object that is wrapped.                            *)
Wrap(o, n) ==
    /\ Present(o)
    /\ \/ /\ \A m \in Natives : way[m] = "wrap" => o \notin doors[m]
          /\ Give(n, "wrap", {o}, {o})
       \/ Refuse(n, "wrap")
    /\ UNCHANGED <<tag, freed, jsObjects, envVars, seen>>

NewCarrier(o, n, w) ==
    /\ js[o] = "none" /\ ~ended
    /\ \/ Give(n, w, {o}, {o}) /\ js' = [js EXCEPT ![o] = "reachable"]
       \/ Refuse(n, w) /\ UNCHANGED js
    /\ UNCHANGED <<tag, freed, ref, envVars, seen>>

NewExternal(o, n) == NewCarrier(o, n, "external")
CreateExternal(o, n) == NewCarrier(o, n, "legacy")

(* napi_create_function may succeed and its finalizer be refused: the      *)
(* caller gets no function then.                                           *)
CreateFunctionFromClosure(o, n) == NewCarrier(o, n, "function")

AddFinalizer(o, n) ==
    /\ Present(o)
    /\ Give(n, "finalizer", {o}, {}) \/ Refuse(n, "finalizer")
    /\ UNCHANGED <<tag, freed, jsObjects, envVars, seen>>

(* The closures of Properties are freed with the object; each definition   *)
(* of the same Properties frees them once more.  napi_define_properties    *)
(* may fail after the finalizer was added.                                 *)
DefineProperties(o, n) ==
    /\ Present(o)
    /\ \/ Give(n, "accessors", {o}, {o}) \/ Give(n, "accessors", {o}, {})
       \/ Refuse(n, "accessors")
       \/ /\ way[n] = "accessors" /\ lost[n] = "no"
          /\ carriers' = [carriers EXCEPT ![n] = @ \cup {o}]
          /\ doors' \in {doors, [doors EXCEPT ![n] = @ \cup {o}]}
          /\ UNCHANGED <<way, lost>>
    /\ UNCHANGED <<tag, freed, jsObjects, envVars, seen>>

(* define_class adds no finalizer for them.                                *)
DefineClass(o, n) ==
    /\ js[o] = "none" /\ ~ended
    /\ Give(n, "class", {}, {o})
    /\ js' = [js EXCEPT ![o] = "reachable"]
    /\ UNCHANGED <<tag, freed, ref, envVars, seen>>

-----------------------------------------------------------------------------
(* Rust looks at a value as a T while a function of it runs.               *)

(* Mutant: the type is not looked at.                                      *)
IsA_Unchecked(n, t) == TRUE

(* The TypeId at the start of the box is compared.                         *)
IsA(n, t) == tag[n] = t

Read(n, t, layout) ==
    misread' = IF tag[n] = t /\ way[n] = layout THEN misread
               ELSE misread \cup {<<n, t>>}

Borrow(o, t, ways, layout) ==
    /\ Present(o) /\ borrowed = Nothing
    /\ \E n \in Natives :
          /\ o \in doors[n] /\ way[n] \in ways /\ IsA(n, t)
          /\ borrowed' = n
          /\ Use(n)
          /\ Read(n, t, layout)
    /\ UNCHANGED <<tag, nativeVars, freed, jsObjects, envVars>>

Unwrap(o, t) == Borrow(o, t, {"wrap"}, "wrap")

(* An External<T> and the TaggedObject<T> of the legacy calls have the     *)
(* same tag: each call takes both for its own.                             *)
Externals == {"external", "legacy"}
FromNapiMutRef(o, t) == Borrow(o, t, Externals, "external")
GetValueExternal(o, t) == Borrow(o, t, Externals, "legacy")

(* The function uses what it borrowed for the last time and returns.       *)
FunctionReturns(n) ==
    /\ borrowed = n
    /\ borrowed' = Nothing
    /\ Use(n)
    /\ UNCHANGED <<tag, nativeVars, freed, jsObjects, envVars, misread>>

(* The value is detached before its type is looked at.  The object is Copy *)
(* and borrows nothing.                                                    *)
RemoveWrapped(o, t) ==
    /\ Present(o)
    /\ \E n \in Natives :
          /\ way[n] = "wrap" /\ o \in doors[n]
          /\ carriers' = [carriers EXCEPT ![n] = {}]
          /\ doors' = [doors EXCEPT ![n] = {}]
          /\ IF IsA(n, t) THEN Drops({n}) /\ UNCHANGED lost
             ELSE lost' = [lost EXCEPT ![n] = "mistyped"] /\ UNCHANGED freed
    /\ UNCHANGED <<tag, way, jsObjects, envVars, seen>>

(* JS calls a function or an accessor.                                     *)
CallThrough(o, n, ways) ==
    /\ Present(o) /\ o \in doors[n] /\ way[n] \in ways
    /\ Use(n)
    /\ UNCHANGED <<tag, nativeVars, freed, jsObjects, envVars, borrowed, misread>>

Trampoline(o, n) == CallThrough(o, n, {"function"})
TrampolineAccessor(o, n) == CallThrough(o, n, {"accessors", "class"})

-----------------------------------------------------------------------------
(* Strong references                                                       *)

(* Mutant: the reference starts with a count of 0.                         *)
TakeRef_Weak(o) ==
    /\ Present(o) /\ ref[o] = "none"
    /\ ref' = [ref EXCEPT ![o] = "weak"]
    /\ UNCHANGED <<tag, nativeVars, freed, js, envVars, seen>>

TakeRef(o) ==
    /\ Present(o) /\ ref[o] = "none"
    /\ ref' = [ref EXCEPT ![o] = "held"]
    /\ UNCHANGED <<tag, nativeVars, freed, js, envVars, seen>>

(* An ExternalRef derefs to its value without a call.                      *)
Deref(o, n) ==
    /\ ref[o] # "none" /\ way[n] = "external" /\ o \in doors[n]
    /\ Use(n)
    /\ UNCHANGED <<tag, nativeVars, freed, jsObjects, envVars, borrowed, misread>>

(* get_value of the reference: JS has the object again.                    *)
GetValue(o) ==
    /\ ref[o] = "held" /\ ~ended
    /\ js' = [js EXCEPT ![o] = "reachable"]
    /\ UNCHANGED <<tag, nativeVars, freed, ref, envVars, seen>>

(* unref of an ObjectRef or Ref, drop of an ExternalRef or FunctionRef.    *)
DropRef(o) ==
    /\ ref[o] = "held" /\ ~ended
    /\ ref' = [ref EXCEPT ![o] = "none"]
    /\ UNCHANGED <<tag, nativeVars, freed, js, envVars, seen>>

(* An ObjectRef or Ref goes without unref, or unref fails.                 *)
LoseRef(o) ==
    /\ ref[o] = "held" /\ ~ended
    /\ \A n \in Natives : way[n] = "external" => o \notin doors[n]
    /\ ref' = [ref EXCEPT ![o] = "lost"]
    /\ UNCHANGED <<tag, nativeVars, freed, js, envVars, seen>>

-----------------------------------------------------------------------------
(* The environment's own: instance data and cleanup hooks                  *)

(* What was there is not finalized.                                        *)
SetInstanceData(n) ==
    /\ ~ended /\ way[n] = "none"
    /\ way' = [way EXCEPT ![n] = "instance"]
    /\ \/ /\ instance' = n
          /\ lost' = [m \in Natives |->
                        IF m = instance THEN "overwritten" ELSE lost[m]]
       \/ lost' = [lost EXCEPT ![n] = "refused"] /\ UNCHANGED instance
    /\ UNCHANGED <<tag, carriers, doors, freed, jsObjects, kept, hooks,
                   handles, ended, seen>>

GetInstanceData(t) ==
    /\ ~ended /\ instance # Nothing /\ IsA(instance, t)
    /\ kept' = kept \cup {instance}
    /\ Read(instance, t, "instance")
    /\ UNCHANGED <<tag, nativeVars, freed, jsObjects, instance, hooks, handles,
                   ended, borrowed, badUses>>

UseKept(n) ==
    /\ n \in kept
    /\ Use(n)
    /\ UNCHANGED <<tag, nativeVars, freed, jsObjects, envVars, borrowed, misread>>

AddHook(n, w) ==
    /\ ~ended /\ way[n] = "none"
    /\ way' = [way EXCEPT ![n] = w]
    /\ \/ hooks' = hooks \cup {n} /\ UNCHANGED lost
       \/ lost' = [lost EXCEPT ![n] = "refused"] /\ UNCHANGED hooks
    /\ UNCHANGED <<tag, carriers, doors, freed, jsObjects, instance, kept,
                   ended, seen>>

AddEnvCleanupHook(n) == AddHook(n, "hook") /\ UNCHANGED handles

(* add_removable_async_cleanup_hook returns a handle, the other none.      *)
AddAsyncCleanupHook(n) ==
    /\ AddHook(n, "async_hook")
    /\ \/ UNCHANGED handles
       \/ n \in hooks' /\ handles' = handles \cup {n}

(* The hook is taken away, its value stays.                                *)
TakeHook(n) ==
    /\ hooks' = hooks \ {n}
    /\ lost' = [lost EXCEPT ![n] = "removed"]

RemoveEnvCleanupHook(n) ==
    /\ ~ended /\ n \in hooks /\ way[n] = "hook"
    /\ TakeHook(n)
    /\ UNCHANGED <<tag, way, carriers, doors, freed, jsObjects, instance, kept,
                   handles, ended, seen>>

(* Drop of an AsyncCleanupHook; forget keeps the hook.  The handle of a    *)
(* hook that ran was deleted by async_finalize.                            *)
DropCleanupHook(n) ==
    /\ n \in handles
    /\ handles' = handles \ {n}
    /\ \/ UNCHANGED <<lost, hooks, badUses>>
       \/ IF n \in hooks THEN TakeHook(n) /\ UNCHANGED badUses
          ELSE Use(n) /\ UNCHANGED <<hooks, lost>>
    /\ UNCHANGED <<tag, way, carriers, doors, freed, jsObjects, instance, kept,
                   ended, borrowed, misread>>

-----------------------------------------------------------------------------
(* The garbage collector and the end of the environment                    *)

(* What a function borrowed stays reachable through its argument.          *)
Unreach(o) ==
    /\ Present(o)
    /\ borrowed # Nothing => o \notin doors[borrowed]
    /\ js' = [js EXCEPT ![o] = "unreachable"]
    /\ UNCHANGED <<tag, nativeVars, freed, ref, envVars, seen>>

FinalizedWith(o) == {n \in Natives : o \in carriers[n]}

(* raw_finalize, finalize_callback, finalize_closures and                  *)
(* finalize_box_trampoline.                                                *)
FinalizeObject(o) ==
    /\ js' = [js EXCEPT ![o] = "collected"]
    /\ Drops(FinalizedWith(o))
    /\ UNCHANGED <<tag, nativeVars, ref, envVars, seen>>

CollectObject(o) ==
    /\ js[o] = "unreachable" /\ ref[o] \notin {"held", "lost"} /\ ~ended
    /\ FinalizeObject(o)

(* The hooks run; what is left is finalized, whatever refers to it.        *)
EnvEnds ==
    /\ ~ended /\ borrowed = Nothing
    /\ ended' = TRUE
    /\ Drops(hooks)
    /\ hooks' = {}
    /\ UNCHANGED <<tag, nativeVars, jsObjects, instance, kept, handles, seen>>

FinalizeLeft(o) ==
    ended /\ js[o] \in {"reachable", "unreachable"} /\ FinalizeObject(o)

FinalizeInstance ==
    /\ ended /\ instance # Nothing
    /\ instance' = Nothing
    /\ Drops({instance})
    /\ UNCHANGED <<tag, nativeVars, jsObjects, kept, hooks, handles, ended,
                   seen>>

(* All finalizers of the environment ran.                                  *)
Finalized ==
    /\ ended /\ instance = Nothing
    /\ \A o \in Objects : js[o] \in {"none", "collected"}

AllFinalized == Finalized /\ UNCHANGED attachments

-----------------------------------------------------------------------------
Attach(o, n) ==
    \/ Wrap(o, n) \/ NewExternal(o, n) \/ CreateExternal(o, n)
    \/ CreateFunctionFromClosure(o, n) \/ AddFinalizer(o, n)
    \/ DefineProperties(o, n) \/ DefineClass(o, n)

LookAt(o, t) ==
    Unwrap(o, t) \/ FromNapiMutRef(o, t) \/ GetValueExternal(o, t)

Through(o, n) ==
    Trampoline(o, n) \/ TrampolineAccessor(o, n) \/ Deref(o, n)

OnObject(o) ==
    \/ NewObject(o) \/ TakeRef(o) \/ GetValue(o) \/ DropRef(o) \/ LoseRef(o)
    \/ Unreach(o) \/ CollectObject(o) \/ FinalizeLeft(o)

OnEnv(n) ==
    \/ SetInstanceData(n) \/ UseKept(n)
    \/ AddEnvCleanupHook(n) \/ AddAsyncCleanupHook(n)
    \/ RemoveEnvCleanupHook(n) \/ DropCleanupHook(n)

AttachNext ==
    \/ \E o \in Objects : OnObject(o)
    \/ \E o \in Objects, n \in Natives : Attach(o, n) \/ Through(o, n)
    \/ \E o \in Objects, t \in Tags : LookAt(o, t) \/ RemoveWrapped(o, t)
    \/ \E n \in Natives : OnEnv(n) \/ FunctionReturns(n)
    \/ \E t \in Tags : GetInstanceData(t)
    \/ EnvEnds \/ FinalizeInstance \/ AllFinalized

AttachSpec == AttachInit /\ [][AttachNext]_attachments

-----------------------------------------------------------------------------
AttachTypes ==
    /\ tag \in [Natives -> Tags] /\ way \in [Natives -> Ways]
    /\ carriers \in [Natives -> SUBSET Objects]
    /\ doors \in [Natives -> SUBSET Objects]
    /\ lost \in [Natives -> Losses] /\ freed \in [Natives -> Nat]
    /\ borrowed \in Natives \cup {Nothing}
    /\ instance \in Natives \cup {Nothing}
    /\ handles \subseteq Natives /\ badUses \subseteq Natives
    /\ misread \subseteq Natives \X Tags

(* The Properties were defined on several objects.                         *)
Spread(n) == Cardinality(carriers[n]) > 1

(* A value is freed once at most, and in the end, unless an early return   *)
(* or an overwritten or removed registration left it behind, or its        *)
(* Properties were given to several objects.                               *)
FreedByCarrier ==
    \A n \in Natives :
        /\ ~Spread(n) => freed[n] <= 1
        /\ lost[n] # "no" => freed[n] = 0
        /\ Finalized /\ way[n] # "none" /\ lost[n] = "no" => freed[n] >= 1

(* Nothing is used after it was freed, but Properties of several objects,  *)
(* a wrapped value that was removed while a function had it, and what Rust *)
(* keeps beyond the end of the environment.                                *)
UsedWhileAlive ==
    \A n \in badUses :
        \/ Spread(n)
        \/ way[n] = "wrap" /\ carriers[n] = {}
        \/ ended /\ way[n] \in {"external", "instance", "async_hook"}

(* Nothing is read as a value of another type; an external may be read by  *)
(* the calls of the other API.                                             *)
ReadAsIs ==
    \A m \in misread : m[2] = tag[m[1]] /\ way[m[1]] \in Externals

(* What Rust gives to JS is read as what it is, is not used after it was   *)
(* freed, and is freed once, with the object or environment it was given   *)
(* to.                                                                     *)
AttachmentsAreFreed ==
    AttachTypes /\ ReadAsIs /\ FreedByCarrier /\ UsedWhileAlive

=============================================================================
