------------------------------ MODULE Generators ------------------------------
(***************************************************************************)
(* The iterator protocol of a class T that implements Generator or         *)
(* AsyncGenerator (bindgen_runtime/iterator.rs, async_iterator.rs).  The   *)
(* functions next, return and throw call T on the JS thread; those of an   *)
(* AsyncGenerator then answer with promises.  T hands out items 1, 2, ...  *)
(* and may have none for now; an argument or an item may not convert.      *)
(***************************************************************************)
EXTENDS Naturals, Sequences

CONSTANTS
    MaxItems,  \* T has that many items
    MaxCalls   \* JS makes that many calls

ASSUME GeneratorAssumption == MaxItems \in Nat /\ MaxCalls \in Nat

VARIABLES
    isAsync,   \* T is an AsyncGenerator
    given,     \* items T handed out
    completed, \* the property [[GeneratorState]] of the object
    calls      \* history: the calls in order, and what JS was told

generator == <<isAsync, given, completed, calls>>

(* op: the function; here: it was called on the object itself; item: what  *)
(* T gave to the call, 0 for nothing; told: what JS got for it.            *)
Call == [op : {"next", "return", "throw"}, here : BOOLEAN,
         item : 0..MaxItems,
         told : {"value", "done", "threw", "pending", "rejected"}]

GeneratorInit ==
    /\ isAsync \in BOOLEAN
    /\ given = 0 /\ completed = FALSE /\ calls = <<>>

(* T may give its next item to a call.                                     *)
Offers == {0} \cup (IF given < MaxItems THEN {given + 1} ELSE {})

Answer(op, here, item, told) ==
    /\ Len(calls) < MaxCalls
    /\ given' = IF item = 0 THEN given ELSE item
    /\ calls' = Append(calls, [op |-> op, here |-> here, item |-> item,
                               told |-> told])
    /\ UNCHANGED isAsync

(* What is told of a call that T gave an item, which may not convert.      *)
Shown(item) == IF item = 0 THEN {"done"} ELSE {"value", "threw"}

-----------------------------------------------------------------------------
(* A Generator: the object is its own iterator.                            *)

NextCompleted ==
    /\ ~isAsync /\ completed
    /\ Answer("next", TRUE, 0, "done")
    /\ UNCHANGED completed

(* T is called even if the argument does not convert, or the function was  *)
(* taken to another object, where it finds no state: an error pends then.  *)
(* That T had nothing is not remembered.                                   *)
NextOfT ==
    /\ ~isAsync
    /\ \E here \in BOOLEAN, item \in Offers :
          /\ here => ~completed
          /\ \E told \in Shown(item) \cup {"threw"} :
                /\ ~here => told = "threw"
                /\ Answer("next", here, item, told)
    /\ UNCHANGED completed

(* An argument that does not convert: T goes on.                           *)
ReturnRefused ==
    /\ ~isAsync
    /\ \E here \in BOOLEAN : Answer("return", here, 0, "threw")
    /\ UNCHANGED completed

(* Mutant: the state is not set.                                           *)
Return_StateKept ==
    /\ ~isAsync
    /\ \E here \in BOOLEAN, item \in Offers :
          Answer("return", here, item, "done")
    /\ UNCHANGED completed

(* JS gets its argument back; what T::complete gives is dropped.           *)
Complete ==
    /\ ~isAsync
    /\ \E here \in BOOLEAN, item \in Offers :
          /\ Answer("return", here, item, "done")
          /\ completed' = (completed \/ here)

(* T::catch gives the error back, which is thrown, or nothing, or an item: *)
(* the generator goes on, also one that was completed.                     *)
Throw ==
    /\ ~isAsync
    /\ \E here \in BOOLEAN, item \in Offers :
          /\ \E told \in Shown(item) \cup {"threw"} :
                Answer("throw", here, item, told)
          /\ completed' = IF here THEN item = 0 ELSE completed

-----------------------------------------------------------------------------
(* An AsyncGenerator: T makes a future, which spawn_future_with_callback   *)
(* runs; an argument that does not convert throws.                         *)

(* T::next is called all the same.                                         *)
NextAsync ==
    /\ isAsync
    /\ \E item \in Offers, told \in {"pending", "threw"} :
          Answer("next", TRUE, item, told)
    /\ UNCHANGED completed

ReturnAsync ==
    /\ isAsync
    /\ \/ Answer("return", TRUE, 0, "threw")
       \/ \E item \in Offers : Answer("return", TRUE, item, "pending")
    /\ UNCHANGED completed

ThrowAsync ==
    /\ isAsync
    /\ \E item \in Offers : Answer("throw", TRUE, item, "pending")
    /\ UNCHANGED completed

(* return is always the end, throw never is.                               *)
Settlement(call) ==
    CASE call.op = "next" -> IF call.item = 0 THEN "done" ELSE "value"
      [] call.op = "return" -> "done"
      [] call.op = "throw" -> "value"

(* Futures end in any order, or fail.                                      *)
Settle ==
    /\ \E i \in DOMAIN calls :
          /\ calls[i].told = "pending"
          /\ \E told \in {Settlement(calls[i]), "rejected"} :
                calls' = [calls EXCEPT ![i].told = told]
    /\ UNCHANGED <<isAsync, given, completed>>

-----------------------------------------------------------------------------
GeneratorNext ==
    \/ NextCompleted \/ NextOfT \/ ReturnRefused \/ Complete \/ Throw
    \/ NextAsync \/ ReturnAsync \/ ThrowAsync \/ Settle

GeneratorSpec == GeneratorInit /\ [][GeneratorNext]_generator

-----------------------------------------------------------------------------
GeneratorTypes ==
    /\ isAsync \in BOOLEAN /\ given \in 0..MaxItems /\ completed \in BOOLEAN
    /\ calls \in Seq(Call)

(* JS gets the items of T in the order it asked for them, and an item that *)
(* was asked for and does not arrive is an exception or a rejection; only  *)
(* what T gives to return is not a value.                                  *)
ItemsArrive ==
    /\ \A i, j \in DOMAIN calls :
          i < j /\ calls[i].item > 0 /\ calls[j].item > 0
          => calls[i].item < calls[j].item
    /\ \A item \in 1..given : \E i \in DOMAIN calls : calls[i].item = item
    /\ \A i \in DOMAIN calls :
          /\ calls[i].item > 0 /\ calls[i].told = "done"
             => calls[i].op = "return"
          /\ calls[i].item = 0 /\ calls[i].told = "value"
             => isAsync /\ calls[i].op = "throw"

Closes(call) ==
    /\ call.here
    /\ \/ call.op = "return" /\ call.told = "done"
       \/ call.op = "throw" /\ call.item = 0

Reopens(call) == call.here /\ call.op = "throw" /\ call.item > 0

(* A Generator that was closed by return or throw has no more values       *)
(* ("should be able to stop a generator") and does not ask T for them, but *)
(* for a throw that T handles with an item.                                *)
ClosedHasNoMore ==
    \A i, j \in DOMAIN calls :
        /\ ~isAsync /\ i < j
        /\ Closes(calls[i])
        /\ calls[j].op = "next" /\ calls[j].here
        => \/ calls[j].told = "done" /\ calls[j].item = 0
           \/ \E k \in (i + 1)..(j - 1) : Reopens(calls[k])

(* Iteration from JS keeps its order, loses nothing silently and ends when *)
(* it was closed.                                                          *)
GeneratorsKeepProtocol == GeneratorTypes /\ ItemsArrive /\ ClosedHasNoMore

=============================================================================
