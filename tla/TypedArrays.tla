----------------------------- MODULE TypedArrays -----------------------------
(***************************************************************************)
(* Who owns the memory of one typed array, Buffer or slice between Rust    *)
(* and the JS garbage collector (js_values/arraybuffer.rs, buffer.rs).  A  *)
(* value made in Rust owns its data, a Vec or external memory with a       *)
(* notify callback, until it is converted: by value into a box that the    *)
(* finalizer of an external ArrayBuffer drops, through &mut into a copy    *)
(* that shares the data with it.  A slice hands its data over when it is   *)
(* made.  A value taken from JS holds a strong reference, or is borrowed as  *)
(* a slice in one call.  Every N-API call may fail, and external buffers   *)
(* may not be allowed.  The value is dropped on the JS thread here;        *)
(* BufferRefs has the other threads.                                       *)
(***************************************************************************)
EXTENDS Naturals

CONSTANTS
    MaxBytes,   \* the longest ArrayBuffer a value is taken from
    MaxStrays   \* a &mut conversion fails halfway at most that often

ASSUME BoundsAssumption == MaxBytes \in Nat /\ MaxStrays \in Nat

VARIABLES
    kind,       \* how the value is made, see Kinds
    empty,      \* its length is 0
    rust,       \* the Rust value: "none" yet, "owned", "borrowed" or "gone"
    raw,        \* its field raw is None ("none") or a reference ("ref")
    hasData,    \* its data and finalizer_notify are set, and not null
    box,        \* the hint of the ArrayBuffer that JS has, see Boxes
    buffer,     \* the JS value, see BufferStates
    shared,     \* the JS value is on the data and not on a copy
    strays,     \* ArrayBuffers on the data that JS was never given
    strong,     \* there is a strong N-API reference
    view,       \* bytes <<from, to, of>> of an ArrayBuffer that Rust sees
    frees,      \* history: how often the data was freed, or notify called
    history     \* history: see Exceptions

rustVars == <<rust, raw, hasData, view>>
jsVars == <<box, buffer, shared, strays, strong>>
given == <<kind, empty>>
vars == <<given, rustVars, jsVars, frees, history>>

(* "vec": new or with_data_copied; "external": with_external_data;         *)
(* "slice": from_data of ArrayBuffer and the slices; "lent": their         *)
(* from_external; "copied": their copy_from; "js": from_napi_value.         *)
Slices == {"slice", "lent", "copied"}
Kinds == {"vec", "external", "js"} \cup Slices

(* "armed": dropping it frees the data; "inert": its raw is a reference    *)
(* with a null env, and its destructor returns early.                      *)
Boxes == {"none", "armed", "inert"}
BufferStates == {"none", "reachable", "unreachable", "collected"}

(* "by_ref": converted by &mut; "halfway": that failed after it made the   *)
(* ArrayBuffer; "leaked": an N-API call failed, and the box or reference   *)
(* made before it is not taken back; "dangling": a lent slice that still   *)
(* looks at the data its finalize callback was called for.                 *)
Exceptions == {"by_ref", "halfway", "leaked", "dangling"}

Init ==
    /\ kind \in Kinds /\ empty \in BOOLEAN
    /\ rust = "none" /\ raw = "none" /\ hasData = FALSE
    /\ box = "none" /\ shared = FALSE /\ strays = 0 /\ strong = FALSE
    /\ buffer = IF kind = "js" THEN "reachable" ELSE "none"
    /\ view = <<0, 0, 0>>
    /\ frees = 0 /\ history = {}

Note(x) == history' = history \cup {x}

(* The value is moved into the call that ends its life.                    *)
Consumed == rust' = "gone" /\ raw' = "none" /\ hasData' = FALSE

(* There is a slice, which ends with the call that has it.                 *)
InCall == (kind \in Slices /\ rust = "owned") \/ rust = "borrowed"

(* Slices are views and are not converted.                                 *)
Owned == rust = "owned" /\ kind \in {"vec", "external", "js"}

(* The destructor of a value without a reference                           *)
FreeOwn == frees' = IF hasData THEN frees + 1 ELSE frees

(* The length is 0 from the start, or since the fields were cleared.       *)
NoLength == empty \/ ~hasData

(* JS is given a new value, on the data or on memory of its own.           *)
HandOut(onData, hint) ==
    buffer' = "reachable" /\ shared' = onData /\ box' = hint

-----------------------------------------------------------------------------
(* Making a value                                                          *)

New ==
    /\ kind \in {"vec", "external"} /\ rust = "none"
    /\ rust' = "owned" /\ hasData' = TRUE
    /\ UNCHANGED <<given, raw, view, jsVars, frees, history>>

ElementSizes == {1, 2, 4, 8}

Smaller(a, b) == IF a < b THEN a ELSE b

(* Mutant: the reported length is taken for a number of elements.          *)
ByteLength_Elements(available, reported, size) == reported * size

(* normalize_typed_array_lengths: runtimes report elements or bytes.       *)
ByteLength(available, reported, size) ==
    IF reported = 0 \/ size = 1 THEN Smaller(reported, available)
    ELSE IF reported * size <= available THEN reported * size
    ELSE IF reported <= available /\ reported % size = 0 THEN reported
    ELSE (available \div size) * size

(* The bytes of the ArrayBuffer of a value from JS.                        *)
See ==
    \E length \in 0..MaxBytes, reported \in 0..MaxBytes, size \in ElementSizes :
        \E offset \in 0..length :
            view' = <<offset,
                      offset + ByteLength(length - offset, reported, size),
                      length>>

(* from_napi_value of the slice types, of &[T] and of &mut [T]: there is   *)
(* no reference, for the caller has the value on its stack.                *)
BorrowSlice ==
    /\ kind = "js" /\ rust = "none" /\ buffer = "reachable"
    /\ \/ rust' = "borrowed" /\ See
       \/ rust' = "gone" /\ UNCHANGED view
    /\ UNCHANGED <<given, raw, hasData, jsVars, frees, history>>

(* from_napi_value, of an argument or of a borrowed slice                  *)
(* (into_typed_array): the reference is made first, and stays when the     *)
(* value is refused.                                                       *)
FromJs ==
    /\ kind = "js" /\ rust \in {"none", "borrowed"} /\ buffer = "reachable"
    /\ strong' = TRUE
    /\ \/ /\ rust' = "owned" /\ raw' = "ref"
          /\ See
          /\ UNCHANGED history
       \/ /\ rust' = "gone" /\ Note("leaked")
          /\ UNCHANGED <<raw, view>>
    /\ UNCHANGED <<given, hasData, box, buffer, shared, strays, frees>>

-----------------------------------------------------------------------------
(* to_napi_value of the value itself                                       *)

(* Of a value with a reference: the JS value it refers to; the reference   *)
(* goes, by the destructor if the call fails.                              *)
ReturnReferred ==
    /\ Owned /\ raw = "ref"
    /\ Consumed
    /\ strong' = FALSE
    /\ buffer' \in {buffer, "reachable"}
    /\ UNCHANGED <<given, view, box, shared, strays, frees, history>>

(* Mutant: the box is not taken back before the copy is made.              *)
ReturnCopied_BoxKept ==
    /\ Owned /\ raw = "none"
    /\ Consumed
    /\ frees' = IF empty /\ hasData THEN frees + 1 ELSE frees
    /\ HandOut(FALSE, "none") \/ UNCHANGED <<buffer, shared, box>>
    /\ UNCHANGED <<given, view, strays, strong, history>>

(* An empty one, or one whose runtime allows no external buffers: JS gets  *)
(* memory of its own, if no call fails, and the value is dropped here.     *)
ReturnCopied ==
    /\ Owned /\ raw = "none"
    /\ Consumed
    /\ FreeOwn
    /\ HandOut(FALSE, "none") \/ UNCHANGED <<buffer, shared, box>>
    /\ UNCHANGED <<given, view, strays, strong, history>>

(* The value is moved to a box, the hint of the external ArrayBuffer.      *)
(* create_typedarray may fail after that.                                  *)
ReturnExternal ==
    /\ Owned /\ raw = "none" /\ ~NoLength
    /\ Consumed
    /\ \/ HandOut(TRUE, "armed") /\ UNCHANGED strays
       \/ strays' = strays + 1 /\ UNCHANGED <<buffer, shared, box>>
    /\ UNCHANGED <<given, view, strong, frees, history>>

(* create_external_arraybuffer fails otherwise: the box stays.             *)
ReturnFails ==
    /\ Owned /\ raw = "none" /\ ~NoLength
    /\ Consumed
    /\ Note("leaked")
    /\ UNCHANGED <<given, view, jsVars, frees>>

-----------------------------------------------------------------------------
(* to_napi_value of a &mut: Rust keeps the value                           *)

GainReference == raw' = "ref" /\ strong' = TRUE

LendReferred ==
    /\ Owned /\ raw = "ref"
    /\ buffer' = "reachable"
    /\ UNCHANGED <<given, rustVars, box, shared, strays, strong, frees, history>>

(* An empty value gets a reference but keeps data and notify.              *)
LendEmpty ==
    /\ Owned /\ raw = "none" /\ NoLength
    /\ HandOut(FALSE, "none")
    /\ GainReference
    /\ Note("by_ref")
    /\ UNCHANGED <<given, rust, hasData, view, strays, frees>>

(* Mutant: the fields of the value are not cleared.                        *)
LendCopied_FieldsKept ==
    /\ Owned /\ raw = "none" /\ ~NoLength
    /\ frees' = frees + 1
    /\ \/ HandOut(FALSE, "none") /\ GainReference
       \/ UNCHANGED <<raw, strong, buffer, shared, box>>
    /\ UNCHANGED <<given, rust, hasData, view, strays, history>>

(* No external buffers: the copy of the value is taken back, and frees the *)
(* data when the call returns, with or without an error; the fields of the *)
(* value were cleared before that.                                         *)
LendCopied ==
    /\ Owned /\ raw = "none" /\ ~NoLength
    /\ hasData' = FALSE
    /\ frees' = frees + 1
    /\ \/ HandOut(FALSE, "none") /\ GainReference
       \/ UNCHANGED <<raw, strong, buffer, shared, box>>
    /\ UNCHANGED <<given, rust, view, strays, history>>

(* The ArrayBuffer is on the data, with the copy as its hint.              *)
LendExternal ==
    /\ Owned /\ raw = "none" /\ ~NoLength
    /\ hasData' = FALSE
    /\ HandOut(TRUE, "inert")
    /\ GainReference
    /\ Note("by_ref")
    /\ UNCHANGED <<given, rust, view, strays, frees>>

(* create_typedarray or create_reference fails after that: the value and   *)
(* the hint both own the data.                                             *)
LendHalfway ==
    /\ Owned /\ raw = "none" /\ ~NoLength
    /\ strays + frees < MaxStrays
    /\ strays' = strays + 1
    /\ Note("halfway")
    /\ UNCHANGED <<given, rustVars, box, buffer, shared, strong, frees>>

-----------------------------------------------------------------------------
(* Drop of a value: with a reference only that goes, whatever data is left *)
(* in it.                                                                  *)
Drop ==
    /\ Owned
    /\ Consumed
    /\ strong' = FALSE
    /\ IF raw = "ref" THEN UNCHANGED frees ELSE FreeOwn
    /\ UNCHANGED <<given, view, box, buffer, shared, strays, history>>

-----------------------------------------------------------------------------
(* Slices: from_data ("slice"), from_external ("lent") and copy_from       *)

(* The data is the caller's, and JS gets memory of its own.                *)
CopyFrom ==
    /\ kind = "copied" /\ rust = "none"
    /\ \/ rust' = "owned" /\ HandOut(FALSE, "none")
       \/ rust' = "gone" /\ UNCHANGED <<buffer, shared, box>>
    /\ UNCHANGED <<given, raw, hasData, view, strays, strong, frees, history>>

NewSlice == kind \in {"slice", "lent"} /\ rust = "none"

(* JS gets a copy, and the data is freed or finalized; the lent slice      *)
(* keeps looking at the data.                                              *)
SliceCopied ==
    /\ NewSlice
    /\ HandOut(FALSE, "none")
    /\ frees' = frees + 1
    /\ rust' = "owned" /\ hasData' = (kind = "lent" /\ ~empty)
    /\ IF hasData' THEN Note("dangling") ELSE UNCHANGED history
    /\ UNCHANGED <<given, raw, view, strays, strong>>

(* JS gets the data.                                                       *)
SliceExternal ==
    /\ NewSlice
    /\ HandOut(TRUE, "armed")
    /\ rust' = "owned" /\ hasData' = ~empty
    /\ UNCHANGED <<given, raw, view, strays, strong, frees, history>>

(* An ArrayBuffer has it, and create_typedarray fails.                     *)
SliceStray ==
    /\ NewSlice
    /\ rust' = "gone" /\ strays' = strays + 1
    /\ UNCHANGED <<given, raw, hasData, view, box, buffer, shared, strong, frees,
                   history>>

(* No JS value: the data is freed with the Vec or finalized, or the hint   *)
(* of from_external is lost.                                               *)
SliceFails ==
    /\ NewSlice
    /\ rust' = "gone"
    /\ \/ frees' = frees + 1 /\ UNCHANGED history
       \/ Note("leaked") /\ UNCHANGED frees
    /\ UNCHANGED <<given, raw, hasData, view, jsVars>>

(* The call that made the slice, or borrowed it, returns.                  *)
SliceEnds ==
    /\ InCall
    /\ Consumed
    /\ UNCHANGED <<given, view, jsVars, frees, history>>

-----------------------------------------------------------------------------
(* JS and its garbage collector                                            *)

(* The value stays on the stack of the call that has a slice of it.        *)
Forget ==
    /\ buffer = "reachable"
    /\ ~InCall
    /\ buffer' = "unreachable"
    /\ UNCHANGED <<given, rustVars, box, shared, strays, strong, frees, history>>

(* The finalizer drops its hint.                                           *)
Collect ==
    /\ buffer = "unreachable" /\ ~strong
    /\ buffer' = "collected" /\ box' = "none"
    /\ frees' = IF box = "armed" THEN frees + 1 ELSE frees
    /\ UNCHANGED <<given, rustVars, shared, strays, strong, history>>

CollectStray ==
    /\ strays > 0
    /\ strays' = strays - 1
    /\ frees' = frees + 1
    /\ UNCHANGED <<given, rustVars, box, buffer, shared, strong, history>>

-----------------------------------------------------------------------------
Make ==
    \/ New \/ BorrowSlice \/ FromJs \/ CopyFrom
    \/ SliceCopied \/ SliceExternal \/ SliceStray \/ SliceFails

Return == ReturnReferred \/ ReturnCopied \/ ReturnExternal \/ ReturnFails

Lend == LendReferred \/ LendEmpty \/ LendCopied \/ LendExternal \/ LendHalfway

(* Nothing is left to do, but perhaps a reference that keeps its value.    *)
Done ==
    /\ rust \in {"none", "gone"} /\ strays = 0
    /\ buffer \in {"none", "collected"} \/ strong
    /\ UNCHANGED vars

Next ==
    \/ Make \/ Return \/ Lend \/ Drop \/ SliceEnds
    \/ Forget \/ Collect \/ CollectStray
    \/ Done

Spec == Init /\ [][Next]_vars

-----------------------------------------------------------------------------
(* Of a value taken from JS, Rust sees bytes of its ArrayBuffer only,      *)
(* whatever length the runtime reports.                                    *)
ViewInBuffer ==
    /\ view \in (0..MaxBytes) \X (0..MaxBytes) \X (0..MaxBytes)
    /\ view[1] <= view[2] /\ view[2] <= view[3]

(* Types, with the bytes that Rust sees                                    *)
TypeOK ==
    /\ kind \in Kinds /\ empty \in BOOLEAN
    /\ rust \in {"none", "owned", "borrowed", "gone"} /\ raw \in {"none", "ref"}
    /\ hasData \in BOOLEAN /\ shared \in BOOLEAN /\ strong \in BOOLEAN
    /\ box \in Boxes /\ buffer \in BufferStates
    /\ strays \in Nat /\ frees \in Nat /\ history \subseteq Exceptions
    /\ ViewInBuffer

(* Rust or JS can still reach the data.                                    *)
DataInUse ==
    \/ rust = "owned" /\ hasData /\ "dangling" \notin history
    \/ shared /\ (buffer = "reachable" \/ strong)

(* The value whose bytes Rust sees has not been collected.                 *)
SeenIsAlive ==
    kind = "js" /\ rust \in {"owned", "borrowed"} =>
        buffer \in {"reachable", "unreachable"}

(* Data that Rust and JS share is freed, or its notify callback called,    *)
(* once at most and when neither can reach it any more, unless a &mut      *)
(* conversion failed halfway; what JS made lives as long as Rust sees it.  *)
FreedOnceUnused ==
    /\ "halfway" \notin history => frees <= 1 /\ (frees = 1 => ~DataInUse)
    /\ SeenIsAlive

(* "The caller will be notified when the data is deallocated by vm": when  *)
(* Rust and JS are done with a value its data was freed and its reference  *)
(* deleted, unless it was converted by &mut or an N-API call failed and    *)
(* left the owner behind.                                                  *)
FreedInTheEnd ==
    /\ rust = "gone" /\ buffer \in {"none", "collected"} /\ strays = 0
    /\ history \cap {"by_ref", "halfway", "leaked"} = {}
    => /\ frees = (IF kind \in {"js", "copied"} THEN 0 ELSE 1)
       /\ ~strong

=============================================================================
