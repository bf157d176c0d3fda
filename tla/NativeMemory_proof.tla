------------------------- MODULE NativeMemory_proof -------------------------
(* Proofs about the memory that Rust and JS share: TypedArrays, for every  *)
(* length and any number of failures, and Attachments, for any values,     *)
(* objects and types.                                                      *)
EXTENDS TypedArrays, Attachments, FiniteSetTheorems, TLAPS

(* The Rust value is the one that will free the data.                      *)
RustOwns == rust = "owned" /\ hasData /\ kind \in {"vec", "external"}

Weight(owns) == IF owns THEN 1 ELSE 0

(* How often the data was freed, or will be by those that own it.          *)
Owners == frees + strays + Weight(box = "armed") + Weight(RustOwns)

(* What the data of a value rests on: whoever is not made owns nothing,    *)
(* a reference keeps its JS value alive and belongs to a Rust value, and   *)
(* memory that JS shares has a hint until it is collected.                 *)
Structure ==
    /\ rust = "none" => /\ raw = "none" /\ ~hasData /\ box = "none"
                        /\ strays = 0 /\ frees = 0 /\ ~strong /\ history = {}
                        /\ ~shared /\ (kind # "js" => buffer = "none")
    /\ rust = "gone" => raw = "none" /\ ~hasData
    /\ rust = "owned" /\ raw = "ref" => strong
    /\ raw = "ref" /\ hasData => "by_ref" \in history
    /\ strong => buffer \in {"reachable", "unreachable"}
    /\ strong => (rust = "owned" /\ raw = "ref") \/ "leaked" \in history
    /\ Owned /\ raw = "none" => buffer = "none" /\ kind # "js" /\ ~shared
    /\ buffer \in {"none", "collected"} => box = "none"
    /\ shared /\ buffer # "collected" => box # "none"
    /\ kind \in Slices => ~strong /\ raw = "none"
    /\ InCall => buffer = "reachable" /\ raw = "none"
    /\ rust = "borrowed" => kind = "js" /\ ~strong /\ frees = 0
    /\ kind \in {"slice", "lent"} /\ rust = "owned" /\ hasData =>
           shared \/ "dangling" \in history
    /\ kind \in {"js", "copied"} =>
           ~hasData /\ ~shared /\ box = "none" /\ strays = 0

(* Without a conversion that failed halfway the data has one owner at      *)
(* most, none if the hint is inert, and exactly one (or was freed once)    *)
(* where no owner was left behind.                                         *)
Ownership ==
    "halfway" \notin history =>
        /\ Owners <= 1
        /\ box = "inert" => Owners = 0 /\ "by_ref" \in history
        /\ kind \in {"js", "copied"} => Owners = 0
        /\ kind \notin {"js", "copied"} /\ rust # "none"
              /\ history \cap {"by_ref", "leaked"} = {} => Owners = 1

IndInv == TypeOK /\ Structure /\ Ownership

(* normalize_typed_array_lengths never returns more bytes than there are.  *)
LEMMA ByteLengthFits ==
  ASSUME NEW available \in Nat, NEW reported \in Nat, NEW size \in ElementSizes
  PROVE  ByteLength(available, reported, size) \in 0..available
<1>1. CASE size = 1
  BY <1>1 DEF ByteLength, Smaller
<1>2. CASE size = 2
  BY <1>2 DEF ByteLength, Smaller
<1>3. CASE size = 4
  BY <1>3 DEF ByteLength, Smaller
<1>4. CASE size = 8
  BY <1>4 DEF ByteLength, Smaller
<1> QED
  BY <1>1, <1>2, <1>3, <1>4 DEF ElementSizes

(* A view made of a normalised length lies in its ArrayBuffer.              *)
LEMMA ViewFits ==
  ASSUME NEW length \in 0..MaxBytes, NEW offset \in 0..length,
         NEW reported \in Nat, NEW size \in ElementSizes,
         view' = <<offset,
                   offset + ByteLength(length - offset, reported, size),
                   length>>
  PROVE  ViewInBuffer'
<1> DEFINE n == ByteLength(length - offset, reported, size)
<1>1. length - offset \in Nat
  BY BoundsAssumption
<1>2. n \in 0..(length - offset)
  BY <1>1, ByteLengthFits
<1> HIDE DEF n
<1>3. offset + n \in 0..length
  BY <1>2, BoundsAssumption
<1>4. view' = <<offset, offset + n, length>>
  BY DEF n
<1>5. /\ offset \in 0..MaxBytes /\ offset + n \in 0..MaxBytes
      /\ offset <= offset + n /\ offset + n <= length
  BY <1>2, <1>3, BoundsAssumption
<1> QED
  BY <1>4, <1>5 DEF ViewInBuffer

(* A value that is not made yet satisfies the inductive invariant.         *)
LEMMA InitIndInv == Init => IndInv
<1> SUFFICES ASSUME Init PROVE IndInv
  OBVIOUS
<1>1. ViewInBuffer
  <2>1. view = <<0, 0, 0>> /\ 0 \in 0..MaxBytes
    BY BoundsAssumption DEF Init
  <2> QED
    BY <2>1 DEF ViewInBuffer
<1>2. buffer \in BufferStates
  BY DEF Init, BufferStates
<1>3. TypeOK
  BY <1>1, <1>2 DEF Init, TypeOK, Boxes
<1>4. Structure
  BY DEF Init, Structure, Owned, InCall, Kinds, Slices
<1>5. Ownership
  BY DEF Init, Ownership, Owners, RustOwns, Weight
<1> QED
  BY <1>3, <1>4, <1>5 DEF IndInv

(* What every step disturbs of it.                                         *)
LEMMA NextIndInv == IndInv /\ [Next]_vars => IndInv'
<1> SUFFICES ASSUME IndInv, [Next]_vars PROVE IndInv'
  OBVIOUS
<1> USE DEF IndInv, Slices, InCall
<1>1. CASE New
  <2>1. TypeOK'
    <3>1. ViewInBuffer'
      BY <1>1 DEF New, TypeOK, ViewInBuffer,
         given, rustVars, jsVars
    <3> QED
      BY <1>1, <3>1 DEF New, TypeOK, Boxes, BufferStates, Exceptions, given,
         rustVars, jsVars
  <2>2. Structure'
    BY <1>1 DEF New, Structure, TypeOK, Boxes, BufferStates, Owned, given,
       rustVars, jsVars
  <2>3. Ownership'
    BY <1>1 DEF New, Ownership, Structure, Owners, RustOwns, Weight, TypeOK,
       Kinds, Boxes, BufferStates, Owned, given, rustVars, jsVars
  <2> QED
    BY <2>1, <2>2, <2>3
<1>2. CASE FromJs
  <2>1. ViewInBuffer'
    <3>1. CASE view' = view
      BY <3>1 DEF TypeOK, ViewInBuffer
    <3>2. CASE See
      BY <3>2, ViewFits, BoundsAssumption DEF See
    <3> QED
      BY <1>2, <3>1, <3>2 DEF FromJs
  <2>2. TypeOK'
    BY <1>2, <2>1 DEF FromJs, Note, TypeOK, Exceptions, given, rustVars,
       jsVars
  <2>3. Structure'
    BY <1>2 DEF FromJs, Note, Structure, TypeOK, Boxes, BufferStates, Owned,
       given, rustVars, jsVars
  <2>4. Ownership'
    BY <1>2 DEF FromJs, Note, Ownership, Structure, Owners, RustOwns, Weight,
       TypeOK, Kinds, Boxes, BufferStates, Owned, given, rustVars, jsVars
  <2> QED
    BY <2>2, <2>3, <2>4
<1>3. CASE SliceCopied
  <2>1. TypeOK'
    <3>1. ViewInBuffer'
      BY <1>3 DEF SliceCopied, TypeOK, ViewInBuffer
    <3>2. frees' \in Nat /\ strays' \in Nat
      BY <1>3 DEF SliceCopied, NewSlice, HandOut, Note, TypeOK, jsVars
    <3>3. history' \subseteq Exceptions
      BY <1>3 DEF SliceCopied, NewSlice, HandOut, Note, TypeOK, Exceptions
    <3> QED
      BY <1>3, <3>1, <3>2, <3>3 DEF SliceCopied, NewSlice, HandOut, Note,
         TypeOK, Boxes, BufferStates, given, rustVars, jsVars
  <2>2. Structure'
    BY <1>3 DEF SliceCopied, NewSlice, HandOut, Note, Structure, TypeOK,
       Boxes, BufferStates, Owned, given, rustVars, jsVars
  <2>3. Ownership'
    BY <1>3 DEF SliceCopied, NewSlice, HandOut, Note, Ownership, Structure,
       Owners, RustOwns, Weight, TypeOK, Kinds, Boxes, BufferStates, Owned,
       given, rustVars, jsVars
  <2> QED
    BY <2>1, <2>2, <2>3
<1>4. CASE SliceExternal
  <2>1. TypeOK'
    <3>1. ViewInBuffer'
      BY <1>4 DEF SliceExternal, TypeOK, ViewInBuffer
    <3>2. frees' \in Nat /\ strays' \in Nat
      BY <1>4 DEF SliceExternal, NewSlice, HandOut, TypeOK, jsVars
    <3>3. history' \subseteq Exceptions
      BY <1>4 DEF SliceExternal, NewSlice, HandOut, TypeOK, Exceptions
    <3> QED
      BY <1>4, <3>1, <3>2, <3>3 DEF SliceExternal, NewSlice, HandOut, TypeOK,
         Boxes, BufferStates, given, rustVars, jsVars
  <2>2. Structure'
    BY <1>4 DEF SliceExternal, NewSlice, HandOut, Structure, TypeOK, Boxes,
       BufferStates, Owned, given, rustVars, jsVars
  <2>3. Ownership'
    BY <1>4 DEF SliceExternal, NewSlice, HandOut, Ownership, Structure,
       Owners, RustOwns, Weight, TypeOK, Kinds, Boxes, BufferStates, Owned,
       given, rustVars, jsVars
  <2> QED
    BY <2>1, <2>2, <2>3
<1>5. CASE SliceFails
  <2>1. TypeOK'
    <3>1. ViewInBuffer'
      BY <1>5 DEF SliceFails, TypeOK, ViewInBuffer
    <3>2. frees' \in Nat /\ strays' \in Nat
      BY <1>5 DEF SliceFails, NewSlice, Note, TypeOK, jsVars
    <3>3. history' \subseteq Exceptions
      BY <1>5 DEF SliceFails, NewSlice, Note, TypeOK, Exceptions
    <3> QED
      BY <1>5, <3>1, <3>2, <3>3 DEF SliceFails, NewSlice, Note, TypeOK,
         Boxes, BufferStates, given, rustVars, jsVars
  <2>2. Structure'
    BY <1>5 DEF SliceFails, NewSlice, Note, Structure, TypeOK, Boxes,
       BufferStates, Owned, given, rustVars, jsVars
  <2>3. Ownership'
    BY <1>5 DEF SliceFails, NewSlice, Note, Ownership, Structure, Owners,
       RustOwns, Weight, TypeOK, Kinds, Boxes, BufferStates, Owned, given,
       rustVars, jsVars
  <2> QED
    BY <2>1, <2>2, <2>3
<1>6. CASE ReturnReferred
  <2>1. TypeOK'
    <3>1. ViewInBuffer'
      BY <1>6 DEF ReturnReferred, Consumed, TypeOK, ViewInBuffer,
         given, rustVars, jsVars
    <3> QED
      BY <1>6, <3>1
      DEF ReturnReferred, Owned, Consumed, TypeOK, Boxes, BufferStates,
         Exceptions, given, rustVars, jsVars
  <2>2. Structure'
    BY <1>6 DEF ReturnReferred, Owned, Consumed, Structure, TypeOK, Boxes,
       BufferStates, given, rustVars, jsVars
  <2>3. Ownership'
    BY <1>6 DEF ReturnReferred, Owned, Consumed, Ownership, Structure,
       Owners, RustOwns, Weight, TypeOK, Kinds, Boxes, BufferStates, given,
       rustVars, jsVars
  <2> QED
    BY <2>1, <2>2, <2>3
<1>7. CASE ReturnCopied
  <2>1. TypeOK'
    <3>1. ViewInBuffer'
      BY <1>7 DEF ReturnCopied, Consumed, TypeOK, ViewInBuffer
    <3>2. frees' \in Nat /\ strays' \in Nat
      BY <1>7 DEF ReturnCopied, Owned, Consumed, FreeOwn, HandOut, TypeOK,
         jsVars
    <3>3. history' \subseteq Exceptions
      BY <1>7 DEF ReturnCopied, Owned, Consumed, FreeOwn, HandOut, TypeOK,
         Exceptions
    <3> QED
      BY <1>7, <3>1, <3>2, <3>3 DEF ReturnCopied, Owned, Consumed, FreeOwn,
         HandOut, TypeOK, Boxes, BufferStates, given, rustVars, jsVars
  <2>2. Structure'
    BY <1>7 DEF ReturnCopied, Owned, Consumed, FreeOwn, HandOut, Structure,
       TypeOK, Boxes, BufferStates, given, rustVars, jsVars
  <2>3. Ownership'
    BY <1>7 DEF ReturnCopied, Owned, Consumed, FreeOwn, HandOut, Ownership,
       Structure, Owners, RustOwns, Weight, TypeOK, Kinds, Boxes,
       BufferStates, given, rustVars, jsVars
  <2> QED
    BY <2>1, <2>2, <2>3
<1>8. CASE ReturnExternal
  <2>1. TypeOK'
    <3>1. ViewInBuffer'
      BY <1>8 DEF ReturnExternal, Consumed, TypeOK, ViewInBuffer
    <3>2. frees' \in Nat /\ strays' \in Nat
      BY <1>8 DEF ReturnExternal, Owned, Consumed, NoLength, HandOut, TypeOK,
         jsVars
    <3>3. history' \subseteq Exceptions
      BY <1>8 DEF ReturnExternal, Owned, Consumed, NoLength, HandOut, TypeOK,
         Exceptions
    <3> QED
      BY <1>8, <3>1, <3>2, <3>3 DEF ReturnExternal, Owned, Consumed,
         NoLength, HandOut, TypeOK, Boxes, BufferStates, given, rustVars,
         jsVars
  <2>2. Structure'
    BY <1>8 DEF ReturnExternal, Owned, Consumed, NoLength, HandOut,
       Structure, TypeOK, Boxes, BufferStates, given, rustVars, jsVars
  <2>3. Ownership'
    BY <1>8 DEF ReturnExternal, Owned, Consumed, NoLength, HandOut,
       Ownership, Structure, Owners, RustOwns, Weight, TypeOK, Kinds, Boxes,
       BufferStates, given, rustVars, jsVars
  <2> QED
    BY <2>1, <2>2, <2>3
<1>9. CASE ReturnFails
  <2>1. TypeOK'
    <3>1. ViewInBuffer'
      BY <1>9 DEF ReturnFails, Consumed, TypeOK, ViewInBuffer,
         given, rustVars, jsVars
    <3> QED
      BY <1>9, <3>1
      DEF ReturnFails, Owned, Consumed, NoLength, Note, TypeOK, Boxes,
         BufferStates, Exceptions, given, rustVars, jsVars
  <2>2. Structure'
    BY <1>9 DEF ReturnFails, Owned, Consumed, NoLength, Note, Structure,
       TypeOK, Boxes, BufferStates, given, rustVars, jsVars
  <2>3. Ownership'
    BY <1>9 DEF ReturnFails, Owned, Consumed, NoLength, Note, Ownership,
       Structure, Owners, RustOwns, Weight, TypeOK, Kinds, Boxes,
       BufferStates, given, rustVars, jsVars
  <2> QED
    BY <2>1, <2>2, <2>3
<1>10. CASE LendReferred
  <2>1. TypeOK'
    <3>1. ViewInBuffer'
      BY <1>10 DEF LendReferred, TypeOK, ViewInBuffer,
         given, rustVars, jsVars
    <3> QED
      BY <1>10, <3>1 DEF LendReferred, Owned, TypeOK, Boxes, BufferStates,
         Exceptions, given, rustVars, jsVars
  <2>2. Structure'
    BY <1>10 DEF LendReferred, Owned, Structure, TypeOK, Boxes, BufferStates,
       given, rustVars, jsVars
  <2>3. Ownership'
    BY <1>10 DEF LendReferred, Owned, Ownership, Structure, Owners, RustOwns,
       Weight, TypeOK, Kinds, Boxes, BufferStates, given, rustVars, jsVars
  <2> QED
    BY <2>1, <2>2, <2>3
<1>11. CASE LendEmpty
  <2>1. TypeOK'
    <3>1. ViewInBuffer'
      BY <1>11 DEF LendEmpty, TypeOK, ViewInBuffer,
         given, rustVars, jsVars
    <3> QED
      BY <1>11, <3>1
      DEF LendEmpty, Owned, NoLength, HandOut, GainReference, Note,
         TypeOK, Boxes, BufferStates, Exceptions, given, rustVars, jsVars
  <2>2. Structure'
    BY <1>11 DEF LendEmpty, Owned, NoLength, HandOut, GainReference, Note,
       Structure, TypeOK, Boxes, BufferStates, given, rustVars, jsVars
  <2>3. Ownership'
    BY <1>11 DEF LendEmpty, Owned, NoLength, HandOut, GainReference, Note,
       Ownership, Structure, Owners, RustOwns, Weight, TypeOK, Kinds, Boxes,
       BufferStates, given, rustVars, jsVars
  <2> QED
    BY <2>1, <2>2, <2>3
<1>12. CASE LendCopied
  <2>1. TypeOK'
    <3>1. ViewInBuffer'
      BY <1>12 DEF LendCopied, TypeOK, ViewInBuffer
    <3>2. frees' \in Nat /\ strays' \in Nat
      BY <1>12 DEF LendCopied, Owned, NoLength, HandOut, GainReference,
         TypeOK, jsVars
    <3>3. history' \subseteq Exceptions
      BY <1>12 DEF LendCopied, Owned, NoLength, HandOut, GainReference,
         TypeOK, Exceptions
    <3> QED
      BY <1>12, <3>1, <3>2, <3>3 DEF LendCopied, Owned, NoLength, HandOut,
         GainReference, TypeOK, Boxes, BufferStates, given, rustVars, jsVars
  <2>2. Structure'
    BY <1>12 DEF LendCopied, Owned, NoLength, HandOut, GainReference,
       Structure, TypeOK, Boxes, BufferStates, given, rustVars, jsVars
  <2>3. Ownership'
    BY <1>12 DEF LendCopied, Owned, NoLength, HandOut, GainReference,
       Ownership, Structure, Owners, RustOwns, Weight, TypeOK, Kinds, Boxes,
       BufferStates, given, rustVars, jsVars
  <2> QED
    BY <2>1, <2>2, <2>3
<1>13. CASE LendExternal
  <2>1. TypeOK'
    <3>1. ViewInBuffer'
      BY <1>13 DEF LendExternal, TypeOK, ViewInBuffer,
         given, rustVars, jsVars
    <3> QED
      BY <1>13, <3>1
      DEF LendExternal, Owned, NoLength, HandOut, GainReference, Note,
         TypeOK, Boxes, BufferStates, Exceptions, given, rustVars, jsVars
  <2>2. Structure'
    BY <1>13 DEF LendExternal, Owned, NoLength, HandOut, GainReference, Note,
       Structure, TypeOK, Boxes, BufferStates, given, rustVars, jsVars
  <2>3. Ownership'
    BY <1>13 DEF LendExternal, Owned, NoLength, HandOut, GainReference, Note,
       Ownership, Structure, Owners, RustOwns, Weight, TypeOK, Kinds, Boxes,
       BufferStates, given, rustVars, jsVars
  <2> QED
    BY <2>1, <2>2, <2>3
<1>14. CASE LendHalfway
  <2>1. TypeOK'
    <3>1. ViewInBuffer'
      BY <1>14 DEF LendHalfway, TypeOK, ViewInBuffer,
         given, rustVars, jsVars
    <3> QED
      BY <1>14, <3>1 DEF LendHalfway, Owned, NoLength, Note, TypeOK, Boxes,
         BufferStates, Exceptions, given, rustVars, jsVars
  <2>2. Structure'
    BY <1>14 DEF LendHalfway, Owned, NoLength, Note, Structure, TypeOK,
       Boxes, BufferStates, given, rustVars, jsVars
  <2>3. Ownership'
    BY <1>14 DEF LendHalfway, Owned, NoLength, Note, Ownership, Structure,
       Owners, RustOwns, Weight, TypeOK, Kinds, Boxes, BufferStates, given,
       rustVars, jsVars
  <2> QED
    BY <2>1, <2>2, <2>3
<1>15. CASE Drop
  <2>1. TypeOK'
    <3>1. ViewInBuffer'
      BY <1>15 DEF Drop, Consumed, TypeOK, ViewInBuffer
    <3>2. frees' \in Nat /\ strays' \in Nat
      BY <1>15 DEF Drop, Owned, Consumed, FreeOwn, TypeOK, jsVars
    <3>3. history' \subseteq Exceptions
      BY <1>15 DEF Drop, Owned, Consumed, FreeOwn, TypeOK, Exceptions
    <3> QED
      BY <1>15, <3>1, <3>2, <3>3 DEF Drop, Owned, Consumed, FreeOwn, TypeOK,
         Boxes, BufferStates, given, rustVars, jsVars
  <2>2. Structure'
    BY <1>15 DEF Drop, Owned, Consumed, FreeOwn, Structure, TypeOK, Boxes,
       BufferStates, given, rustVars, jsVars
  <2>3. Ownership'
    BY <1>15 DEF Drop, Owned, Consumed, FreeOwn, Ownership, Structure,
       Owners, RustOwns, Weight, TypeOK, Kinds, Boxes, BufferStates, given,
       rustVars, jsVars
  <2> QED
    BY <2>1, <2>2, <2>3
<1>16. CASE SliceEnds
  <2>1. TypeOK'
    <3>1. ViewInBuffer'
      BY <1>16 DEF SliceEnds, Consumed, TypeOK, ViewInBuffer,
         given, rustVars, jsVars
    <3> QED
      BY <1>16, <3>1 DEF SliceEnds, Consumed, TypeOK, Boxes, BufferStates,
         Exceptions, given, rustVars, jsVars
  <2>2. Structure'
    BY <1>16 DEF SliceEnds, Consumed, Structure, TypeOK, Boxes, BufferStates,
       Owned, given, rustVars, jsVars
  <2>3. Ownership'
    BY <1>16 DEF SliceEnds, Consumed, Ownership, Structure, Owners, RustOwns,
       Weight, TypeOK, Kinds, Boxes, BufferStates, Owned, given, rustVars,
       jsVars
  <2> QED
    BY <2>1, <2>2, <2>3
<1>17. CASE Forget
  <2>1. TypeOK'
    <3>1. ViewInBuffer'
      BY <1>17 DEF Forget, TypeOK, ViewInBuffer,
         given, rustVars, jsVars
    <3> QED
      BY <1>17, <3>1
      DEF Forget, TypeOK, Boxes, BufferStates, Exceptions, given,
         rustVars, jsVars
  <2>2. Structure'
    BY <1>17 DEF Forget, Structure, TypeOK, Boxes, BufferStates, Owned,
       given, rustVars, jsVars
  <2>3. Ownership'
    BY <1>17 DEF Forget, Ownership, Structure, Owners, RustOwns, Weight,
       TypeOK, Kinds, Boxes, BufferStates, Owned, given, rustVars, jsVars
  <2> QED
    BY <2>1, <2>2, <2>3
<1>18. CASE Collect
  <2>1. TypeOK'
    <3>1. ViewInBuffer'
      BY <1>18 DEF Collect, TypeOK, ViewInBuffer,
         given, rustVars, jsVars
    <3> QED
      BY <1>18, <3>1
      DEF Collect, TypeOK, Boxes, BufferStates, Exceptions, given,
         rustVars, jsVars
  <2>2. Structure'
    BY <1>18 DEF Collect, Structure, TypeOK, Boxes, BufferStates, Owned,
       given, rustVars, jsVars
  <2>3. Ownership'
    BY <1>18 DEF Collect, Ownership, Structure, Owners, RustOwns, Weight,
       TypeOK, Kinds, Boxes, BufferStates, Owned, given, rustVars, jsVars
  <2> QED
    BY <2>1, <2>2, <2>3
<1>19. CASE CollectStray
  <2>1. TypeOK'
    <3>1. ViewInBuffer'
      BY <1>19 DEF CollectStray, TypeOK, ViewInBuffer,
         given, rustVars, jsVars
    <3> QED
      BY <1>19, <3>1 DEF CollectStray, TypeOK, Boxes, BufferStates, Exceptions,
         given, rustVars, jsVars
  <2>2. Structure'
    BY <1>19 DEF CollectStray, Structure, TypeOK, Boxes, BufferStates, Owned,
       given, rustVars, jsVars
  <2>3. Ownership'
    BY <1>19 DEF CollectStray, Ownership, Structure, Owners, RustOwns,
       Weight, TypeOK, Kinds, Boxes, BufferStates, Owned, given, rustVars,
       jsVars
  <2> QED
    BY <2>1, <2>2, <2>3
<1>20. CASE BorrowSlice
  <2>1. ViewInBuffer'
    <3>1. CASE view' = view
      BY <3>1 DEF TypeOK, ViewInBuffer
    <3>2. CASE See
      BY <3>2, ViewFits, BoundsAssumption DEF See
    <3> QED
      BY <1>20, <3>1, <3>2 DEF BorrowSlice
  <2>2. TypeOK'
    BY <1>20, <2>1 DEF BorrowSlice, TypeOK, given, jsVars
  <2>3. Structure'
    BY <1>20
    DEF BorrowSlice, Structure, TypeOK, Boxes, BufferStates, Owned, given,
       jsVars
  <2>4. Ownership'
    BY <1>20 DEF BorrowSlice, Ownership, Structure, Owners, RustOwns, Weight,
       TypeOK, Kinds, Boxes, BufferStates, Owned, given, jsVars
  <2> QED
    BY <2>2, <2>3, <2>4
<1>21. CASE CopyFrom
  <2>1. TypeOK'
    <3>1. ViewInBuffer'
      BY <1>21 DEF CopyFrom, TypeOK, ViewInBuffer
    <3> QED
      BY <1>21, <3>1 DEF CopyFrom, HandOut, TypeOK, Boxes, BufferStates, given
  <2>2. Structure'
    BY <1>21 DEF CopyFrom, HandOut, Structure, TypeOK, Boxes, BufferStates,
       Owned, given
  <2>3. Ownership'
    BY <1>21 DEF CopyFrom, HandOut, Ownership, Structure, Owners, RustOwns,
       Weight, TypeOK, Kinds, Boxes, BufferStates, Owned, given
  <2> QED
    BY <2>1, <2>2, <2>3
<1>22. CASE SliceStray
  <2>1. TypeOK'
    <3>1. ViewInBuffer'
      BY <1>22 DEF SliceStray, TypeOK, ViewInBuffer
    <3> QED
      BY <1>22, <3>1 DEF SliceStray, NewSlice, TypeOK, Boxes, BufferStates,
         given
  <2>2. Structure'
    BY <1>22 DEF SliceStray, NewSlice, Structure, TypeOK, Boxes, BufferStates,
       Owned, given
  <2>3. Ownership'
    BY <1>22 DEF SliceStray, NewSlice, Ownership, Structure, Owners, RustOwns,
       Weight, TypeOK, Kinds, Boxes, BufferStates, Owned, given
  <2> QED
    BY <2>1, <2>2, <2>3
<1>23. CASE UNCHANGED vars
  BY <1>23 DEF vars, given, rustVars, jsVars, TypeOK, ViewInBuffer, Structure,
     Ownership, Owners, RustOwns, Weight, Owned
<1> QED
  BY <1>1, <1>2, <1>3, <1>4, <1>5, <1>6, <1>7, <1>8, <1>9, <1>10, <1>11,
     <1>12, <1>13, <1>14, <1>15, <1>16, <1>17, <1>18, <1>19, <1>20, <1>21,
     <1>22, <1>23
     DEF Next, Make, Return, Lend, Done

(* The inductive invariant holds in every reachable state.                 *)
THEOREM Invariance == Spec => []IndInv
  BY InitIndInv, NextIndInv, PTL DEF Spec

(* Types are kept, and Rust never sees more of an ArrayBuffer than there   *)
(* is, for every length (normalize_typed_array_lengths).                   *)
THEOREM ViewFitsBuffer == Spec => []TypeOK
<1>1. IndInv => TypeOK
  BY DEF IndInv
<1> QED
  BY <1>1, Invariance, PTL

(* No double free and no use after free of data that Rust and JS share,    *)
(* unless a &mut conversion failed halfway; and no look at a value of JS   *)
(* that was collected.                                                     *)
THEOREM FreedOnce == Spec => []FreedOnceUnused
<1>1. IndInv => FreedOnceUnused
  BY DEF IndInv, TypeOK, Structure, Ownership, Owners, RustOwns, Weight,
         FreedOnceUnused, SeenIsAlive, DataInUse, Kinds, Slices, InCall, Owned,
         Boxes, BufferStates
<1> QED
  BY <1>1, Invariance, PTL

(* No leak of the data, and no lost notification, but in the cases that    *)
(* the property names.                                                     *)
THEOREM FreedAtTheEnd == Spec => []FreedInTheEnd
<1>1. IndInv => FreedInTheEnd
  BY DEF IndInv, TypeOK, Structure, Ownership, Owners, RustOwns, Weight,
         FreedInTheEnd, Kinds, Slices, InCall, Boxes, BufferStates
<1> QED
  BY <1>1, Invariance, PTL

-----------------------------------------------------------------------------
(* The inductive invariant of Attachments                                  *)

Carried == {"wrap", "external", "legacy", "finalizer", "function",
            "accessors"}
Hooks == {"hook", "async_hook"}
JsStates == {"none", "reachable", "unreachable", "collected"}

StoreTypes ==
    /\ AttachTypes
    /\ js \in [Objects -> JsStates]
    /\ ref \in [Objects -> {"none", "held", "lost"}]
    /\ kept \subseteq Natives /\ hooks \subseteq Natives /\ ended \in BOOLEAN

(* A value is freed with the first of its carriers that is collected, and  *)
(* once if there is one carrier.                                           *)
FreedWith(n) ==
    /\ (\A o \in carriers[n] : js[o] # "collected") => freed[n] = 0
    /\ (\E o \in carriers[n] : js[o] = "collected") => freed[n] >= 1
    /\ \A o \in Objects : carriers[n] = {o} => freed[n] <= 1

(* What frees a value, and what it is reached through, by its way.         *)
ValueInv(n) ==
    /\ IsFiniteSet(carriers[n])
    /\ \A o \in carriers[n] \cup doors[n] : js[o] # "none"
    /\ way[n] = "none" => lost[n] = "no" /\ freed[n] = 0
    /\ lost[n] # "no" => freed[n] = 0 /\ carriers[n] = {}
    /\ way[n] \notin Carried => carriers[n] = {}
    /\ way[n] \in Carried /\ lost[n] = "no" =>
          \/ carriers[n] # {} /\ FreedWith(n)
          \/ way[n] = "wrap" /\ carriers[n] = {} /\ freed[n] = 1
    /\ way[n] # "accessors" =>
          carriers[n] = {} \/ \E o \in Objects : carriers[n] = {o}
    /\ way[n] \in Carried \ {"finalizer", "accessors"} =>
          doors[n] = carriers[n]
    /\ way[n] = "accessors" => doors[n] \subseteq carriers[n]
    /\ way[n] \notin (Carried \ {"finalizer"}) \cup {"class"} => doors[n] = {}
    /\ way[n] = "class" => lost[n] = "class"

(* The values of the environment, until it ends.                           *)
EnvInv(n) ==
    /\ n = instance => way[n] = "instance" /\ lost[n] = "no" /\ freed[n] = 0
    /\ n \in kept => way[n] = "instance"
    /\ n \in hooks => way[n] \in Hooks /\ lost[n] = "no" /\ freed[n] = 0
    /\ n \in hooks => ~ended
    /\ n \in handles => way[n] = "async_hook"
    /\ way[n] = "instance" /\ lost[n] = "no" /\ n # instance =>
          ended /\ freed[n] = 1
    /\ way[n] \in Hooks /\ lost[n] = "no" /\ n \notin hooks =>
          ended /\ freed[n] = 1

(* What a function borrowed, and what a reference holds, is not collected  *)
(* before the environment ends.                                            *)
HeldInv ==
    /\ borrowed # Nothing =>
          /\ ~ended /\ way[borrowed] \in {"wrap", "external", "legacy"}
          /\ \A o \in doors[borrowed] : js[o] = "reachable"
    /\ \A o \in Objects :
          ref[o] # "none" => js[o] \in {"reachable", "unreachable"} \/ ended

(* A value with two carriers, or that Rust reached too late.               *)
Many(n) == \E o, p \in carriers[n] : o # p

Excused(n) ==
    \/ Many(n)
    \/ way[n] = "wrap" /\ carriers[n] = {}
    \/ ended /\ way[n] \in {"external", "instance", "async_hook"}

UsedInv == \A n \in badUses : way[n] # "none" /\ Excused(n)

AttachInv ==
    /\ StoreTypes /\ HeldInv /\ ReadAsIs /\ UsedInv
    /\ \A n \in Natives : ValueInv(n)
    /\ \A n \in Natives : EnvInv(n)

-----------------------------------------------------------------------------
(* What a step leaves alone                                                *)

(* A value that a step does not touch.                                     *)
LEMMA SameValue ==
  ASSUME NEW n \in Natives, ValueInv(n),
         carriers'[n] = carriers[n], doors'[n] = doors[n],
         way'[n] = way[n], lost'[n] = lost[n], freed'[n] = freed[n],
         \A o \in carriers[n] \cup doors[n] :
            js[o] # "none" => js'[o] # "none",
         \A o \in carriers[n] :
            js[o] # "none" => (js'[o] = "collected" <=> js[o] = "collected")
  PROVE  ValueInv(n)'
<1>1. \A o \in carriers[n] \cup doors[n] : js[o] # "none"
  BY DEF ValueInv
<1>2. FreedWith(n) => FreedWith(n)'
  BY <1>1 DEF FreedWith
<1> QED
  BY <1>1, <1>2 DEF ValueInv

(* ... nor in what the environment has of it.                              *)
LEMMA SameEnv ==
  ASSUME NEW n \in Natives, EnvInv(n),
         way'[n] = way[n], lost'[n] = lost[n], freed'[n] = freed[n],
         n = instance' <=> n = instance, n \in hooks' <=> n \in hooks,
         n \in kept' => n \in kept \/ way[n] = "instance",
         n \in handles' => n \in handles \/ way[n] = "async_hook",
         ended' = ended
  PROVE  EnvInv(n)'
BY DEF EnvInv

(* What was used too late stays excused.                                   *)
LEMMA StillExcused ==
  ASSUME UsedInv, badUses' = badUses, ended => ended',
         \A n \in badUses : way[n] # "none" =>
            /\ way'[n] = way[n]
            /\ \/ carriers'[n] = carriers[n]
               \/ way[n] = "accessors" /\ carriers[n] \subseteq carriers'[n]
               \/ way[n] = "wrap" /\ carriers'[n] = {}
  PROVE  UsedInv'
BY DEF UsedInv, Excused, Many

(* A use that is excused, or of a value that is not freed.                 *)
LEMMA UseExcused ==
  ASSUME UsedInv, badUses \subseteq Natives, NEW n \in Natives, Use(n),
         freed[n] > 0 => way[n] # "none" /\ Excused(n),
         way' = way, carriers' = carriers, ended' = ended
  PROVE  UsedInv' /\ badUses' \subseteq Natives
<1>1. badUses' = badUses \/ (badUses' = badUses \cup {n} /\ freed[n] > 0)
  BY DEF Use
<1>2. Many(n)' = Many(n) /\ Excused(n)' = Excused(n)
  BY DEF Many, Excused
<1> QED
  BY <1>1 DEF UsedInv, Excused, Many

(* What is read is still read as what it is.                               *)
LEMMA StillAsIs ==
  ASSUME StoreTypes, ReadAsIs, misread' = misread, tag' = tag,
         \A n \in Natives : way[n] # "none" => way'[n] = way[n]
  PROVE  ReadAsIs'
<1>1. \A m \in misread : m[1] \in Natives
  BY DEF StoreTypes, AttachTypes
<1> QED
  BY <1>1 DEF ReadAsIs, Externals

(* A value that is reached through an object that JavaScript has is not    *)
(* freed, unless it has other carriers.                                    *)
LEMMA ReachedIsAlive ==
  ASSUME AttachInv, NEW n \in Natives, NEW o \in Objects,
         o \in doors[n], js[o] # "collected", freed[n] > 0
  PROVE  way[n] = "accessors" /\ Many(n)
<1>1. ValueInv(n) /\ freed[n] # 0
  BY DEF AttachInv
<1>2. way[n] # "none" /\ lost[n] = "no"
  BY <1>1 DEF ValueInv
<1>3. way[n] \in Carried \ {"finalizer"} /\ o \in carriers[n]
  BY <1>1, <1>2 DEF ValueInv, Carried
<1>4. FreedWith(n)
  BY <1>1, <1>2, <1>3 DEF ValueInv
<1>5. PICK p \in carriers[n] : js[p] = "collected"
  BY <1>1, <1>4 DEF FreedWith
<1>6. Many(n)
  BY <1>3, <1>5 DEF Many
<1> QED
  BY <1>1, <1>3, <1>6 DEF ValueInv, Many

-----------------------------------------------------------------------------
(* The steps keep the invariant                                            *)

(* Nothing is given away at first.                                         *)
LEMMA AttachInitInv == AttachInit => AttachInv
<1> SUFFICES ASSUME AttachInit PROVE AttachInv
  OBVIOUS
<1>1. StoreTypes
  BY AttachAssumption
  DEF AttachInit, StoreTypes, AttachTypes, Ways, Losses, JsStates
<1>2. \A n \in Natives : ValueInv(n) /\ EnvInv(n)
  BY FS_EmptySet, AttachAssumption
  DEF AttachInit, ValueInv, EnvInv, Carried, Hooks
<1> QED
  BY <1>1, <1>2 DEF AttachInit, AttachInv, HeldInv, ReadAsIs, UsedInv

(* An object is made, referred to, or let go of: no value is touched, and  *)
(* what is held stays.                                                     *)
LEMMA ObjectKeeps ==
  ASSUME AttachInv,
         UNCHANGED <<tag, nativeVars, freed, envVars, seen>>,
         js' \in [Objects -> JsStates],
         ref' \in [Objects -> {"none", "held", "lost"}],
         \A o \in Objects :
            /\ js[o] # "none" => js'[o] # "none"
            /\ js'[o] = "collected" <=> js[o] = "collected",
         \A o \in Objects :
            ref'[o] # "none" =>
               js'[o] \in {"reachable", "unreachable"} \/ ended,
         borrowed # Nothing =>
            \A o \in doors[borrowed] : js[o] = "reachable" => js'[o] = js[o]
  PROVE  AttachInv'
<1>1. /\ tag' = tag /\ way' = way /\ carriers' = carriers /\ doors' = doors
      /\ lost' = lost /\ freed' = freed
      /\ instance' = instance /\ kept' = kept /\ hooks' = hooks
      /\ handles' = handles /\ ended' = ended
      /\ borrowed' = borrowed /\ badUses' = badUses /\ misread' = misread
  BY DEF nativeVars, envVars, seen
<1>2. StoreTypes'
  BY <1>1 DEF AttachInv, StoreTypes, AttachTypes
<1>3. ReadAsIs' /\ UsedInv'
  BY <1>1, StillAsIs, StillExcused DEF AttachInv
<1>4. HeldInv'
  BY <1>1 DEF AttachInv, HeldInv
<1>5. ASSUME NEW n \in Natives PROVE ValueInv(n)' /\ EnvInv(n)'
  <2>1. carriers[n] \subseteq Objects /\ doors[n] \subseteq Objects
    BY DEF AttachInv, StoreTypes, AttachTypes
  <2>2. ValueInv(n)'
    BY <1>1, <2>1, SameValue DEF AttachInv
  <2>3. EnvInv(n)'
    BY <1>1, SameEnv DEF AttachInv
  <2> QED
    BY <2>2, <2>3
<1> QED
  BY <1>2, <1>3, <1>4, <1>5 DEF AttachInv

(* The steps of that kind.                                                 *)
LEMMA ObjectsKeep ==
  ASSUME AttachInv, NEW o \in Objects,
         \/ NewObject(o) \/ TakeRef(o) \/ GetValue(o) \/ DropRef(o)
         \/ LoseRef(o) \/ Unreach(o)
  PROVE  AttachInv'
<1>1. /\ js \in [Objects -> JsStates]
      /\ ref \in [Objects -> {"none", "held", "lost"}]
      /\ doors \in [Natives -> SUBSET Objects]
      /\ borrowed \in Natives \cup {Nothing}
      /\ \A p \in Objects : ref[p] # "none" =>
                               js[p] \in {"reachable", "unreachable"} \/ ended
  BY DEF AttachInv, StoreTypes, AttachTypes, HeldInv
<1>2. CASE NewObject(o)
  BY <1>1, <1>2, ObjectKeeps DEF NewObject, JsStates
<1>3. CASE TakeRef(o)
  BY <1>1, <1>3, ObjectKeeps DEF TakeRef, Present
<1>4. CASE GetValue(o)
  BY <1>1, <1>4, ObjectKeeps DEF GetValue, JsStates
<1>5. CASE DropRef(o)
  BY <1>1, <1>5, ObjectKeeps DEF DropRef
<1>6. CASE LoseRef(o)
  BY <1>1, <1>6, ObjectKeeps DEF LoseRef
<1>7. CASE Unreach(o)
  BY <1>1, <1>7, ObjectKeeps DEF Unreach, Present, JsStates
<1> QED
  BY <1>2, <1>3, <1>4, <1>5, <1>6, <1>7

(* A value is looked at or called: nothing changes but what Rust has seen, *)
(* borrows and keeps.                                                      *)
LEMMA SeenKeeps ==
  ASSUME AttachInv,
         UNCHANGED <<tag, nativeVars, freed, jsObjects, instance, hooks,
                     handles, ended>>,
         UsedInv', badUses' \subseteq Natives,
         ReadAsIs', misread' \subseteq Natives \X Tags,
         kept' \subseteq Natives,
         \A n \in kept' : n \in kept \/ way[n] = "instance",
         borrowed' \in Natives \cup {Nothing},
         borrowed' # Nothing =>
            /\ ~ended /\ way[borrowed'] \in {"wrap", "external", "legacy"}
            /\ \A o \in doors[borrowed'] : js[o] = "reachable"
  PROVE  AttachInv'
<1>1. /\ tag' = tag /\ way' = way /\ carriers' = carriers /\ doors' = doors
      /\ lost' = lost /\ freed' = freed /\ js' = js /\ ref' = ref
      /\ instance' = instance /\ hooks' = hooks
      /\ handles' = handles /\ ended' = ended
  BY DEF nativeVars, jsObjects
<1>2. StoreTypes'
  BY <1>1 DEF AttachInv, StoreTypes, AttachTypes
<1>3. HeldInv'
  BY <1>1 DEF AttachInv, HeldInv
<1>4. ASSUME NEW n \in Natives PROVE ValueInv(n)' /\ EnvInv(n)'
  <2>1. ValueInv(n)'
    BY <1>1, SameValue DEF AttachInv
  <2>2. EnvInv(n)'
    BY <1>1, SameEnv DEF AttachInv
  <2> QED
    BY <2>1, <2>2
<1> QED
  BY <1>2, <1>3, <1>4 DEF AttachInv

(* unwrap and the two ways to take an external: the type is compared, the  *)
(* layout is not.                                                          *)
LEMMA LookAtKeeps ==
  ASSUME AttachInv, NEW o \in Objects, NEW t \in Tags, LookAt(o, t)
  PROVE  AttachInv'
<1>1. PICK ways \in {{"wrap"}, Externals},
           layout \in {"wrap", "external", "legacy"} :
         /\ Borrow(o, t, ways, layout)
         /\ ways = {"wrap"} => layout = "wrap"
  <2>1. CASE Unwrap(o, t)
    BY <2>1 DEF Unwrap
  <2>2. CASE FromNapiMutRef(o, t)
    BY <2>2 DEF FromNapiMutRef, Externals
  <2>3. CASE GetValueExternal(o, t)
    BY <2>3 DEF GetValueExternal, Externals
  <2> QED
    BY <2>1, <2>2, <2>3 DEF LookAt
<1>2. PICK n \in Natives :
         /\ o \in doors[n] /\ way[n] \in ways /\ IsA(n, t)
         /\ borrowed' = n
         /\ Use(n)
         /\ Read(n, t, layout)
  BY <1>1 DEF Borrow
<1>3. /\ UNCHANGED <<tag, nativeVars, freed, jsObjects, envVars>>
      /\ js[o] = "reachable" /\ ~ended
  BY <1>1 DEF Borrow, Present
<1>4. /\ way' = way /\ carriers' = carriers /\ ended' = ended /\ tag' = tag
      /\ kept' = kept
  BY <1>3 DEF nativeVars, envVars
<1>5. way[n] \in {"wrap", "external", "legacy"}
  BY <1>2 DEF Externals
<1>6. UsedInv' /\ badUses' \subseteq Natives
  <2>1. freed[n] \in Nat
    BY DEF AttachInv, StoreTypes, AttachTypes
  <2>2. ~(freed[n] > 0)
    BY <1>2, <1>3, <1>5, ReachedIsAlive
  <2> QED
    BY <1>2, <1>4, <2>2, UseExcused DEF AttachInv, StoreTypes, AttachTypes
<1>7. ReadAsIs' /\ misread' \subseteq Natives \X Tags
  <2>1. tag[n] = t
    BY <1>2 DEF IsA
  <2>2. misread' = misread \/ (misread' = misread \cup {<<n, t>>}
                               /\ way[n] \in Externals)
    BY <1>1, <1>2, <2>1 DEF Read
  <2>3. ReadAsIs /\ misread \subseteq Natives \X Tags
    BY DEF AttachInv, StoreTypes, AttachTypes
  <2> QED
    BY <1>4, <2>1, <2>2, <2>3 DEF ReadAsIs
<1>8. \A p \in doors[n] : js[p] = "reachable"
  BY <1>2, <1>3, <1>5 DEF AttachInv, ValueInv, Carried
<1> QED
  BY <1>2, <1>3, <1>4, <1>5, <1>6, <1>7, <1>8, SeenKeeps
  DEF envVars, AttachInv, StoreTypes

(* A call through an object, or of what Rust keeps.                        *)
LEMMA UseKeeps ==
  ASSUME AttachInv, NEW n \in Natives, Use(n),
         UNCHANGED <<tag, nativeVars, freed, jsObjects, envVars, misread>>,
         borrowed' \in {borrowed, Nothing},
         freed[n] > 0 => way[n] # "none" /\ Excused(n)
  PROVE  AttachInv'
<1>1. /\ way' = way /\ carriers' = carriers /\ ended' = ended /\ tag' = tag
      /\ misread' = misread /\ kept' = kept
  BY DEF nativeVars, envVars
<1>2. UsedInv' /\ badUses' \subseteq Natives
  BY <1>1, UseExcused DEF AttachInv, StoreTypes, AttachTypes
<1>3. ReadAsIs' /\ misread' \subseteq Natives \X Tags
  BY <1>1, StillAsIs DEF AttachInv, StoreTypes, AttachTypes
<1>4. /\ borrowed' \in Natives \cup {Nothing} /\ kept' \subseteq Natives
      /\ borrowed' # Nothing =>
            /\ ~ended /\ way[borrowed'] \in {"wrap", "external", "legacy"}
            /\ \A o \in doors[borrowed'] : js[o] = "reachable"
  BY <1>1 DEF AttachInv, StoreTypes, AttachTypes, HeldInv
<1> QED
  BY <1>1, <1>2, <1>3, <1>4, SeenKeeps DEF envVars

(* The steps of that kind.                                                 *)
LEMMA UsesKeep ==
  ASSUME AttachInv, NEW n \in Natives,
         \/ FunctionReturns(n) \/ UseKept(n)
         \/ \E o \in Objects : Through(o, n)
  PROVE  AttachInv'
<1>1. /\ ValueInv(n) /\ EnvInv(n) /\ freed[n] \in Nat
      /\ carriers[n] \subseteq Objects
  BY DEF AttachInv, StoreTypes, AttachTypes
<1>2. CASE FunctionReturns(n)
  <2>1. /\ borrowed = n /\ n # Nothing
        /\ way[n] \in {"wrap", "external", "legacy"}
        /\ \A o \in doors[n] : js[o] = "reachable"
    BY <1>2, AttachAssumption DEF FunctionReturns, AttachInv, HeldInv
  <2>2. freed[n] > 0 => Excused(n)
    <3>1. CASE carriers[n] = {}
      BY <1>1, <2>1, <3>1 DEF ValueInv, Carried, Excused
    <3>2. CASE carriers[n] # {}
      BY <1>1, <2>1, <3>2 DEF ValueInv, FreedWith, Carried
    <3> QED
      BY <3>1, <3>2
  <2> QED
    BY <1>2, <2>1, <2>2, UseKeeps DEF FunctionReturns
<1>3. CASE UseKept(n)
  <2>1. freed[n] > 0 => way[n] # "none" /\ Excused(n)
    BY <1>1, <1>3 DEF UseKept, EnvInv, ValueInv, Excused
  <2> QED
    BY <1>3, <2>1, UseKeeps DEF UseKept
<1>4. ASSUME NEW o \in Objects, NEW ways, CallThrough(o, n, ways)
      PROVE  AttachInv'
  <2>1. freed[n] > 0 => way[n] # "none" /\ Excused(n)
    BY <1>4, ReachedIsAlive DEF CallThrough, Present, Excused
  <2> QED
    BY <1>4, <2>1, UseKeeps DEF CallThrough
<1>5. ASSUME NEW o \in Objects, Deref(o, n) PROVE AttachInv'
  <2>1. o \in doors[n] /\ way[n] = "external" /\ ref[o] # "none"
    BY <1>5 DEF Deref
  <2>2. js[o] \in {"reachable", "unreachable"} \/ ended
    BY <2>1 DEF AttachInv, HeldInv
  <2>3. freed[n] > 0 => way[n] # "none" /\ Excused(n)
    BY <2>1, <2>2, ReachedIsAlive DEF Excused
  <2> QED
    BY <1>5, <2>3, UseKeeps DEF Deref
<1> QED
  BY <1>2, <1>3, <1>4, <1>5 DEF Through, Trampoline, TrampolineAccessor

(* A value is given away for the first time, or was to be: the others, and *)
(* the environment, have nothing to do with it.                            *)
LEMMA FreshKeeps ==
  ASSUME AttachInv, NEW n \in Natives, way[n] = "none",
         UNCHANGED <<tag, freed, ref, envVars, seen>>,
         way' \in [Natives -> Ways], lost' \in [Natives -> Losses],
         carriers' \in [Natives -> SUBSET Objects],
         doors' \in [Natives -> SUBSET Objects],
         js' \in [Objects -> JsStates],
         \A p \in Objects : js[p] # "none" => js'[p] = js[p],
         \A p \in Objects : js[p] = "none" => js'[p] # "collected",
         \A m \in Natives \ {n} :
            /\ way'[m] = way[m] /\ lost'[m] = lost[m]
            /\ carriers'[m] = carriers[m] /\ doors'[m] = doors[m],
         way'[n] \in Carried \cup {"class"}, ValueInv(n)'
  PROVE  AttachInv'
<1>1. /\ tag' = tag /\ freed' = freed /\ ref' = ref
      /\ instance' = instance /\ kept' = kept /\ hooks' = hooks
      /\ handles' = handles /\ ended' = ended
      /\ borrowed' = borrowed /\ badUses' = badUses /\ misread' = misread
  BY DEF envVars, seen
<1>2. StoreTypes'
  BY <1>1 DEF AttachInv, StoreTypes, AttachTypes
<1>3. ReadAsIs' /\ UsedInv'
  <2>1. badUses \subseteq Natives
    BY DEF AttachInv, StoreTypes, AttachTypes
  <2> QED
    BY <1>1, <2>1, StillAsIs, StillExcused DEF AttachInv
<1>4. HeldInv'
  <2>1. /\ borrowed \in Natives \cup {Nothing}
        /\ doors \in [Natives -> SUBSET Objects]
        /\ HeldInv
    BY DEF AttachInv, StoreTypes, AttachTypes
  <2>2. borrowed # Nothing => borrowed \in Natives \ {n}
    BY <2>1 DEF HeldInv
  <2> QED
    BY <1>1, <2>1, <2>2 DEF HeldInv
<1>5. ASSUME NEW m \in Natives \ {n} PROVE ValueInv(m)' /\ EnvInv(m)'
  <2>1. carriers[m] \subseteq Objects /\ doors[m] \subseteq Objects
    BY DEF AttachInv, StoreTypes, AttachTypes
  <2>2. ValueInv(m)'
    BY <1>1, <2>1, SameValue DEF AttachInv, JsStates
  <2>3. EnvInv(m)'
    BY <1>1, SameEnv DEF AttachInv
  <2> QED
    BY <2>2, <2>3
<1>6. EnvInv(n)'
  <2>1. EnvInv(n) /\ way[n] = "none"
    BY DEF AttachInv
  <2>2. n # instance /\ n \notin kept /\ n \notin hooks /\ n \notin handles
    BY <2>1 DEF EnvInv, Hooks
  <2> QED
    BY <1>1, <2>2 DEF EnvInv, Carried, Hooks
<1> QED
  BY <1>2, <1>3, <1>4, <1>5, <1>6 DEF AttachInv

(* The finalizer of one object takes it.                                   *)
LEMMA GiveKeeps ==
  ASSUME AttachInv, NEW o \in Objects, NEW n \in Natives, NEW w \in Carried,
         NEW ds \in {{}, {o}}, Give(n, w, {o}, ds),
         UNCHANGED <<tag, freed, ref, envVars, seen>>,
         js' \in [Objects -> JsStates], js'[o] = "reachable",
         \A p \in Objects : js[p] # "none" => js'[p] = js[p],
         \A p \in Objects : js[p] = "none" => js'[p] # "collected",
         w = "finalizer" => ds = {},
         w \notin {"finalizer", "accessors"} => ds = {o}
  PROVE  AttachInv'
<1>1. /\ way \in [Natives -> Ways] /\ lost \in [Natives -> Losses]
      /\ carriers \in [Natives -> SUBSET Objects]
      /\ doors \in [Natives -> SUBSET Objects]
      /\ ValueInv(n)
  BY DEF AttachInv, StoreTypes, AttachTypes
<1>2. /\ way[n] = "none" /\ way' = [way EXCEPT ![n] = w]
      /\ carriers' = [carriers EXCEPT ![n] = {o}]
      /\ doors' = [doors EXCEPT ![n] = ds]
      /\ lost' = [lost EXCEPT ![n] = "no"]
  BY DEF Give, Carried
<1>3. /\ way'[n] = w /\ carriers'[n] = {o} /\ doors'[n] = ds
      /\ lost'[n] = "no" /\ freed'[n] = 0 /\ w # "class" /\ w # "none"
  BY <1>1, <1>2 DEF ValueInv, Carried
<1>4. FreedWith(n)'
  BY <1>3 DEF FreedWith
<1>5. IsFiniteSet(carriers'[n])
  <2>1. IsFiniteSet({o})
    BY FS_Singleton
  <2> QED
    BY <1>3, <2>1
<1>6. ValueInv(n)'
  BY <1>3, <1>4, <1>5 DEF ValueInv
<1>7. /\ way' \in [Natives -> Ways] /\ lost' \in [Natives -> Losses]
      /\ carriers' \in [Natives -> SUBSET Objects]
      /\ doors' \in [Natives -> SUBSET Objects]
  BY <1>1, <1>2 DEF Ways, Losses, Carried
<1>8. \A m \in Natives \ {n} :
         /\ way'[m] = way[m] /\ lost'[m] = lost[m]
         /\ carriers'[m] = carriers[m] /\ doors'[m] = doors[m]
  BY <1>1, <1>2
<1> QED
  BY <1>2, <1>3, <1>6, <1>7, <1>8, FreshKeeps

(* The call fails, and the value is left behind.                           *)
LEMMA RefuseKeeps ==
  ASSUME AttachInv, NEW n \in Natives, NEW w \in Carried, Refuse(n, w),
         UNCHANGED <<tag, freed, js, ref, envVars, seen>>
  PROVE  AttachInv'
<1>1. /\ way \in [Natives -> Ways] /\ lost \in [Natives -> Losses]
      /\ carriers \in [Natives -> SUBSET Objects]
      /\ doors \in [Natives -> SUBSET Objects]
      /\ js \in [Objects -> JsStates] /\ ValueInv(n)
  BY DEF AttachInv, StoreTypes, AttachTypes
<1>2. /\ way[n] = "none" /\ way' = [way EXCEPT ![n] = w]
      /\ carriers' = carriers /\ doors' = doors
      /\ lost' = [lost EXCEPT ![n] = "refused"]
  BY DEF Refuse
<1>3. carriers[n] = {} /\ doors[n] = {} /\ freed[n] = 0
  BY <1>1, <1>2 DEF ValueInv, Carried
<1>4. /\ way'[n] = w /\ carriers'[n] = {} /\ doors'[n] = {}
      /\ lost'[n] = "refused" /\ freed'[n] = 0 /\ w # "class" /\ w # "none"
  BY <1>1, <1>2, <1>3 DEF Carried
<1>5. IsFiniteSet(carriers'[n])
  BY <1>4, FS_EmptySet
<1>6. ValueInv(n)'
  BY <1>4, <1>5 DEF ValueInv
<1>7. way' \in [Natives -> Ways] /\ lost' \in [Natives -> Losses]
  BY <1>1, <1>2 DEF Ways, Losses, Carried
<1> QED
  BY <1>1, <1>2, <1>4, <1>6, <1>7, FreshKeeps DEF JsStates

(* The attachments of a value change after it was given: its Properties    *)
(* are defined once more, or it is unwrapped.                              *)
LEMMA OneValueKeeps ==
  ASSUME AttachInv, NEW n \in Natives,
         UNCHANGED <<tag, way, jsObjects, envVars, seen>>,
         lost' \in [Natives -> Losses], freed' \in [Natives -> Nat],
         carriers' \in [Natives -> SUBSET Objects],
         doors' \in [Natives -> SUBSET Objects],
         \A m \in Natives \ {n} :
            /\ lost'[m] = lost[m] /\ freed'[m] = freed[m]
            /\ carriers'[m] = carriers[m] /\ doors'[m] = doors[m],
         \/ way[n] = "wrap" /\ carriers'[n] = {} /\ doors'[n] = {}
         \/ way[n] = "accessors" /\ carriers[n] \subseteq carriers'[n],
         ValueInv(n)'
  PROVE  AttachInv'
<1>1. /\ tag' = tag /\ way' = way /\ js' = js /\ ref' = ref
      /\ instance' = instance /\ kept' = kept /\ hooks' = hooks
      /\ handles' = handles /\ ended' = ended
      /\ borrowed' = borrowed /\ badUses' = badUses /\ misread' = misread
  BY DEF jsObjects, envVars, seen
<1>2. StoreTypes'
  BY <1>1 DEF AttachInv, StoreTypes, AttachTypes
<1>3. ReadAsIs'
  BY <1>1, StillAsIs DEF AttachInv
<1>4. UsedInv'
  <2>1. badUses \subseteq Natives
    BY DEF AttachInv, StoreTypes, AttachTypes
  <2> QED
    BY <1>1, <2>1, StillExcused DEF AttachInv
<1>5. HeldInv'
  <2>1. borrowed \in Natives \cup {Nothing} /\ HeldInv
    BY DEF AttachInv, StoreTypes, AttachTypes
  <2>2. borrowed # Nothing => doors'[borrowed] \subseteq doors[borrowed]
    BY <2>1 DEF HeldInv
  <2> QED
    BY <1>1, <2>1, <2>2 DEF HeldInv
<1>6. ASSUME NEW m \in Natives \ {n} PROVE ValueInv(m)' /\ EnvInv(m)'
  <2>1. ValueInv(m)'
    BY <1>1, SameValue DEF AttachInv
  <2>2. EnvInv(m)'
    BY <1>1, SameEnv DEF AttachInv
  <2> QED
    BY <2>1, <2>2
<1>7. EnvInv(n)'
  BY <1>1 DEF AttachInv, EnvInv, Hooks
<1> QED
  BY <1>2, <1>3, <1>4, <1>5, <1>6, <1>7 DEF AttachInv

(* The same Properties are defined on one more object.                     *)
LEMMA DefineAgainKeeps ==
  ASSUME AttachInv, NEW o \in Objects, NEW n \in Natives,
         js[o] = "reachable", way[n] = "accessors", lost[n] = "no",
         carriers' = [carriers EXCEPT ![n] = @ \cup {o}],
         doors' \in {doors, [doors EXCEPT ![n] = @ \cup {o}]},
         UNCHANGED <<tag, way, lost, freed, jsObjects, envVars, seen>>
  PROVE  AttachInv'
<1>1. /\ lost \in [Natives -> Losses] /\ freed \in [Natives -> Nat]
      /\ carriers \in [Natives -> SUBSET Objects]
      /\ doors \in [Natives -> SUBSET Objects]
      /\ ValueInv(n)
  BY DEF AttachInv, StoreTypes, AttachTypes
<1>2. /\ carriers'[n] = carriers[n] \cup {o}
      /\ doors'[n] \in {doors[n], doors[n] \cup {o}}
      /\ way' = way /\ lost' = lost /\ freed' = freed /\ js' = js
  BY <1>1 DEF jsObjects
<1>3. /\ carriers[n] # {} /\ FreedWith(n) /\ IsFiniteSet(carriers[n])
      /\ \A p \in carriers[n] \cup doors[n] : js[p] # "none"
      /\ doors[n] \subseteq carriers[n]
  BY <1>1 DEF ValueInv, Carried
<1>4. FreedWith(n)'
  BY <1>2, <1>3 DEF FreedWith
<1>5. IsFiniteSet(carriers'[n])
  <2>1. IsFiniteSet(carriers[n] \cup {o})
    BY <1>3, FS_AddElement
  <2> QED
    BY <1>2, <2>1
<1>6. ValueInv(n)'
  BY <1>2, <1>3, <1>4, <1>5 DEF ValueInv, Carried
<1>7. /\ carriers' \in [Natives -> SUBSET Objects]
      /\ doors' \in [Natives -> SUBSET Objects]
  BY <1>1
<1>8. \A m \in Natives \ {n} :
         carriers'[m] = carriers[m] /\ doors'[m] = doors[m]
  BY <1>1
<1> QED
  BY <1>1, <1>2, <1>6, <1>7, <1>8, OneValueKeeps

(* remove_wrapped: freed at once, or left behind if it is of another type. *)
LEMMA RemoveWrappedKeeps ==
  ASSUME AttachInv, NEW o \in Objects, NEW t \in Tags, RemoveWrapped(o, t)
  PROVE  AttachInv'
<1>1. PICK n \in Natives :
         /\ way[n] = "wrap" /\ o \in doors[n]
         /\ carriers' = [carriers EXCEPT ![n] = {}]
         /\ doors' = [doors EXCEPT ![n] = {}]
         /\ IF IsA(n, t) THEN Drops({n}) /\ UNCHANGED lost
            ELSE lost' = [lost EXCEPT ![n] = "mistyped"] /\ UNCHANGED freed
  BY DEF RemoveWrapped
<1>2. /\ lost \in [Natives -> Losses] /\ freed \in [Natives -> Nat]
      /\ carriers \in [Natives -> SUBSET Objects]
      /\ doors \in [Natives -> SUBSET Objects]
      /\ ValueInv(n)
  BY DEF AttachInv, StoreTypes, AttachTypes
<1>3. UNCHANGED <<tag, way, jsObjects, envVars, seen>> /\ js[o] = "reachable"
  BY DEF RemoveWrapped, Present
<1>4. lost[n] = "no" /\ freed[n] = 0
  <2>1. o \in carriers[n]
    BY <1>1, <1>2 DEF ValueInv, Carried
  <2>2. lost[n] = "no" /\ FreedWith(n)
    BY <1>1, <1>2, <2>1 DEF ValueInv, Carried
  <2>3. carriers[n] = {o}
    BY <1>1, <1>2, <2>1 DEF ValueInv
  <2> QED
    BY <1>3, <2>2, <2>3 DEF FreedWith
<1>5. /\ lost' \in [Natives -> Losses] /\ freed' \in [Natives -> Nat]
      /\ \A m \in Natives \ {n} :
            lost'[m] = lost[m] /\ freed'[m] = freed[m]
      /\ \/ lost'[n] = "no" /\ freed'[n] = 1
         \/ lost'[n] = "mistyped" /\ freed'[n] = 0
  <2>1. CASE IsA(n, t)
    BY <1>1, <1>2, <1>4, <2>1 DEF Drops
  <2>2. CASE ~IsA(n, t)
    BY <1>1, <1>2, <1>4, <2>2 DEF Losses
  <2> QED
    BY <2>1, <2>2
<1>6. /\ carriers' \in [Natives -> SUBSET Objects]
      /\ doors' \in [Natives -> SUBSET Objects]
      /\ carriers'[n] = {} /\ doors'[n] = {}
      /\ \A m \in Natives \ {n} :
            carriers'[m] = carriers[m] /\ doors'[m] = doors[m]
  BY <1>1, <1>2
<1>7. ValueInv(n)'
  <2>1. IsFiniteSet(carriers'[n])
    BY <1>6, FS_EmptySet
  <2>2. way'[n] = "wrap"
    BY <1>1, <1>3
  <2> QED
    BY <1>5, <1>6, <2>1, <2>2 DEF ValueInv, Carried
<1> QED
  BY <1>1, <1>3, <1>5, <1>6, <1>7, OneValueKeeps

(* What Rust gives to an object.                                           *)
LEMMA AttachesKeep ==
  ASSUME AttachInv, NEW o \in Objects, NEW n \in Natives, Attach(o, n)
  PROVE  AttachInv'
<1>1. /\ way \in [Natives -> Ways] /\ lost \in [Natives -> Losses]
      /\ carriers \in [Natives -> SUBSET Objects]
      /\ doors \in [Natives -> SUBSET Objects]
      /\ js \in [Objects -> JsStates] /\ ValueInv(n)
  BY DEF AttachInv, StoreTypes, AttachTypes
<1>2. CASE Wrap(o, n)
  <2>1. CASE Give(n, "wrap", {o}, {o})
    BY <1>1, <1>2, <2>1, GiveKeeps DEF Wrap, Present, jsObjects, Carried
  <2>2. CASE Refuse(n, "wrap")
    BY <1>2, <2>2, RefuseKeeps DEF Wrap, jsObjects, Carried
  <2> QED
    BY <1>2, <2>1, <2>2 DEF Wrap
<1>3. ASSUME NEW w \in {"external", "legacy", "function"}, NewCarrier(o, n, w)
      PROVE  AttachInv'
  <2>1. CASE Give(n, w, {o}, {o}) /\ js' = [js EXCEPT ![o] = "reachable"]
    BY <1>1, <1>3, <2>1, GiveKeeps DEF NewCarrier, JsStates, Carried
  <2>2. CASE Refuse(n, w) /\ UNCHANGED js
    BY <1>3, <2>2, RefuseKeeps DEF NewCarrier, Carried
  <2> QED
    BY <1>3, <2>1, <2>2 DEF NewCarrier
<1>4. CASE AddFinalizer(o, n)
  <2>1. CASE Give(n, "finalizer", {o}, {})
    BY <1>1, <1>4, <2>1, GiveKeeps
    DEF AddFinalizer, Present, jsObjects, Carried
  <2>2. CASE Refuse(n, "finalizer")
    BY <1>4, <2>2, RefuseKeeps DEF AddFinalizer, jsObjects, Carried
  <2> QED
    BY <1>4, <2>1, <2>2 DEF AddFinalizer
<1>5. CASE DefineProperties(o, n)
  <2>1. ASSUME NEW ds \in {{}, {o}}, Give(n, "accessors", {o}, ds)
        PROVE  AttachInv'
    <3>1. /\ UNCHANGED <<tag, freed, ref, envVars, seen>> /\ js' = js
          /\ js[o] = "reachable" /\ "accessors" \in Carried
      BY <1>5 DEF DefineProperties, Present, jsObjects, Carried
    <3> QED
      BY <1>1, <2>1, <3>1, GiveKeeps
  <2>2. CASE Refuse(n, "accessors")
    BY <1>5, <2>2, RefuseKeeps DEF DefineProperties, jsObjects, Carried
  <2>3. CASE /\ way[n] = "accessors" /\ lost[n] = "no"
             /\ carriers' = [carriers EXCEPT ![n] = @ \cup {o}]
             /\ doors' \in {doors, [doors EXCEPT ![n] = @ \cup {o}]}
             /\ UNCHANGED <<way, lost>>
    BY <1>5, <2>3, DefineAgainKeeps DEF DefineProperties, Present
  <2> QED
    BY <1>5, <2>1, <2>2, <2>3 DEF DefineProperties
<1>6. CASE DefineClass(o, n)
  <2>1. /\ way[n] = "none" /\ way' = [way EXCEPT ![n] = "class"]
        /\ carriers' = [carriers EXCEPT ![n] = {}]
        /\ doors' = [doors EXCEPT ![n] = {o}]
        /\ lost' = [lost EXCEPT ![n] = "class"]
        /\ js' = [js EXCEPT ![o] = "reachable"] /\ js[o] = "none"
        /\ UNCHANGED <<tag, freed, ref, envVars, seen>>
    BY <1>6 DEF DefineClass, Give
  <2>2. freed'[n] = 0
    BY <1>1, <2>1 DEF ValueInv
  <2>3. IsFiniteSet(carriers'[n])
    BY <1>1, <2>1, FS_EmptySet
  <2>4. ValueInv(n)'
    BY <1>1, <2>1, <2>2, <2>3 DEF ValueInv, Carried
  <2>5. way' \in [Natives -> Ways] /\ lost' \in [Natives -> Losses]
    BY <1>1, <2>1 DEF Ways, Losses
  <2> QED
    BY <1>1, <2>1, <2>4, <2>5, FreshKeeps DEF JsStates
<1> QED
  BY <1>2, <1>3, <1>4, <1>5, <1>6
  DEF Attach, NewExternal, CreateExternal, CreateFunctionFromClosure

(* Instance data and hooks come and go while the environment lives.        *)
LEMMA EnvKeeps ==
  ASSUME AttachInv,
         UNCHANGED <<tag, carriers, doors, freed, jsObjects, kept, ended,
                     borrowed, misread>>,
         way' \in [Natives -> Ways], lost' \in [Natives -> Losses],
         instance' \in Natives \cup {Nothing},
         hooks' \subseteq Natives, handles' \subseteq Natives,
         UsedInv', badUses' \subseteq Natives,
         \A n \in Natives :
            /\ \/ way'[n] = way[n]
               \/ way[n] = "none" /\ way'[n] \in Hooks \cup {"instance"}
            /\ \/ lost'[n] = lost[n]
               \/ way'[n] \in Hooks \cup {"instance"} /\ freed[n] = 0,
         (\A n \in Natives : EnvInv(n))'
  PROVE  AttachInv'
<1>1. /\ tag' = tag /\ carriers' = carriers /\ doors' = doors
      /\ freed' = freed /\ js' = js /\ ref' = ref /\ ended' = ended
      /\ kept' = kept /\ borrowed' = borrowed /\ misread' = misread
  BY DEF jsObjects
<1>2. StoreTypes'
  BY <1>1 DEF AttachInv, StoreTypes, AttachTypes
<1>3. \A n \in Natives : way[n] # "none" => way'[n] = way[n]
  OBVIOUS
<1>4. ReadAsIs'
  BY <1>1, <1>3, StillAsIs DEF AttachInv
<1>5. HeldInv'
  <2>1. borrowed \in Natives \cup {Nothing} /\ HeldInv
    BY DEF AttachInv, StoreTypes, AttachTypes
  <2> QED
    BY <1>1, <1>3, <2>1 DEF HeldInv
<1>6. ASSUME NEW n \in Natives PROVE ValueInv(n)'
  <2>1. ValueInv(n)
    BY DEF AttachInv
  <2>2. CASE way'[n] = way[n] /\ lost'[n] = lost[n]
    BY <1>1, <2>1, <2>2, SameValue
  <2>3. CASE ~(way'[n] = way[n] /\ lost'[n] = lost[n])
    <3>1. way'[n] \in Hooks \cup {"instance"}
      BY <2>3
    <3>2. carriers[n] = {} /\ doors[n] = {} /\ IsFiniteSet(carriers[n])
      BY <2>1, <2>3, <3>1 DEF ValueInv, Hooks, Carried
    <3>3. lost'[n] # "no" => freed[n] = 0
      BY <2>1, <2>3 DEF ValueInv
    <3> QED
      BY <1>1, <3>1, <3>2, <3>3 DEF ValueInv, Hooks, Carried
  <2> QED
    BY <2>2, <2>3
<1> QED
  BY <1>2, <1>4, <1>5, <1>6 DEF AttachInv

(* set_instance_data: the data that was there is left behind.              *)
LEMMA SetInstanceDataKeeps ==
  ASSUME AttachInv, NEW n \in Natives, SetInstanceData(n)
  PROVE  AttachInv'
<1>1. /\ way \in [Natives -> Ways] /\ lost \in [Natives -> Losses]
      /\ instance \in Natives \cup {Nothing} /\ badUses \subseteq Natives
      /\ hooks \subseteq Natives /\ handles \subseteq Natives
      /\ \A m \in Natives : ValueInv(m)
      /\ \A m \in Natives : EnvInv(m)
  BY DEF AttachInv, StoreTypes, AttachTypes
<1>2. /\ ~ended /\ way[n] = "none" /\ way' = [way EXCEPT ![n] = "instance"]
      /\ UNCHANGED <<tag, carriers, doors, freed, jsObjects, kept, hooks,
                     handles, ended, borrowed, badUses, misread>>
  BY DEF SetInstanceData, seen
<1>3. freed[n] = 0 /\ lost[n] = "no"
  BY <1>1, <1>2 DEF ValueInv
<1>4. n # instance /\ n \notin kept /\ n \notin hooks /\ n \notin handles
  BY <1>1, <1>2 DEF EnvInv, Hooks
<1>5. /\ way' \in [Natives -> Ways] /\ way'[n] = "instance"
      /\ \A m \in Natives \ {n} : way'[m] = way[m]
  BY <1>1, <1>2 DEF Ways
<1>6. UsedInv'
  BY <1>1, <1>2, <1>5, StillExcused DEF AttachInv
<1>7. CASE /\ instance' = n
           /\ lost' = [m \in Natives |->
                         IF m = instance THEN "overwritten" ELSE lost[m]]
  <2>1. /\ lost' \in [Natives -> Losses]
        /\ lost'[n] = "no"
        /\ \A m \in Natives \ {instance} : lost'[m] = lost[m]
        /\ instance \in Natives => lost'[instance] = "overwritten"
    BY <1>1, <1>3, <1>4, <1>7 DEF Losses
  <2>2. \A m \in Natives :
           m = instance => way[m] = "instance" /\ freed[m] = 0
    BY <1>1 DEF EnvInv
  <2>3. ASSUME NEW m \in Natives PROVE EnvInv(m)'
    <3>1. CASE m = n
      BY <1>2, <1>3, <1>4, <1>5, <1>7, <2>1, <3>1 DEF EnvInv, Hooks
    <3>2. CASE m = instance
      BY <1>1, <1>2, <1>4, <1>5, <1>7, <2>1, <3>2 DEF EnvInv, Hooks
    <3>3. CASE m # n /\ m # instance
      BY <1>1, <1>2, <1>5, <1>7, <2>1, <3>3, SameEnv
    <3> QED
      BY <3>1, <3>2, <3>3
  <2>4. (\A m \in Natives : EnvInv(m))'
    BY <2>3
  <2>5. /\ instance' \in Natives \cup {Nothing} /\ hooks' \subseteq Natives
        /\ handles' \subseteq Natives /\ badUses' \subseteq Natives
    BY <1>1, <1>2, <1>7
  <2>6. \A m \in Natives :
           /\ \/ way'[m] = way[m]
              \/ way[m] = "none" /\ way'[m] = "instance"
           /\ \/ lost'[m] = lost[m]
              \/ way'[m] = "instance" /\ freed[m] = 0
    BY <1>1, <1>2, <1>4, <1>5, <2>1, <2>2
  <2> QED
    BY <1>2, <1>5, <1>6, <2>1, <2>4, <2>5, <2>6, EnvKeeps
<1>8. CASE lost' = [lost EXCEPT ![n] = "refused"] /\ UNCHANGED instance
  <2>1. /\ lost' \in [Natives -> Losses] /\ lost'[n] = "refused"
        /\ \A m \in Natives \ {n} : lost'[m] = lost[m]
    BY <1>1, <1>8 DEF Losses
  <2>2. ASSUME NEW m \in Natives PROVE EnvInv(m)'
    <3>1. CASE m = n
      BY <1>2, <1>3, <1>4, <1>5, <1>8, <2>1, <3>1 DEF EnvInv, Hooks
    <3>2. CASE m # n
      BY <1>1, <1>2, <1>5, <1>8, <2>1, <3>2, SameEnv
    <3> QED
      BY <3>1, <3>2
  <2>3. (\A m \in Natives : EnvInv(m))'
    BY <2>2
  <2>4. /\ instance' \in Natives \cup {Nothing} /\ hooks' \subseteq Natives
        /\ handles' \subseteq Natives /\ badUses' \subseteq Natives
    BY <1>1, <1>2, <1>8
  <2>5. \A m \in Natives :
           /\ \/ way'[m] = way[m]
              \/ way[m] = "none" /\ way'[m] = "instance"
           /\ \/ lost'[m] = lost[m]
              \/ way'[m] = "instance" /\ freed[m] = 0
    BY <1>2, <1>3, <1>5, <2>1
  <2> QED
    BY <1>2, <1>5, <1>6, <2>1, <2>3, <2>4, <2>5, EnvKeeps
<1> QED
  BY <1>7, <1>8 DEF SetInstanceData

(* add_env_cleanup_hook and the two add_async_cleanup_hooks.               *)
LEMMA AddHookKeeps ==
  ASSUME AttachInv, NEW n \in Natives,
         AddEnvCleanupHook(n) \/ AddAsyncCleanupHook(n)
  PROVE  AttachInv'
<1>1. /\ way \in [Natives -> Ways] /\ lost \in [Natives -> Losses]
      /\ instance \in Natives \cup {Nothing} /\ badUses \subseteq Natives
      /\ hooks \subseteq Natives /\ handles \subseteq Natives
      /\ ValueInv(n) /\ \A m \in Natives : EnvInv(m)
  BY DEF AttachInv, StoreTypes, AttachTypes
<1>2. PICK w \in Hooks :
         /\ AddHook(n, w)
         /\ \/ handles' = handles
            \/ w = "async_hook" /\ n \in hooks' /\ handles' = handles \cup {n}
  BY DEF AddEnvCleanupHook, AddAsyncCleanupHook, Hooks
<1>3. /\ ~ended /\ way[n] = "none" /\ way' = [way EXCEPT ![n] = w]
      /\ UNCHANGED <<tag, carriers, doors, freed, jsObjects, instance, kept,
                     ended, borrowed, badUses, misread>>
      /\ \/ hooks' = hooks \cup {n} /\ lost' = lost
         \/ lost' = [lost EXCEPT ![n] = "refused"] /\ hooks' = hooks
  BY <1>2 DEF AddHook, seen
<1>4. freed[n] = 0 /\ lost[n] = "no"
  BY <1>1, <1>3 DEF ValueInv
<1>5. n # instance /\ n \notin kept /\ n \notin hooks /\ n \notin handles
  BY <1>1, <1>3 DEF EnvInv, Hooks
<1>6. /\ way' \in [Natives -> Ways] /\ way'[n] = w
      /\ lost' \in [Natives -> Losses]
      /\ n \in hooks' => lost'[n] = "no"
      /\ n \notin hooks' => lost'[n] = "refused"
      /\ \A m \in Natives \ {n} :
            /\ way'[m] = way[m] /\ lost'[m] = lost[m]
            /\ m \in hooks' <=> m \in hooks
            /\ m \in handles' <=> m \in handles
  BY <1>1, <1>2, <1>3, <1>4, <1>5 DEF Ways, Hooks, Losses
<1>7. UsedInv'
  BY <1>1, <1>3, <1>6, StillExcused DEF AttachInv
<1>8. EnvInv(n)'
  BY <1>2, <1>3, <1>4, <1>5, <1>6 DEF EnvInv, Hooks
<1>9. ASSUME NEW m \in Natives \ {n} PROVE EnvInv(m)'
  BY <1>1, <1>3, <1>6, SameEnv
<1>10. hooks' \subseteq Natives /\ handles' \subseteq Natives
  BY <1>1, <1>2, <1>3
<1>11. (\A m \in Natives : EnvInv(m))'
  BY <1>8, <1>9
<1>12. \A m \in Natives :
          /\ \/ way'[m] = way[m]
             \/ way[m] = "none" /\ way'[m] \in Hooks
          /\ \/ lost'[m] = lost[m]
             \/ way'[m] \in Hooks /\ freed[m] = 0
  BY <1>2, <1>3, <1>4, <1>6
<1> QED
  BY <1>1, <1>3, <1>6, <1>7, <1>10, <1>11, <1>12, EnvKeeps

(* A hook is taken away before it ran, or was not there any more.          *)
LEMMA DropHookKeeps ==
  ASSUME AttachInv, NEW n \in Natives,
         RemoveEnvCleanupHook(n) \/ DropCleanupHook(n)
  PROVE  AttachInv'
<1>1. /\ way \in [Natives -> Ways] /\ lost \in [Natives -> Losses]
      /\ instance \in Natives \cup {Nothing} /\ badUses \subseteq Natives
      /\ hooks \subseteq Natives /\ handles \subseteq Natives
      /\ freed[n] \in Nat
      /\ ValueInv(n) /\ \A m \in Natives : EnvInv(m)
  BY DEF AttachInv, StoreTypes, AttachTypes
<1>2. /\ UNCHANGED <<tag, way, carriers, doors, freed, jsObjects, instance,
                     kept, ended, borrowed, misread>>
      /\ way[n] \in Hooks
      /\ handles' \subseteq handles
      /\ \A m \in Natives \ {n} : m \in handles' <=> m \in handles
      /\ \/ n \in hooks /\ TakeHook(n) /\ badUses' = badUses
         \/ hooks' = hooks /\ lost' = lost /\ badUses' = badUses
         \/ way[n] = "async_hook" /\ n \notin hooks /\ Use(n) /\ hooks' = hooks
            /\ lost' = lost
  BY <1>1 DEF RemoveEnvCleanupHook, DropCleanupHook, seen, EnvInv, Hooks
<1>3. UsedInv' /\ badUses' \subseteq Natives
  <2>1. CASE badUses' = badUses
    BY <1>1, <1>2, <2>1, StillExcused DEF AttachInv
  <2>2. CASE way[n] = "async_hook" /\ n \notin hooks /\ Use(n)
    <3>1. freed[n] > 0 => lost[n] = "no"
      BY <1>1 DEF ValueInv
    <3>2. freed[n] > 0 => way[n] # "none" /\ Excused(n)
      BY <1>1, <2>2, <3>1 DEF EnvInv, Hooks, Excused
    <3> QED
      BY <1>1, <1>2, <2>2, <3>2, UseExcused DEF AttachInv
  <2> QED
    BY <1>2, <2>1, <2>2
<1>4. CASE n \in hooks /\ TakeHook(n)
  <2>1. /\ hooks' = hooks \ {n} /\ lost' \in [Natives -> Losses]
        /\ lost'[n] = "removed"
        /\ \A m \in Natives \ {n} : lost'[m] = lost[m]
    BY <1>1, <1>4 DEF TakeHook, Losses
  <2>2. freed[n] = 0
    BY <1>1, <1>4 DEF EnvInv
  <2>3. EnvInv(n)'
    BY <1>1, <1>2, <2>1 DEF EnvInv, Hooks
  <2>4. ASSUME NEW m \in Natives \ {n} PROVE EnvInv(m)'
    BY <1>1, <1>2, <2>1, SameEnv
  <2>5. (\A m \in Natives : EnvInv(m))'
    BY <2>3, <2>4
  <2>6. /\ instance' \in Natives \cup {Nothing} /\ way' \in [Natives -> Ways]
        /\ hooks' \subseteq Natives /\ handles' \subseteq Natives
    BY <1>1, <1>2, <2>1
  <2>7. \A m \in Natives :
           /\ way'[m] = way[m]
           /\ \/ lost'[m] = lost[m]
              \/ way'[m] \in Hooks /\ freed[m] = 0
    BY <1>2, <2>1, <2>2
  <2> QED
    BY <1>2, <1>3, <2>1, <2>5, <2>6, <2>7, EnvKeeps
<1>5. CASE hooks' = hooks /\ lost' = lost
  <2>1. ASSUME NEW m \in Natives PROVE EnvInv(m)'
    BY <1>1, <1>2, <1>5, SameEnv
  <2>2. (\A m \in Natives : EnvInv(m))'
    BY <2>1
  <2>3. /\ instance' \in Natives \cup {Nothing} /\ way' \in [Natives -> Ways]
        /\ hooks' \subseteq Natives /\ handles' \subseteq Natives
        /\ lost' \in [Natives -> Losses]
    BY <1>1, <1>2, <1>5
  <2> QED
    BY <1>2, <1>3, <1>5, <2>2, <2>3, EnvKeeps
<1> QED
  BY <1>2, <1>4, <1>5

(* get_instance_data: the type is compared, so it is read as what it is.   *)
LEMMA GetInstanceDataKeeps ==
  ASSUME AttachInv, NEW t \in Tags, GetInstanceData(t)
  PROVE  AttachInv'
<1>1. instance \in Natives /\ way[instance] = "instance"
  BY DEF GetInstanceData, AttachInv, StoreTypes, AttachTypes, EnvInv
<1>2. misread' = misread
  BY <1>1 DEF GetInstanceData, Read, IsA
<1>3. /\ UNCHANGED <<tag, nativeVars, freed, jsObjects, instance, hooks,
                     handles, ended, borrowed, badUses>>
      /\ kept' = kept \cup {instance}
  BY DEF GetInstanceData
<1>4. /\ way' = way /\ carriers' = carriers /\ tag' = tag
      /\ ended' = ended /\ badUses' = badUses
  BY <1>3 DEF nativeVars
<1>5. ReadAsIs' /\ UsedInv'
  BY <1>2, <1>4, StillAsIs, StillExcused DEF AttachInv
<1>6. /\ badUses \subseteq Natives /\ kept \subseteq Natives
      /\ misread \subseteq Natives \X Tags
      /\ borrowed \in Natives \cup {Nothing}
      /\ borrowed # Nothing =>
            /\ ~ended /\ way[borrowed] \in {"wrap", "external", "legacy"}
            /\ \A o \in doors[borrowed] : js[o] = "reachable"
  BY DEF AttachInv, StoreTypes, AttachTypes, HeldInv
<1> QED
  BY <1>1, <1>2, <1>3, <1>5, <1>6, SeenKeeps

(* A carrier is collected: each value that it frees is freed once more.    *)
LEMMA FinalizeKeeps ==
  ASSUME AttachInv, NEW o \in Objects, FinalizeObject(o),
         js[o] \in {"reachable", "unreachable"}, ref[o] = "none" \/ ended,
         borrowed # Nothing => o \notin doors[borrowed]
  PROVE  AttachInv'
<1>1. /\ tag' = tag /\ way' = way /\ carriers' = carriers /\ doors' = doors
      /\ lost' = lost /\ ref' = ref
      /\ instance' = instance /\ kept' = kept /\ hooks' = hooks
      /\ handles' = handles /\ ended' = ended
      /\ borrowed' = borrowed /\ badUses' = badUses /\ misread' = misread
      /\ js' = [js EXCEPT ![o] = "collected"]
  BY DEF FinalizeObject, nativeVars, envVars, seen
<1>2. /\ js \in [Objects -> JsStates] /\ freed \in [Natives -> Nat]
      /\ carriers \in [Natives -> SUBSET Objects]
      /\ doors \in [Natives -> SUBSET Objects]
      /\ ref \in [Objects -> {"none", "held", "lost"}]
      /\ borrowed \in Natives \cup {Nothing} /\ badUses \subseteq Natives
  BY DEF AttachInv, StoreTypes, AttachTypes
<1>3. /\ freed' \in [Natives -> Nat]
      /\ \A n \in Natives :
            /\ o \in carriers[n] => freed'[n] = freed[n] + 1
            /\ o \notin carriers[n] => freed'[n] = freed[n]
  BY <1>2 DEF FinalizeObject, Drops, FinalizedWith
<1>4. /\ js' \in [Objects -> JsStates] /\ js'[o] = "collected"
      /\ \A p \in Objects \ {o} : js'[p] = js[p]
  BY <1>1, <1>2 DEF JsStates
<1>5. StoreTypes'
  BY <1>1, <1>3, <1>4 DEF AttachInv, StoreTypes, AttachTypes
<1>6. ReadAsIs' /\ UsedInv'
  BY <1>1, <1>2, StillAsIs, StillExcused DEF AttachInv
<1>7. HeldInv'
  <2>1. HeldInv
    BY DEF AttachInv
  <2>2. ASSUME borrowed' # Nothing
        PROVE  /\ ~ended' /\ way'[borrowed'] \in {"wrap", "external", "legacy"}
               /\ \A p \in doors'[borrowed'] : js'[p] = "reachable"
    BY <1>1, <1>2, <1>4, <2>1, <2>2 DEF HeldInv
  <2>3. ASSUME NEW p \in Objects, ref'[p] # "none"
        PROVE  js'[p] \in {"reachable", "unreachable"} \/ ended'
    BY <1>1, <1>4, <2>1, <2>3 DEF HeldInv
  <2> QED
    BY <2>2, <2>3 DEF HeldInv
<1>8. ASSUME NEW n \in Natives PROVE ValueInv(n)' /\ EnvInv(n)'
  <2>1. /\ ValueInv(n) /\ EnvInv(n) /\ freed[n] \in Nat
        /\ carriers[n] \subseteq Objects /\ doors[n] \subseteq Objects
    BY <1>2 DEF AttachInv
  <2>2. CASE o \notin carriers[n]
    <3>1. ValueInv(n)'
      BY <1>1, <1>3, <1>4, <2>1, <2>2, SameValue
    <3>2. EnvInv(n)'
      BY <1>1, <1>3, <2>1, <2>2, SameEnv
    <3> QED
      BY <3>1, <3>2
  <2>3. CASE o \in carriers[n]
    <3>1. lost[n] = "no" /\ way[n] \in Carried /\ freed'[n] = freed[n] + 1
      BY <1>3, <2>1, <2>3 DEF ValueInv
    <3>2. FreedWith(n)
      BY <2>1, <2>3, <3>1 DEF ValueInv
    <3>3. \A p \in Objects : carriers[n] = {p} => freed[n] = 0
      <4> SUFFICES ASSUME NEW p \in Objects, carriers[n] = {p}
                   PROVE  freed[n] = 0
        OBVIOUS
      <4> QED
        BY <2>3, <3>2 DEF FreedWith
    <3>4. FreedWith(n)'
      <4>1. freed'[n] >= 1 /\ o \in carriers'[n] /\ js'[o] = "collected"
        BY <1>1, <1>4, <2>1, <2>3, <3>1
      <4>2. \A p \in Objects : carriers'[n] = {p} => freed'[n] <= 1
        BY <1>1, <3>1, <3>3
      <4> QED
        BY <4>1, <4>2 DEF FreedWith
    <3>5. \A p \in carriers'[n] \cup doors'[n] : js'[p] # "none"
      BY <1>1, <1>4, <2>1 DEF ValueInv
    <3>6. ValueInv(n)'
      BY <1>1, <2>1, <2>3, <3>1, <3>4, <3>5 DEF ValueInv, Carried
    <3>7. EnvInv(n)'
      BY <1>1, <2>1, <3>1 DEF EnvInv, Carried, Hooks
    <3> QED
      BY <3>6, <3>7
  <2> QED
    BY <2>2, <2>3
<1> QED
  BY <1>5, <1>6, <1>7, <1>8 DEF AttachInv

(* The values of the environment are freed when it ends.                   *)
LEMMA EnvDropsKeep ==
  ASSUME AttachInv, NEW ns \in SUBSET Natives, Drops(ns),
         UNCHANGED <<tag, nativeVars, jsObjects, kept, handles, seen>>,
         ended', borrowed = Nothing, hooks' = {},
         instance' \in Natives \cup {Nothing},
         \A n \in ns : n \in hooks \/ n = instance,
         \A n \in hooks : n \in ns,
         \A n \in Natives : n = instance' <=> n = instance /\ n \notin ns
  PROVE  AttachInv'
<1>1. /\ tag' = tag /\ way' = way /\ carriers' = carriers /\ doors' = doors
      /\ lost' = lost /\ js' = js /\ ref' = ref
      /\ kept' = kept /\ handles' = handles
      /\ borrowed' = borrowed /\ badUses' = badUses /\ misread' = misread
  BY DEF nativeVars, jsObjects, seen
<1>2. freed \in [Natives -> Nat]
  BY DEF AttachInv, StoreTypes, AttachTypes
<1>3. /\ freed' \in [Natives -> Nat]
      /\ \A n \in ns : freed'[n] = freed[n] + 1
      /\ \A n \in Natives \ ns : freed'[n] = freed[n]
  BY <1>2 DEF Drops
<1>4. ended' \in BOOLEAN
  BY DEF AttachInv, StoreTypes
<1>5. StoreTypes'
  BY <1>1, <1>3 DEF AttachInv, StoreTypes, AttachTypes
<1>6. ReadAsIs' /\ UsedInv'
  BY <1>1, StillAsIs, StillExcused DEF AttachInv
<1>7. HeldInv'
  BY <1>1 DEF HeldInv
<1>8. ASSUME NEW n \in Natives PROVE ValueInv(n)' /\ EnvInv(n)'
  <2>1. ValueInv(n) /\ EnvInv(n)
    BY DEF AttachInv
  <2>2. CASE n \in ns
    <3>1. /\ way[n] \in Hooks \cup {"instance"} /\ lost[n] = "no"
          /\ freed'[n] = 1 /\ n # instance'
      BY <1>2, <1>3, <2>1, <2>2 DEF EnvInv
    <3>2. ValueInv(n)'
      BY <1>1, <2>1, <3>1 DEF ValueInv, Carried, Hooks
    <3>3. EnvInv(n)'
      BY <1>1, <2>1, <3>1 DEF EnvInv, Hooks
    <3> QED
      BY <3>2, <3>3
  <2>3. CASE n \notin ns
    <3>1. ValueInv(n)'
      BY <1>1, <1>3, <2>1, <2>3, SameValue
    <3>2. EnvInv(n)'
      BY <1>1, <1>3, <2>1, <2>3 DEF EnvInv
    <3> QED
      BY <3>1, <3>2
  <2> QED
    BY <2>2, <2>3
<1> QED
  BY <1>5, <1>6, <1>7, <1>8 DEF AttachInv

(* The collector, and the end of the environment.                          *)
LEMMA EndsKeep ==
  ASSUME AttachInv,
         \/ \E o \in Objects : CollectObject(o) \/ FinalizeLeft(o)
         \/ EnvEnds \/ FinalizeInstance
  PROVE  AttachInv'
<1>1. /\ HeldInv /\ borrowed \in Natives \cup {Nothing}
      /\ ref \in [Objects -> {"none", "held", "lost"}]
      /\ hooks \subseteq Natives /\ instance \in Natives \cup {Nothing}
      /\ \A n \in Natives : EnvInv(n)
  BY DEF AttachInv, StoreTypes, AttachTypes
<1>2. ASSUME NEW o \in Objects, CollectObject(o) PROVE AttachInv'
  BY <1>1, <1>2, FinalizeKeeps DEF CollectObject, HeldInv
<1>3. ASSUME NEW o \in Objects, FinalizeLeft(o) PROVE AttachInv'
  BY <1>1, <1>3, FinalizeKeeps DEF FinalizeLeft, HeldInv
<1>4. CASE EnvEnds
  <2>1. \A n \in Natives : n = instance => n \notin hooks
    BY <1>1 DEF EnvInv, Hooks
  <2>2. /\ ended' /\ borrowed = Nothing /\ hooks' = {} /\ instance' = instance
        /\ Drops(hooks)
        /\ UNCHANGED <<tag, nativeVars, jsObjects, kept, handles, seen>>
    BY <1>4 DEF EnvEnds
  <2> QED
    BY <1>1, <2>1, <2>2, EnvDropsKeep
<1>5. CASE FinalizeInstance
  <2>1. \A n \in Natives : n \notin hooks
    BY <1>1, <1>5 DEF FinalizeInstance, EnvInv
  <2>2. /\ ended' /\ borrowed = Nothing /\ hooks' = {} /\ instance' = Nothing
        /\ instance \in Natives /\ Drops({instance})
        /\ UNCHANGED <<tag, nativeVars, jsObjects, kept, handles, seen>>
    BY <1>1, <1>5, <2>1 DEF FinalizeInstance, HeldInv
  <2> QED
    BY <1>1, <2>1, <2>2, AttachAssumption, EnvDropsKeep
<1> QED
  BY <1>2, <1>3, <1>4, <1>5

(* Nothing happens.                                                        *)
LEMMA StutterKeeps == AttachInv /\ UNCHANGED attachments => AttachInv'
<1> SUFFICES ASSUME AttachInv, UNCHANGED attachments PROVE AttachInv'
  OBVIOUS
<1>1. /\ tag' = tag /\ way' = way /\ carriers' = carriers /\ doors' = doors
      /\ lost' = lost /\ freed' = freed /\ js' = js /\ ref' = ref
      /\ instance' = instance /\ kept' = kept /\ hooks' = hooks
      /\ handles' = handles /\ ended' = ended
      /\ borrowed' = borrowed /\ badUses' = badUses /\ misread' = misread
  BY DEF attachments, nativeVars, jsObjects, envVars, seen
<1>2. ReadAsIs' /\ UsedInv'
  BY <1>1, StillAsIs, StillExcused DEF AttachInv
<1>3. StoreTypes' /\ HeldInv'
  BY <1>1 DEF AttachInv, StoreTypes, AttachTypes, HeldInv
<1>4. ASSUME NEW n \in Natives PROVE ValueInv(n)' /\ EnvInv(n)'
  <2>1. ValueInv(n)'
    BY <1>1, SameValue DEF AttachInv
  <2>2. EnvInv(n)'
    BY <1>1, SameEnv DEF AttachInv
  <2> QED
    BY <2>1, <2>2
<1> QED
  BY <1>2, <1>3, <1>4 DEF AttachInv

(* Every step.                                                             *)
LEMMA AttachStep == AttachInv /\ [AttachNext]_attachments => AttachInv'
<1> SUFFICES ASSUME AttachInv, [AttachNext]_attachments PROVE AttachInv'
  OBVIOUS
<1>1. ASSUME NEW o \in Objects, OnObject(o) PROVE AttachInv'
  BY <1>1, ObjectsKeep, EndsKeep DEF OnObject
<1>2. ASSUME NEW o \in Objects, NEW n \in Natives,
             Attach(o, n) \/ Through(o, n)
      PROVE  AttachInv'
  BY <1>2, AttachesKeep, UsesKeep
<1>3. ASSUME NEW o \in Objects, NEW t \in Tags,
             LookAt(o, t) \/ RemoveWrapped(o, t)
      PROVE  AttachInv'
  BY <1>3, LookAtKeeps, RemoveWrappedKeeps
<1>4. ASSUME NEW n \in Natives, OnEnv(n) \/ FunctionReturns(n)
      PROVE  AttachInv'
  BY <1>4, SetInstanceDataKeeps, UsesKeep, AddHookKeeps, DropHookKeeps
  DEF OnEnv
<1>5. ASSUME NEW t \in Tags, GetInstanceData(t) PROVE AttachInv'
  BY <1>5, GetInstanceDataKeeps
<1>6. CASE EnvEnds \/ FinalizeInstance
  BY <1>6, EndsKeep
<1>7. CASE AllFinalized \/ UNCHANGED attachments
  BY <1>7, StutterKeeps DEF AllFinalized
<1> QED
  BY <1>1, <1>2, <1>3, <1>4, <1>5, <1>6, <1>7 DEF AttachNext

(* Properties that were given to two objects have two carriers.            *)
LEMMA ManyIsSpread ==
  ASSUME NEW n \in Natives, IsFiniteSet(carriers[n])
  PROVE  Many(n) <=> Spread(n)
<1>1. ASSUME Many(n) PROVE Spread(n)
  <2>1. PICK o, p \in carriers[n] : o # p
    BY <1>1 DEF Many
  <2>2. IsFiniteSet({o}) /\ Cardinality({o}) = 1
    BY FS_Singleton
  <2>3. /\ IsFiniteSet({o} \cup {p})
        /\ Cardinality({o} \cup {p}) = Cardinality({o}) + 1
    BY <2>1, <2>2, FS_AddElement
  <2>4. Cardinality({o} \cup {p}) <= Cardinality(carriers[n])
    BY <2>1, FS_Subset
  <2>5. Cardinality(carriers[n]) \in Nat
    BY FS_CardinalityType
  <2> QED
    BY <2>2, <2>3, <2>4, <2>5 DEF Spread
<1>2. ASSUME ~Many(n) PROVE ~Spread(n)
  <2>1. CASE carriers[n] = {}
    BY <2>1, FS_EmptySet DEF Spread
  <2>2. ASSUME NEW o \in carriers[n] PROVE ~Spread(n)
    <3>1. carriers[n] = {o}
      BY <1>2, <2>2 DEF Many
    <3>2. Cardinality({o}) = 1
      BY FS_Singleton
    <3> QED
      BY <3>1, <3>2 DEF Spread
  <2> QED
    BY <2>1, <2>2
<1> QED
  BY <1>1, <1>2

(* What the invariant says of the frees and the uses.                      *)
LEMMA AttachInvIsEnough == AttachInv => AttachmentsAreFreed
<1> SUFFICES ASSUME AttachInv PROVE AttachmentsAreFreed
  OBVIOUS
<1>1. /\ AttachTypes /\ ReadAsIs /\ UsedInv /\ freed \in [Natives -> Nat]
      /\ carriers \in [Natives -> SUBSET Objects] /\ badUses \subseteq Natives
      /\ \A n \in Natives : ValueInv(n)
      /\ \A n \in Natives : EnvInv(n)
      /\ instance \in Natives \cup {Nothing} /\ hooks \subseteq Natives
      /\ way \in [Natives -> Ways] /\ lost \in [Natives -> Losses]
  BY DEF AttachInv, StoreTypes, AttachTypes
<1>2. \A n \in Natives : IsFiniteSet(carriers[n]) /\ (Many(n) <=> Spread(n))
  BY <1>1, ManyIsSpread DEF ValueInv
<1>3. UsedWhileAlive
  BY <1>1, <1>2 DEF UsedInv, Excused, UsedWhileAlive
<1>4. ASSUME NEW n \in Natives
      PROVE  /\ ~Spread(n) => freed[n] <= 1
             /\ lost[n] # "no" => freed[n] = 0
             /\ Finalized /\ way[n] # "none" /\ lost[n] = "no" => freed[n] >= 1
  <2>1. ValueInv(n) /\ EnvInv(n) /\ freed[n] \in Nat /\ way[n] \in Ways
    BY <1>1
  <2>2. lost[n] # "no" => freed[n] = 0
    BY <2>1 DEF ValueInv
  <2>3. CASE way[n] \in Carried /\ lost[n] = "no"
    <3>1. CASE carriers[n] = {}
      BY <2>1, <2>2, <2>3, <3>1 DEF ValueInv
    <3>2. CASE carriers[n] # {}
      <4>1. /\ FreedWith(n)
            /\ \A o \in carriers[n] : o \in Objects /\ js[o] # "none"
        BY <1>1, <2>1, <2>3, <3>2 DEF ValueInv
      <4>2. Finalized => freed[n] >= 1
        BY <3>2, <4>1 DEF FreedWith, Finalized
      <4>3. ASSUME ~Spread(n) PROVE freed[n] <= 1
        <5>1. PICK o \in Objects : o \in carriers[n]
          BY <3>2, <4>1
        <5>2. carriers[n] = {o}
          BY <1>2, <4>3, <5>1 DEF Many
        <5> QED
          BY <4>1, <5>2 DEF FreedWith
      <4> QED
        BY <2>3, <4>2, <4>3
    <3> QED
      BY <3>1, <3>2
  <2>4. CASE way[n] \in Hooks \cup {"instance"} /\ lost[n] = "no"
    <3>1. freed[n] \in {0, 1}
      BY <2>1, <2>4 DEF EnvInv, Hooks
    <3>2. Finalized => n # instance /\ n \notin hooks
      BY <1>1, <2>1, AttachAssumption DEF Finalized, EnvInv
    <3> QED
      BY <2>1, <2>4, <3>1, <3>2 DEF EnvInv, Hooks
  <2>5. CASE way[n] = "none" \/ lost[n] # "no"
    BY <2>1, <2>2, <2>5 DEF ValueInv
  <2> QED
    BY <2>1, <2>3, <2>4, <2>5 DEF Ways, Carried, Hooks, ValueInv
<1>5. FreedByCarrier
  BY <1>4 DEF FreedByCarrier
<1> QED
  BY <1>1, <1>3, <1>5 DEF AttachmentsAreFreed

(* Whatever Rust gives to JS objects and to the environment, in any number *)
(* and order, with any call refused: it is read as what it is, freed once  *)
(* with its carrier, and not used afterwards, but where AttachmentsAreFreed *)
(* says so.                                                                *)
THEOREM ValuesAreFreed == AttachSpec => []AttachmentsAreFreed
<1>1. AttachInit => AttachInv
  BY AttachInitInv
<1>2. AttachInv /\ [AttachNext]_attachments => AttachInv'
  BY AttachStep
<1>3. AttachInv => AttachmentsAreFreed
  BY AttachInvIsEnough
<1> QED
  BY <1>1, <1>2, <1>3, PTL DEF AttachSpec

=============================================================================
