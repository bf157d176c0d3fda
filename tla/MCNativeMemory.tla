--------------------------- MODULE MCNativeMemory ---------------------------
(* One typed array, or a few values attached to objects.                   *)
EXTENDS TypedArrays, Attachments, TLC

Symmetry == Permutations(Natives) \cup Permutations(Objects)

MCInit == Init /\ AttachInit

(* They share nothing but the garbage collector: one or the other is used. *)
MCNext ==
    \/ /\ \A n \in Natives : way[n] = "none"
       /\ \A o \in Objects : js[o] = "none"
       /\ ~ended
       /\ Next
       /\ UNCHANGED attachments
    \/ /\ rust = "none" /\ kind = "js" /\ ~empty /\ buffer = "reachable"
       /\ AttachNext
       /\ UNCHANGED vars

MCSpec == MCInit /\ [][MCNext]_<<vars, attachments>>

=============================================================================
