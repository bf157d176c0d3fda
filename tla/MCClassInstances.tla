--------------------------- MODULE MCClassInstances ---------------------------
(* Interchangeable objects of classes, or the calls of one generator.      *)
EXTENDS ClassInstances, Generators, TLC

Symmetry == Permutations(Objects)

MCInit == Init /\ GeneratorInit

(* The calls are made of an instance that is alive (InUseIsAlive): they    *)
(* read nothing of how it came to be.                                      *)
MCNext ==
    \/ /\ Len(calls) = 0 /\ ~isAsync
       /\ Next
       /\ UNCHANGED generator
    \/ /\ \A o \in Objects : js[o] = "none"
       /\ ~building /\ ~envGone /\ ~flag /\ ~rustFailed
       /\ GeneratorNext
       /\ UNCHANGED vars

MCSpec == MCInit /\ [][MCNext]_<<vars, generator>>

=============================================================================
