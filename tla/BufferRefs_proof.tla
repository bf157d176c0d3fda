-------------------------- MODULE BufferRefs_proof --------------------------
(***************************************************************************)
(* Proofs about ModuleRegister and BufferRefs, for any environments and    *)
(* threads: the types, that what a registration sets up is there once and  *)
(* stays, and where a reference is deleted.  And, from the section on      *)
(* Numbers on, that numbers cross exactly, for any widths.                 *)
(***************************************************************************)
EXTENDS BufferRefs, Numbers, FiniteSetTheorems, SequenceTheorems, TLAPS

-----------------------------------------------------------------------------
(* The inductive invariant                                                 *)

Entered == {e \in Envs : pc[e] # "out"}

(* The environment with the hook has run it.                               *)
HookRan == \E e \in hooked : pc[e] \in {"shutting", "closing", "gone"}

(* MODULE_COUNT is the number of environments that ever came in, less the  *)
(* one whose hook has run: the others' exits are not counted.              *)
CountInv ==
    /\ IsFiniteSet(Entered)
    /\ count = Cardinality(Entered) - (IF HookRan THEN 1 ELSE 0)

(* There is one cleanup hook in the life of the process.                   *)
HookInv ==
    /\ \A e, f \in hooked : e = f
    /\ ~hookAdded => hooked = {}
    /\ \A e \in hooked : pc[e] \in {"finishing", "live", "gone"} \cup Leaving
    /\ \A e \in Envs : pc[e] = "shutting" => e \in hooked

(* Until the first registration ends one environment registers, the others *)
(* wait for it; CUSTOM_GC_TSFN is made in that time or never.              *)
FirstInv ==
    /\ ~first => \A e \in Envs : pc[e] \in {"out"} \cup Registering
    /\ ~first => \A e, f \in Entered :
                    pc[e] # "waiting" /\ pc[f] # "waiting" => e = f
    /\ gcMade = IF gcOwner = None THEN {} ELSE {gcOwner}
    /\ ~first /\ gcOwner # None =>
          pc[gcOwner] \in {"starting", "hooking", "finishing"}

(* The runtime is there for whoever came in when it was not about to be    *)
(* shut down: the environment that does it is the last one, but for those  *)
(* that come in after its fetch_sub.                                       *)
RuntimeInv ==
    /\ \A e, f \in Envs : pc[e] = "shutting" /\ f # e =>
          pc[f] = "out" \/ f \in overlapped
    /\ \A e \in Envs : pc[e] \in {"hooking", "finishing", "live"} =>
          rt \/ e \in overlapped

(* A thread that has registered an environment may use it.                 *)
ThreadInv ==
    \A e \in Envs :
        /\ pc[e] # "out" => thread[e] \in Threads
        /\ pc[e] \notin {"out", "waiting", "registering"} =>
              thread[e] \in canAccess

(* Who is dropped in a call does not need CUSTOM_GC_TSFN.                  *)
DropInv ==
    \A b \in Buffers : droppedBy[b] # None => ref[b] \in {"deleted", "lost"}

RegInv == TypeOK /\ CountInv /\ HookInv /\ FirstInv /\ RuntimeInv /\ ThreadInv

IndInv == RegInv /\ BufTypeOK /\ DropInv
-----------------------------------------------------------------------------
(* The count                                                               *)

(* The initial state satisfies the invariant.                              *)
LEMMA InitRegInv == Init => RegInv
<1> SUFFICES ASSUME Init PROVE RegInv
  OBVIOUS
<1> USE DEF Init
<1>1. TypeOK
  BY DEF TypeOK, Phases, BlockStates
<1>2. CountInv
  <2>1. Entered = {} /\ ~HookRan
    BY DEF Entered, HookRan
  <2> QED
    BY <2>1, FS_EmptySet DEF CountInv
<1>3. HookInv /\ FirstInv /\ RuntimeInv /\ ThreadInv
  BY DEF HookInv, FirstInv, RuntimeInv, ThreadInv, Entered
<1> QED
  BY <1>1, <1>2, <1>3 DEF RegInv

(* What MODULE_COUNT says of the environments that came in.                *)
LEMMA CountOfEntered ==
  ASSUME RegInv
  PROVE  /\ IsFiniteSet(Entered) /\ Cardinality(Entered) \in Nat
         /\ HookRan => count = Cardinality(Entered) - 1
         /\ ~HookRan => count = Cardinality(Entered)
<1>1. Cardinality(Entered) \in Nat
  BY FS_CardinalityType DEF RegInv, CountInv
<1> QED
  BY <1>1 DEF RegInv, CountInv

(* Only the first fetch_add finds 0 while no registration has ended.       *)
LEMMA ZeroIsFirst ==
  ASSUME RegInv, ~first, count = 0
  PROVE  Entered = {}
<1>1. ~HookRan
  BY DEF RegInv, HookRan, HookInv, FirstInv, Registering, TypeOK
<1> QED
  BY <1>1, CountOfEntered, FS_EmptySet

(* The fetch_sub of the hook counts down from at least 1, and from 1 only  *)
(* when nobody else ever came in.                                          *)
LEMMA LastCleanup ==
  ASSUME RegInv, NEW e \in hooked, pc[e] = "exiting"
  PROVE  /\ ~HookRan /\ count = Cardinality(Entered) /\ count >= 1
         /\ count = 1 => \A f \in Envs \ {e} : pc[f] = "out"
<1> USE DEF RegInv
<1>1. e \in Entered
  BY DEF TypeOK, Entered
<1>2. ~HookRan
  BY DEF HookRan, HookInv
<1>3. /\ count = Cardinality(Entered) /\ Cardinality(Entered) \in Nat
      /\ IsFiniteSet(Entered)
  BY <1>2, CountOfEntered
<1>4. count \in Nat /\ count # 0
  BY <1>1, <1>3, FS_EmptySet
<1>5. ASSUME count = 1 PROVE Entered = {e}
  <2>1. PICK f : Entered = {f}
    BY <1>3, <1>5, FS_Singleton
  <2> QED
    BY <1>1, <2>1
<1> QED
  BY <1>2, <1>3, <1>4, <1>5 DEF Entered

(* An environment that goes on, without its hook, changes nothing of the   *)
(* count.                                                                  *)
LEMMA CountStays ==
  ASSUME RegInv, NEW e \in Envs, pc[e] # "out", NEW p \in Phases, p # "out",
         Goto(e, p), UNCHANGED count, HookRan' <=> HookRan
  PROVE  CountInv'
<1>1. Entered' = Entered
  BY DEF RegInv, TypeOK, Entered, Goto
<1> QED
  BY <1>1 DEF RegInv, CountInv

(* Neither does a step from one phase before the hook to another.          *)
LEMMA HookStays ==
  ASSUME RegInv, NEW e \in Envs, NEW p \in Phases, Goto(e, p),
         UNCHANGED hooked,
         pc[e] \in {"shutting", "closing", "gone"}
            <=> p \in {"shutting", "closing", "gone"}
  PROVE  HookRan' <=> HookRan
BY DEF RegInv, TypeOK, HookRan, Goto

-----------------------------------------------------------------------------
(* The steps of the environments                                           *)

(* An environment comes in.                                                *)
LEMMA EnterKeeps ==
  ASSUME RegInv, NEW e \in Envs, Enter(e)
  PROVE  RegInv'
<1> DEFINE p == IF count = 0 THEN "registering" ELSE "waiting"
<1>1. /\ pc[e] = "out" /\ pc' = [pc EXCEPT ![e] = p] /\ p \in Phases
      /\ p \in {"registering", "waiting"}
      /\ count' = count + 1
      /\ UNCHANGED <<first, hookAdded, hooked, rt, blocking, gcOwner,
                     gcDestroyed, canAccess, gcMade>>
  BY DEF Enter, Goto, hookVars, gcVars, Phases, Registering
<1>2. PICK th \in Threads : thread' = [thread EXCEPT ![e] = th]
  BY DEF Enter
<1>3. /\ overlapped \subseteq overlapped' /\ overlapped' \subseteq Envs
      /\ (\E f \in Envs : pc[f] = "shutting") => e \in overlapped'
  BY DEF Enter, RegInv, TypeOK
<1>4. /\ pc' \in [Envs -> Phases] /\ pc'[e] = p
      /\ \A f \in Envs \ {e} : pc'[f] = pc[f]
      /\ thread' \in [Envs -> Threads \cup {None}] /\ thread'[e] = th
      /\ \A f \in Envs \ {e} : thread'[f] = thread[f]
  BY <1>1, <1>2 DEF RegInv, TypeOK
<1> HIDE DEF p
<1>5. TypeOK'
  BY <1>1, <1>3, <1>4 DEF RegInv, TypeOK
<1>6. CountInv'
  <2>1. Entered' = Entered \cup {e} /\ e \notin Entered
    BY <1>1, <1>4 DEF Entered
  <2>2. HookRan' <=> HookRan
    BY <1>1, <1>4 DEF RegInv, TypeOK, HookRan, HookInv
  <2>3. /\ IsFiniteSet(Entered')
        /\ Cardinality(Entered') = Cardinality(Entered) + 1
    BY <2>1, CountOfEntered, FS_AddElement
  <2> QED
    BY <1>1, <2>2, <2>3, CountOfEntered DEF CountInv
<1>7. HookInv'
  BY <1>1, <1>4 DEF RegInv, TypeOK, HookInv, Leaving
<1>8. FirstInv'
  <2>1. ASSUME ~first
        PROVE  \A f \in Envs \ {e} : p # "waiting" => pc[f] = "out"
    BY <1>1, <2>1, ZeroIsFirst DEF Entered, p
  <2> QED
    BY <1>1, <1>4, <2>1 DEF RegInv, TypeOK, FirstInv, Entered, Registering
<1>9. RuntimeInv'
  BY <1>1, <1>3, <1>4 DEF RegInv, TypeOK, RuntimeInv
<1>10. ThreadInv'
  BY <1>1, <1>4 DEF RegInv, TypeOK, ThreadInv
<1> QED
  BY <1>5, <1>6, <1>7, <1>8, <1>9, <1>10 DEF RegInv

(* It stops waiting.                                                       *)
LEMMA WaitFirstKeeps ==
  ASSUME RegInv, NEW e \in Envs, WaitFirst(e)
  PROVE  RegInv'
<1> DEFINE p == "registering"
<1>1. /\ pc[e] = "waiting" /\ pc' = [pc EXCEPT ![e] = p] /\ p \in Phases
      /\ UNCHANGED <<count, first, thread, hookAdded, hooked, rt,
                     blocking, gcOwner, gcDestroyed, canAccess, gcMade,
                     overlapped>>
  BY DEF WaitFirst, Goto, regVars, hookVars, gcVars, Phases, Registering,
     Leaving
<1>2. /\ pc' \in [Envs -> Phases] /\ pc'[e] = p
      /\ \A f \in Envs \ {e} : pc'[f] = pc[f]
  BY <1>1 DEF RegInv, TypeOK
<1>3. TypeOK'
  BY <1>1, <1>2 DEF RegInv, TypeOK
<1>4. CountInv'
  BY <1>1, CountStays, HookStays DEF Goto
<1>5. HookInv'
  BY <1>1, <1>2 DEF RegInv, TypeOK, HookInv, Leaving
<1>6. FirstInv'
  BY <1>1, <1>2 DEF WaitFirst, RegInv, TypeOK, FirstInv, Entered, Registering
<1>7. RuntimeInv'
  BY <1>1, <1>2 DEF RegInv, TypeOK, RuntimeInv
<1>8. ThreadInv'
  BY <1>1, <1>2 DEF RegInv, TypeOK, ThreadInv
<1> QED
  BY <1>3, <1>4, <1>5, <1>6, <1>7, <1>8 DEF RegInv

(* It makes the function, if it is the first.                              *)
LEMMA CreateCustomGcKeeps ==
  ASSUME RegInv, NEW e \in Envs, CreateCustomGc(e)
  PROVE  RegInv'
<1> DEFINE p == "starting"
<1>1. /\ pc[e] = "registering" /\ pc' = [pc EXCEPT ![e] = p] /\ p \in Phases
      /\ UNCHANGED <<count, first, thread, hookAdded, hooked, rt,
                     blocking, gcDestroyed, overlapped>>
  BY DEF CreateCustomGc, Goto, regVars, hookVars, gcVars, Phases, Registering,
     Leaving
<1>2. /\ pc' \in [Envs -> Phases] /\ pc'[e] = p
      /\ \A f \in Envs \ {e} : pc'[f] = pc[f]
  BY <1>1 DEF RegInv, TypeOK
<1>3. TypeOK'
  <2>1. canAccess' \subseteq Threads
    BY <1>1 DEF CreateCustomGc, RegInv, TypeOK, ThreadInv
  <2>2. gcOwner' \in Envs \cup {None} /\ gcMade' \subseteq Envs
    BY DEF CreateCustomGc, RegInv, TypeOK
  <2> QED
    BY <1>1, <1>2, <2>1, <2>2 DEF RegInv, TypeOK
<1>4. CountInv'
  BY <1>1, CountStays, HookStays DEF Goto
<1>5. HookInv'
  BY <1>1, <1>2 DEF RegInv, TypeOK, HookInv, Leaving
<1>6. FirstInv'
  <2>1. CASE first
    BY <1>1, <1>2, <2>1 DEF CreateCustomGc, RegInv, TypeOK, FirstInv
  <2>2. CASE ~first
    <3>1. gcOwner = None /\ gcMade = {}
      BY <1>1, <2>2 DEF RegInv, TypeOK, FirstInv, Entered
    <3>2. gcOwner' = e /\ gcMade' = {e} /\ e # None
      BY <2>2, <3>1, NoneAssumption DEF CreateCustomGc
    <3> QED
      BY <1>1, <1>2, <2>2, <3>2
      DEF RegInv, TypeOK, FirstInv, Entered, Registering
  <2> QED
    BY <2>1, <2>2
<1>7. RuntimeInv'
  BY <1>1, <1>2 DEF RegInv, TypeOK, RuntimeInv
<1>8. ThreadInv'
  BY <1>1, <1>2 DEF CreateCustomGc, RegInv, TypeOK, ThreadInv
<1> QED
  BY <1>3, <1>4, <1>5, <1>6, <1>7, <1>8 DEF RegInv

(* It makes sure that the runtime is there.                                *)
LEMMA StartRuntimeKeeps ==
  ASSUME RegInv, NEW e \in Envs, StartRuntime(e)
  PROVE  RegInv'
<1> DEFINE p == "hooking"
<1>1. /\ pc[e] = "starting" /\ pc' = [pc EXCEPT ![e] = p] /\ p \in Phases
      /\ UNCHANGED <<count, first, thread, hookAdded, hooked, blocking,
                     gcOwner, gcDestroyed, canAccess, gcMade, overlapped>>
  BY DEF StartRuntime, Goto, regVars, hookVars, gcVars, Phases, Registering,
     Leaving
<1>2. /\ pc' \in [Envs -> Phases] /\ pc'[e] = p
      /\ \A f \in Envs \ {e} : pc'[f] = pc[f]
  BY <1>1 DEF RegInv, TypeOK
<1>3. TypeOK'
  BY <1>1, <1>2 DEF StartRuntime, RegInv, TypeOK
<1>4. CountInv'
  BY <1>1, CountStays, HookStays DEF Goto
<1>5. HookInv'
  BY <1>1, <1>2 DEF RegInv, TypeOK, HookInv, Leaving
<1>6. FirstInv'
  BY <1>1, <1>2 DEF RegInv, TypeOK, FirstInv, Entered, Registering
<1>7. RuntimeInv'
  BY <1>1, <1>2 DEF StartRuntime, RegInv, TypeOK, RuntimeInv
<1>8. ThreadInv'
  BY <1>1, <1>2 DEF RegInv, TypeOK, ThreadInv
<1> QED
  BY <1>3, <1>4, <1>5, <1>6, <1>7, <1>8 DEF RegInv

(* It installs the hook, if nobody has.                                    *)
LEMMA AddHookKeeps ==
  ASSUME RegInv, NEW e \in Envs, AddHook(e)
  PROVE  RegInv'
<1> DEFINE p == "finishing"
<1>1. /\ pc[e] = "hooking" /\ pc' = [pc EXCEPT ![e] = p] /\ p \in Phases
      /\ UNCHANGED <<count, first, thread, rt, blocking, gcOwner,
                     gcDestroyed, canAccess, gcMade, overlapped>>
  BY DEF AddHook, Goto, regVars, hookVars, gcVars, Phases, Registering,
     Leaving
<1>2. /\ pc' \in [Envs -> Phases] /\ pc'[e] = p
      /\ \A f \in Envs \ {e} : pc'[f] = pc[f]
  BY <1>1 DEF RegInv, TypeOK
<1>3. TypeOK'
  BY <1>1, <1>2 DEF AddHook, RegInv, TypeOK
<1>4. CountInv'
  <2>1. hooked' = hooked \/ hooked' = hooked \cup {e}
    BY DEF AddHook
  <2>2. HookRan' <=> HookRan
    BY <1>1, <1>2, <2>1 DEF RegInv, TypeOK, HookRan
  <2> QED
    BY <1>1, <2>2, CountStays DEF Goto
<1>5. HookInv'
  BY <1>1, <1>2 DEF AddHook, RegInv, TypeOK, HookInv, Leaving
<1>6. FirstInv'
  BY <1>1, <1>2 DEF RegInv, TypeOK, FirstInv, Entered, Registering
<1>7. RuntimeInv'
  BY <1>1, <1>2 DEF RegInv, TypeOK, RuntimeInv
<1>8. ThreadInv'
  BY <1>1, <1>2 DEF RegInv, TypeOK, ThreadInv
<1> QED
  BY <1>3, <1>4, <1>5, <1>6, <1>7, <1>8 DEF RegInv

(* The flag is set at the end.                                             *)
LEMMA RegisteredKeeps ==
  ASSUME RegInv, NEW e \in Envs, Registered(e)
  PROVE  RegInv'
<1> DEFINE p == "live"
<1>1. /\ pc[e] = "finishing" /\ pc' = [pc EXCEPT ![e] = p] /\ p \in Phases
      /\ UNCHANGED <<count, thread, hookAdded, hooked, rt, blocking,
                     gcOwner, gcDestroyed, canAccess, gcMade, overlapped>>
  BY DEF Registered, Goto, regVars, hookVars, gcVars, Phases, Registering,
     Leaving
<1>2. /\ pc' \in [Envs -> Phases] /\ pc'[e] = p
      /\ \A f \in Envs \ {e} : pc'[f] = pc[f]
  BY <1>1 DEF RegInv, TypeOK
<1>3. TypeOK'
  BY <1>1, <1>2 DEF Registered, RegInv, TypeOK
<1>4. CountInv'
  BY <1>1, CountStays, HookStays DEF Goto
<1>5. HookInv'
  BY <1>1, <1>2 DEF RegInv, TypeOK, HookInv, Leaving
<1>6. FirstInv'
  BY <1>1, <1>2 DEF Registered, RegInv, TypeOK, FirstInv
<1>7. RuntimeInv'
  BY <1>1, <1>2 DEF RegInv, TypeOK, RuntimeInv
<1>8. ThreadInv'
  BY <1>1, <1>2 DEF RegInv, TypeOK, ThreadInv
<1> QED
  BY <1>3, <1>4, <1>5, <1>6, <1>7, <1>8 DEF RegInv

(* The environment ends.                                                   *)
LEMMA ExitKeeps ==
  ASSUME RegInv, NEW e \in Envs, Exit(e)
  PROVE  RegInv'
<1> DEFINE p == "exiting"
<1>1. /\ pc[e] = "live" /\ pc' = [pc EXCEPT ![e] = p] /\ p \in Phases
      /\ UNCHANGED <<count, first, thread, hookAdded, hooked, rt,
                     blocking, gcOwner, gcDestroyed, canAccess, gcMade,
                     overlapped>>
  BY DEF Exit, Goto, regVars, hookVars, gcVars, Phases, Registering,
     Leaving
<1>2. /\ pc' \in [Envs -> Phases] /\ pc'[e] = p
      /\ \A f \in Envs \ {e} : pc'[f] = pc[f]
  BY <1>1 DEF RegInv, TypeOK
<1>3. TypeOK'
  BY <1>1, <1>2 DEF RegInv, TypeOK
<1>4. CountInv'
  BY <1>1, CountStays, HookStays DEF Goto
<1>5. HookInv'
  BY <1>1, <1>2 DEF RegInv, TypeOK, HookInv, Leaving
<1>6. FirstInv'
  BY <1>1, <1>2 DEF RegInv, TypeOK, FirstInv, Entered, Registering
<1>7. RuntimeInv'
  BY <1>1, <1>2 DEF RegInv, TypeOK, RuntimeInv
<1>8. ThreadInv'
  BY <1>1, <1>2 DEF RegInv, TypeOK, ThreadInv
<1> QED
  BY <1>3, <1>4, <1>5, <1>6, <1>7, <1>8 DEF RegInv

(* Its hooks run.                                                          *)
LEMMA CleanupKeeps ==
  ASSUME RegInv, NEW e \in Envs, Cleanup(e)
  PROVE  RegInv'
<1> DEFINE p == IF e \in hooked /\ count = 1 THEN "shutting" ELSE "closing"
<1>1. /\ pc[e] = "exiting" /\ pc' = [pc EXCEPT ![e] = p] /\ p \in Phases
      /\ UNCHANGED <<first, thread, hookAdded, hooked, rt, blocking,
                     gcOwner, gcDestroyed, canAccess, gcMade, overlapped>>
  BY DEF Cleanup, Goto, regVars, hookVars, gcVars, Phases, Registering,
     Leaving
<1>2. /\ pc' \in [Envs -> Phases] /\ pc'[e] = p
      /\ \A f \in Envs \ {e} : pc'[f] = pc[f]
  BY <1>1 DEF RegInv, TypeOK
<1>3. TypeOK'
  <2>1. count' \in Nat
    BY <1>1, LastCleanup DEF Cleanup, RegInv, TypeOK
  <2> QED
    BY <1>1, <1>2, <2>1 DEF RegInv, TypeOK
<1>4. CountInv'
  <2>1. CASE e \in hooked
    <3>1. Entered' = Entered
      BY <1>1, <1>2 DEF Entered
    <3>2. HookRan'
      BY <1>1, <1>2, <2>1 DEF HookRan
    <3>3. count' = Cardinality(Entered) - 1 /\ IsFiniteSet(Entered)
      BY <1>1, <2>1, LastCleanup, CountOfEntered DEF Cleanup
    <3> QED
      BY <3>1, <3>2, <3>3 DEF CountInv
  <2>2. CASE e \notin hooked
    <3>1. HookRan' <=> HookRan
      BY <1>1, <1>2, <2>2 DEF HookRan, RegInv, TypeOK
    <3>2. UNCHANGED count
      BY <2>2 DEF Cleanup
    <3> QED
      BY <1>1, <3>1, <3>2, CountStays DEF Goto
  <2> QED
    BY <2>1, <2>2
<1>5. HookInv'
  BY <1>1, <1>2 DEF RegInv, TypeOK, HookInv, Leaving
<1>6. FirstInv'
  BY <1>1, <1>2 DEF RegInv, TypeOK, FirstInv, Entered, Registering
<1>7. RuntimeInv'
  <2>1. p = "shutting" => \A f \in Envs \ {e} : pc[f] = "out"
    BY <1>1, LastCleanup
  <2> QED
    BY <1>1, <1>2, <2>1 DEF RegInv, TypeOK, RuntimeInv
<1>8. ThreadInv'
  BY <1>1, <1>2 DEF RegInv, TypeOK, ThreadInv
<1> QED
  BY <1>3, <1>4, <1>5, <1>6, <1>7, <1>8 DEF RegInv

(* It shuts the runtime down.                                              *)
LEMMA ShutdownKeeps ==
  ASSUME RegInv, NEW e \in Envs, Shutdown(e)
  PROVE  RegInv'
<1> DEFINE p == "closing"
<1>1. /\ pc[e] = "shutting" /\ pc' = [pc EXCEPT ![e] = p] /\ p \in Phases
      /\ UNCHANGED <<count, first, thread, hookAdded, hooked, blocking,
                     gcOwner, gcDestroyed, canAccess, gcMade, overlapped>>
  BY DEF Shutdown, Goto, regVars, hookVars, gcVars, Phases, Registering,
     Leaving
<1>2. /\ pc' \in [Envs -> Phases] /\ pc'[e] = p
      /\ \A f \in Envs \ {e} : pc'[f] = pc[f]
  BY <1>1 DEF RegInv, TypeOK
<1>3. TypeOK'
  BY <1>1, <1>2 DEF Shutdown, RegInv, TypeOK
<1>4. CountInv'
  BY <1>1, CountStays, HookStays DEF Goto
<1>5. HookInv'
  BY <1>1, <1>2 DEF RegInv, TypeOK, HookInv, Leaving
<1>6. FirstInv'
  BY <1>1, <1>2 DEF RegInv, TypeOK, FirstInv, Entered, Registering
<1>7. RuntimeInv'
  BY <1>1, <1>2 DEF RegInv, TypeOK, RuntimeInv
<1>8. ThreadInv'
  BY <1>1, <1>2 DEF RegInv, TypeOK, ThreadInv
<1> QED
  BY <1>3, <1>4, <1>5, <1>6, <1>7, <1>8 DEF RegInv

(* It is gone.                                                             *)
LEMMA CloseFunctionsKeeps ==
  ASSUME RegInv, NEW e \in Envs, CloseFunctions(e)
  PROVE  RegInv'
<1> DEFINE p == "gone"
<1>1. /\ pc[e] = "closing" /\ pc' = [pc EXCEPT ![e] = p] /\ p \in Phases
      /\ UNCHANGED <<count, first, thread, hookAdded, hooked, rt,
                     blocking, gcOwner, canAccess, gcMade, overlapped>>
  BY DEF CloseFunctions, Goto, regVars, hookVars, gcVars, Phases, Registering,
     Leaving
<1>2. /\ pc' \in [Envs -> Phases] /\ pc'[e] = p
      /\ \A f \in Envs \ {e} : pc'[f] = pc[f]
  BY <1>1 DEF RegInv, TypeOK
<1>3. TypeOK'
  <2>1. gcDestroyed' \in BOOLEAN
    BY DEF CloseFunctions
  <2> QED
    BY <1>1, <1>2, <2>1 DEF RegInv, TypeOK
<1>4. CountInv'
  BY <1>1, CountStays, HookStays DEF Goto
<1>5. HookInv'
  BY <1>1, <1>2 DEF RegInv, TypeOK, HookInv, Leaving
<1>6. FirstInv'
  BY <1>1, <1>2 DEF RegInv, TypeOK, FirstInv, Entered, Registering
<1>7. RuntimeInv'
  BY <1>1, <1>2 DEF RegInv, TypeOK, RuntimeInv
<1>8. ThreadInv'
  BY <1>1, <1>2 DEF RegInv, TypeOK, ThreadInv
<1> QED
  BY <1>3, <1>4, <1>5, <1>6, <1>7, <1>8 DEF RegInv

(* block_on changes nothing of this.                                       *)
LEMMA BlockingKeeps ==
  ASSUME RegInv, blocking' \in [Envs -> BlockStates],
         UNCHANGED <<pc, regVars, hookVars, rt, gcVars, overlapped>>
  PROVE  RegInv'
<1>1. UNCHANGED <<pc, count, first, thread, hookAdded, hooked, rt, gcOwner,
                  gcDestroyed, canAccess, gcMade, overlapped>>
  BY DEF regVars, hookVars, gcVars
<1>2. TypeOK'
  BY <1>1 DEF RegInv, TypeOK
<1>3. CountInv'
  BY <1>1 DEF RegInv, CountInv, Entered, HookRan
<1>4. HookInv' /\ FirstInv' /\ RuntimeInv' /\ ThreadInv'
  BY <1>1 DEF RegInv, HookInv, FirstInv, RuntimeInv, ThreadInv, Entered
<1> QED
  BY <1>2, <1>3, <1>4 DEF RegInv

(* Every step of the environments keeps the invariant.                     *)
LEMMA RegStep ==
  ASSUME RegInv, [Next]_vars
  PROVE  RegInv'
<1>1. CASE UNCHANGED vars
  <2>1. UNCHANGED <<pc, regVars, hookVars, rt, blocking, gcVars, overlapped>>
    BY <1>1 DEF vars
  <2> QED
    BY <2>1, BlockingKeeps DEF RegInv, TypeOK
<1>2. ASSUME NEW e \in Envs, BlockOn(e) \/ SpawnInside(e) \/ Block(e)
      PROVE  RegInv'
  <2>1. blocking' \in [Envs -> BlockStates]
    BY <1>2 DEF RegInv, TypeOK, BlockStates, BlockOn, SpawnInside, Block,
       Spawned, BlockOnEnds
  <2>2. UNCHANGED <<pc, regVars, hookVars, rt, gcVars, overlapped>>
    BY <1>2 DEF BlockOn, SpawnInside, Block, Spawned, BlockOnEnds
  <2> QED
    BY <2>1, <2>2, BlockingKeeps
<1>3. ASSUME NEW e \in Envs, Register(e)
      PROVE  RegInv'
  BY <1>3, WaitFirstKeeps, CreateCustomGcKeeps, StartRuntimeKeeps,
     AddHookKeeps, RegisteredKeeps DEF Register
<1>4. ASSUME NEW e \in Envs, Leave(e)
      PROVE  RegInv'
  BY <1>4, CleanupKeeps, ShutdownKeeps, CloseFunctionsKeeps DEF Leave
<1> QED
  BY <1>1, <1>2, <1>3, <1>4, EnterKeeps, ExitKeeps DEF Next, Done

-----------------------------------------------------------------------------
(* The steps of the buffers                                                *)

(* The initial state satisfies the invariant.                              *)
LEMMA InitIndInv == BufInit => IndInv
<1> SUFFICES ASSUME BufInit PROVE IndInv
  OBVIOUS
<1>1. RegInv
  BY InitRegInv DEF BufInit
<1> QED
  BY <1>1 DEF BufInit, IndInv, RegInv, BufTypeOK, RefStates, DropInv

(* A step of a buffer, as long as it does what its type allows.            *)
LEMMA BufferKeeps ==
  ASSUME IndInv, UNCHANGED vars, NEW b \in Buffers,
         NEW r \in RefStates, ref' = [ref EXCEPT ![b] = r],
         ref[b] \notin {"deleted", "lost"},
         home' \in [Buffers -> Envs \cup {None}],
         UNCHANGED droppedBy \/ r \in {"deleted", "lost"},
         droppedBy' \in [Buffers -> Envs \cup {None}],
         \A c \in Buffers \ {b} : droppedBy'[c] = droppedBy[c],
         deletedBy' \in [Buffers -> Envs \cup {None}]
  PROVE  IndInv'
<1>1. RegInv'
  BY RegStep DEF IndInv
<1>2. BufTypeOK'
  BY <1>1 DEF IndInv, RegInv, BufTypeOK
<1>3. DropInv'
  BY DEF IndInv, BufTypeOK, DropInv
<1> QED
  BY <1>1, <1>2, <1>3 DEF IndInv

(* An environment in whose call something is dropped may use its thread.   *)
LEMMA LiveMayUseEnv ==
  ASSUME IndInv, NEW e \in Envs, pc[e] = "live"
  PROVE  thread[e] \in canAccess
BY DEF IndInv, RegInv, ThreadInv

(* Every step keeps the invariant.                                         *)
LEMMA BufStep ==
  ASSUME IndInv, [BufNext]_allVars
  PROVE  IndInv'
<1> USE DEF IndInv
<1>1. CASE UNCHANGED allVars
  <2>1. UNCHANGED vars /\ UNCHANGED <<ref, home, droppedBy, deletedBy>>
    BY <1>1 DEF allVars, bufVars
  <2>2. RegInv'
    BY <2>1, RegStep
  <2> QED
    BY <2>1, <2>2 DEF RegInv, BufTypeOK, DropInv
<1>2. CASE EnvStep
  <2>1. RegInv'
    BY <1>2, RegStep DEF EnvStep
  <2>2. /\ UNCHANGED <<home, droppedBy, deletedBy>>
        /\ ref' \in [Buffers -> RefStates]
        /\ \A b \in Buffers : ref[b] # "queued" => ref'[b] = ref[b]
    BY <1>2 DEF EnvStep, BufTypeOK, RefStates
  <2> QED
    BY <2>1, <2>2 DEF RegInv, BufTypeOK, DropInv
<1>3. ASSUME NEW b \in Buffers, DropElsewhere(b) \/ Gc(b)
      PROVE  IndInv'
  <2>1. ref[b] \in {"held", "checked", "queued"}
    BY <1>3 DEF DropElsewhere, Gc, CallCustomGc, CustomGc
  <2>2. UNCHANGED <<vars, home, droppedBy>>
    BY <1>3 DEF DropElsewhere, Gc, CallCustomGc, CustomGc
  <2>3. PICK r \in RefStates : ref' = [ref EXCEPT ![b] = r]
    BY <1>3 DEF DropElsewhere, Gc, CallCustomGc, CustomGc, Delete, Lose,
       RefStates
  <2>4. deletedBy' \in [Buffers -> Envs \cup {None}]
    <3>1. gcOwner \in Envs \cup {None}
      BY DEF BufTypeOK, TypeOK
    <3> QED
      BY <1>3, <3>1 DEF DropElsewhere, Gc, CallCustomGc, CustomGc, Delete,
         Lose, BufTypeOK
  <2> QED
    BY <2>1, <2>2, <2>3, <2>4, BufferKeeps DEF BufTypeOK
<1>4. ASSUME NEW b \in Buffers, NEW e \in Envs, Take(b, e)
      PROVE  IndInv'
  <2>1. "held" \in RefStates
    BY DEF RefStates
  <2> QED
    BY <1>4, <2>1, BufferKeeps DEF Take, BufTypeOK
<1>5. ASSUME NEW b \in Buffers, NEW e \in Envs, DropInCall(b, e)
      PROVE  IndInv'
  <2>1. thread[e] \in canAccess
    BY <1>5, LiveMayUseEnv DEF DropInCall
  <2>2. PICK r \in {"deleted", "lost"} : ref' = [ref EXCEPT ![b] = r]
    BY <1>5, <2>1 DEF DropInCall, Delete, Lose
  <2>3. deletedBy' \in [Buffers -> Envs \cup {None}]
    BY <1>5, <2>1 DEF DropInCall, Delete, Lose, BufTypeOK
  <2>4. /\ ref[b] = "held" /\ UNCHANGED <<vars, home>>
        /\ droppedBy' = [droppedBy EXCEPT ![b] = e]
    BY <1>5 DEF DropInCall
  <2> QED
    BY <2>2, <2>3, <2>4, BufferKeeps DEF BufTypeOK, RefStates
<1> QED
  BY <1>1, <1>2, <1>3, <1>4, <1>5 DEF BufNext

-----------------------------------------------------------------------------
(* What is proved                                                          *)

(* The invariant holds in every state of BufSpec.                          *)
THEOREM Invariance == BufSpec => []IndInv
<1>1. IndInv /\ [BufNext]_allVars => IndInv'
  BY BufStep
<1> QED
  BY <1>1, InitIndInv, PTL DEF BufSpec

(* Every variable of both modules has its type.                            *)
THEOREM TypeCorrect == BufSpec => []BufTypeOK
<1>1. IndInv => BufTypeOK
  BY DEF IndInv
<1> QED
  BY <1>1, Invariance, PTL

(* However many environments load the module, on whatever threads and in   *)
(* whatever order, CustomGC is made once and a registered environment has  *)
(* a runtime to the end, unless it came in during another's shutdown.      *)
THEOREM RegisteredReady == BufSpec => []RegisteredIsReady
<1>1. IndInv => RegisteredIsReady
  <2> SUFFICES ASSUME IndInv PROVE RegisteredIsReady
    OBVIOUS
  <2>1. gcMade = {} \/ gcMade = {gcOwner}
    BY DEF IndInv, RegInv, FirstInv
  <2>2. Cardinality(gcMade) = 0 \/ Cardinality(gcMade) = 1
    BY <2>1, FS_EmptySet, FS_Singleton
  <2>3. OneCustomGc
    BY <2>2 DEF OneCustomGc
  <2>4. LiveHasRuntime
    BY DEF IndInv, RegInv, RuntimeInv, LiveHasRuntime
  <2> QED
    BY <2>3, <2>4 DEF RegisteredIsReady
<1> QED
  BY <1>1, Invariance, PTL

(* A reference is deleted in the environment that created it and while it  *)
(* lives, unless another environment dropped the value or, for a drop on a *)
(* thread without JS, made the CustomGC function.                          *)
THEOREM DeletesAtHome == BufSpec => DeletedAtHome
<1> DEFINE Step == \A b \in Buffers :
                     ref[b] # "deleted" /\ ref'[b] = "deleted" =>
                        Shared(b)' \/ (deletedBy'[b] = home[b]
                                       /\ pc[home[b]] = "live")
<1>1. ASSUME IndInv, BufNext PROVE Step
  <2> SUFFICES ASSUME NEW b \in Buffers, ref[b] # "deleted",
                      ref'[b] = "deleted"
               PROVE  \/ Shared(b)'
                      \/ deletedBy'[b] = home[b] /\ pc[home[b]] = "live"
    OBVIOUS
  <2> USE <1>1 DEF IndInv
  <2>1. CASE EnvStep
    BY <2>1 DEF EnvStep, BufTypeOK
  <2>2. ASSUME NEW c \in Buffers, DropElsewhere(c) \/ CallCustomGc(c)
        PROVE  FALSE
    BY <2>2 DEF DropElsewhere, CallCustomGc, Lose, BufTypeOK
  <2>3. ASSUME NEW c \in Buffers, NEW e \in Envs, Take(c, e)
        PROVE  FALSE
    BY <2>3 DEF Take, BufTypeOK
  <2>4. ASSUME NEW c \in Buffers, CustomGc(c)
        PROVE  \/ Shared(b)'
               \/ deletedBy'[b] = home[b] /\ pc[home[b]] = "live"
    <3>1. /\ ref[c] = "queued" /\ pc[gcOwner] = "live"
          /\ UNCHANGED <<home, droppedBy, gcOwner>>
      BY <2>4 DEF CustomGc, Runs, vars, gcVars
    <3>2. c = b /\ deletedBy'[b] = gcOwner
      BY <2>4, <3>1 DEF CustomGc, Delete, Lose, BufTypeOK
    <3>3. droppedBy[b] = None
      BY <3>1, <3>2 DEF DropInv
    <3> QED
      BY <3>1, <3>2, <3>3 DEF Shared
  <2>5. ASSUME NEW c \in Buffers, NEW e \in Envs, DropInCall(c, e)
        PROVE  \/ Shared(b)'
               \/ deletedBy'[b] = home[b] /\ pc[home[b]] = "live"
    <3>1. /\ ref[c] = "held" /\ pc[e] = "live" /\ UNCHANGED home
          /\ droppedBy' = [droppedBy EXCEPT ![c] = e]
      BY <2>5 DEF DropInCall
    <3>2. c = b /\ deletedBy'[b] = e
      BY <2>5, <3>1, LiveMayUseEnv DEF DropInCall, Delete, Lose, BufTypeOK
    <3>3. droppedBy'[b] = e /\ e # None
      BY <3>1, <3>2, NoneAssumption DEF BufTypeOK
    <3> QED
      BY <3>1, <3>2, <3>3 DEF Shared
  <2> QED
    BY <2>1, <2>2, <2>3, <2>4, <2>5 DEF BufNext, Gc
<1>2. IndInv /\ [BufNext]_allVars => [Step]_allVars
  BY <1>1
<1> QED
  BY <1>2, Invariance, PTL DEF BufSpec, DeletedAtHome

-----------------------------------------------------------------------------
(* Numbers: the limits of the types                                        *)

(* The limits of the types of each width: for u8 and i8, u32 and i32, a    *)
(* double's integers, u64 and i64                                          *)
Tiny == 2^TinyBits
Small == 2^SmallBits
Safe == 2^SafeBits
Word == 2^WordBits
HalfTiny == 2^(TinyBits - 1)
HalfSmall == 2^(SmallBits - 1)
HalfWord == 2^(WordBits - 1)

(* What PowersAssumption says, for two exponents                           *)
LEMMA PowerAdds ==
    ASSUME NEW a \in 0 .. 3 * WordBits, NEW b \in 0 .. 3 * WordBits
    PROVE  /\ 2^a \in Nat /\ 2^a > 0 /\ 2^b \in Nat /\ 2^b > 0
           /\ 2^(a + b) = 2^a * 2^b
BY PowersAssumption

(* One more bit, twice as much                                             *)
LEMMA PowerDoubles ==
    ASSUME NEW a \in 1 .. 3 * WordBits
    PROVE  2^a = 2 * 2^(a - 1) /\ 2^(a - 1) \in Nat /\ 2^(a - 1) > 0
<1>0. WordBits \in Nat /\ WordBits > 1
  BY BitsAssumption
<1>1. 1 \in 0 .. 3 * WordBits /\ a - 1 \in 0 .. 3 * WordBits
  BY <1>0
<1>2. 2^(1 + (a - 1)) = 2^1 * 2^(a - 1) /\ 2^(a - 1) \in Nat /\ 2^(a - 1) > 0
  BY <1>1, PowerAdds
<1>3. 1 + (a - 1) = a
  BY <1>0
<1> QED BY <1>2, <1>3, PowersAssumption

(* More bits, at least twice as much                                       *)
LEMMA PowerGrows ==
    ASSUME NEW a \in 0 .. 3 * WordBits, NEW b \in 0 .. 3 * WordBits, a < b
    PROVE  2 * 2^a <= 2^b
<1>0. WordBits \in Nat /\ WordBits > 1
  BY BitsAssumption
<1>1. b - a \in 1 .. 3 * WordBits /\ a + (b - a) = b
  BY <1>0
<1>2. 2^(b - a) = 2 * 2^(b - a - 1) /\ 2^(b - a - 1) \in Nat
      /\ 2^(b - a - 1) > 0
  BY <1>1, PowerDoubles
<1>3. 2^b = 2^a * 2^(b - a) /\ 2^a \in Nat /\ 2^a > 0
  BY <1>1, PowerAdds
<1> DEFINE x == 2^a
           y == 2^(b - a - 1)
<1>4. x \in Nat /\ y \in Nat /\ y > 0 /\ 2^b = x * (2 * y)
  BY <1>2, <1>3
<1> HIDE DEF x, y
<1>5. x * (2 * y) >= 2 * x
  BY <1>4
<1> QED BY <1>4, <1>5 DEF x

(* How the limits of the types are to each other                           *)
LEMMA Bases ==
    /\ HalfTiny \in Nat /\ HalfTiny > 0 /\ Tiny = 2 * HalfTiny
    /\ HalfSmall \in Nat /\ HalfSmall >= Tiny /\ Small = 2 * HalfSmall
    /\ Safe \in Nat /\ Safe >= 2 * Small
    /\ HalfWord \in Nat /\ HalfWord >= 2 * Safe /\ Word = 2 * HalfWord
<1>0. /\ TinyBits \in Nat /\ SmallBits \in Nat /\ SafeBits \in Nat
      /\ WordBits \in Nat /\ 0 < TinyBits /\ TinyBits < SmallBits
      /\ SmallBits < SafeBits /\ SafeBits + 1 < WordBits
  BY BitsAssumption
<1>1. Tiny = 2 * HalfTiny /\ HalfTiny \in Nat /\ HalfTiny > 0
  BY <1>0, PowerDoubles DEF Tiny, HalfTiny
<1>2. Small = 2 * HalfSmall /\ HalfSmall \in Nat /\ HalfSmall > 0
  BY <1>0, PowerDoubles DEF Small, HalfSmall
<1>3. Word = 2 * HalfWord /\ HalfWord \in Nat /\ HalfWord > 0
  BY <1>0, PowerDoubles DEF Word, HalfWord
<1>4. Safe \in Nat
  BY <1>0, PowerAdds DEF Safe
<1>5. 2 * Tiny <= Small
  BY <1>0, PowerGrows DEF Tiny, Small
<1>6. 2 * Small <= Safe
  BY <1>0, PowerGrows DEF Safe, Small
<1>7. 2 * Safe <= HalfWord
  BY <1>0, PowerGrows DEF Safe, HalfWord
<1> QED BY <1>1, <1>2, <1>3, <1>4, <1>5, <1>6, <1>7

(* The limits of two words and of three                                    *)
LEMMA WideBases ==
    /\ 2^(2 * WordBits) = Word * Word
    /\ 2^(2 * WordBits - 1) = Word * HalfWord
    /\ 2^(2 * WordBits + 1) = 2 * (Word * Word)
    /\ 2^(3 * WordBits) = Word * (Word * Word)
<1>0. WordBits \in Nat /\ WordBits > 1
  BY BitsAssumption
<1>1. 2^(WordBits + WordBits) = Word * Word
  BY <1>0, PowerAdds DEF Word
<1>2. 2^(WordBits + (WordBits - 1)) = Word * HalfWord
  BY <1>0, PowerAdds DEF Word, HalfWord
<1>a. /\ 1 \in 0 .. 3 * WordBits /\ WordBits \in 0 .. 3 * WordBits
      /\ 2 * WordBits \in 0 .. 3 * WordBits
  BY <1>0
<1>3. 2^(1 + 2 * WordBits) = 2^1 * 2^(2 * WordBits)
  BY <1>a, PowerAdds
<1>4. 2^(WordBits + 2 * WordBits) = Word * 2^(2 * WordBits)
  BY <1>a, PowerAdds DEF Word
<1>5. /\ WordBits + WordBits = 2 * WordBits
      /\ WordBits + (WordBits - 1) = 2 * WordBits - 1
      /\ 1 + 2 * WordBits = 2 * WordBits + 1
      /\ WordBits + 2 * WordBits = 3 * WordBits
  BY <1>0
<1> QED BY <1>1, <1>2, <1>3, <1>4, <1>5, PowersAssumption

(* A double holds every integer up to the safe ones.                       *)
LEMMA SafeDouble ==
    ASSUME NEW n \in Int, Magnitude(n) <= Safe PROVE Double(n) = n
<1>0. SafeBits \in Nat /\ WordBits \in Nat /\ SafeBits + 1 < WordBits
  BY BitsAssumption
<1> DEFINE size == Magnitude(n)
           P(k) == /\ size <= 2^(SafeBits + k)
                   /\ k > 0 => size > 2^(SafeBits + k - 1)
           binade == CHOOSE k \in 0 .. 2 * WordBits : P(k)
<1>1. size \in Nat /\ size <= Safe
  BY DEF Magnitude
<1>2. P(0) /\ 0 \in 0 .. 2 * WordBits
  <2>1. SafeBits + 0 = SafeBits
    BY <1>0
  <2> QED BY <1>0, <1>1, <2>1 DEF Safe
<1>3. ASSUME NEW k \in 0 .. 2 * WordBits, P(k) PROVE k = 0
  <2> SUFFICES ASSUME k > 0 PROVE FALSE
    BY <1>0
  <2>1. 2^(SafeBits + (k - 1)) >= Safe
    <3>1. CASE k = 1
      BY <1>0, <3>1, Bases DEF Safe
    <3>2. CASE k > 1
      <4>1. /\ SafeBits + (k - 1) \in 0 .. 3 * WordBits
            /\ SafeBits \in 0 .. 3 * WordBits
            /\ SafeBits < SafeBits + (k - 1)
        BY <1>0, <3>2
      <4>2. 2 * Safe <= 2^(SafeBits + (k - 1))
        BY <4>1, PowerGrows DEF Safe
      <4>3. 2^(SafeBits + (k - 1)) \in Nat
        BY <4>1, PowerAdds
      <4> QED BY <4>2, <4>3, Bases
    <3> QED BY <3>1, <3>2
  <2>2. SafeBits + (k - 1) = SafeBits + k - 1
    BY <1>0
  <2>3. size > 2^(SafeBits + k - 1)
    BY <1>3
  <2>4. 2^(SafeBits + (k - 1)) \in Nat
    BY <1>0, PowerAdds
  <2> QED BY <1>1, <2>1, <2>2, <2>3, <2>4, Bases
<1>4. binade = 0
  BY <1>2, <1>3
<1>5. 2^binade = 1
  BY <1>4, PowersAssumption
<1>6. size \div 1 = size /\ 2 * (size % 1) = 0
  BY <1>1
<1> DEFINE below == size \div 2^binade
           rest == 2 * (size % 2^binade)
           up == rest > 2^binade \/ (rest = 2^binade /\ below % 2 = 1)
<1>7. below = size /\ rest = 0 /\ ~up
  BY <1>5, <1>6
<1>8. Double(n) = Negated(IF up THEN (below + 1) * 2^binade
                          ELSE below * 2^binade, n < 0)
  BY DEF Double
<1>9. Double(n) = Negated(size * 1, n < 0)
  BY <1>5, <1>7, <1>8
<1> QED BY <1>1, <1>9 DEF Negated, Magnitude

(* The ranges of the types of at most 32 bits                              *)
LEMMA SmallRanges ==
    /\ Unsigned(TinyBits) = 0 .. Tiny - 1
    /\ Unsigned(SmallBits) = 0 .. Small - 1
    /\ Signed(TinyBits) = -HalfTiny .. HalfTiny - 1
    /\ Signed(SmallBits) = -HalfSmall .. HalfSmall - 1
BY DEF Unsigned, Signed, Tiny, Small, HalfTiny, HalfSmall

(* The ranges of the types of one word and of two                          *)
LEMMA WordRanges ==
    /\ Unsigned(WordBits) = 0 .. Word - 1
    /\ Signed(WordBits) = -HalfWord .. HalfWord - 1
    /\ Unsigned(2 * WordBits) = 0 .. Word * Word - 1
    /\ Signed(2 * WordBits) = -(Word * HalfWord) .. Word * HalfWord - 1
    /\ BigInts = -(2 * (Word * Word)) .. 2 * (Word * Word)
BY WideBases DEF Unsigned, Signed, Word, HalfWord, BigInts

(* Reduction of what is within one turn of the base                        *)
LEMMA ModOnce ==
    ASSUME NEW m \in Nat, m > 0, NEW n \in -m .. m - 1
    PROVE  n % m = IF n < 0 THEN n + m ELSE n
OBVIOUS

(* number.rs: a number within 32 bits is refused by a type that does not   *)
(* hold it, and comes through otherwise.                                   *)
LEMMA SmallNumbers ==
    ASSUME NEW n \in Int
    PROVE  \A bits \in {TinyBits, SmallBits} :
              /\ n \in Unsigned(SmallBits) =>
                    NumberAs(bits, FALSE, NumberOf(n))
                        = InRange(n, Unsigned(bits))
              /\ n \in Signed(SmallBits) =>
                    NumberAs(bits, TRUE, NumberOf(n))
                        = InRange(n, Signed(bits))
<1> SUFFICES ASSUME NEW bits \in {TinyBits, SmallBits}
             PROVE /\ n \in Unsigned(SmallBits) =>
                         NumberAs(bits, FALSE, NumberOf(n))
                             = InRange(n, Unsigned(bits))
                   /\ n \in Signed(SmallBits) =>
                         NumberAs(bits, TRUE, NumberOf(n))
                             = InRange(n, Signed(bits))
  OBVIOUS
<1>0. Magnitude(n) <= Safe => NumberOf(n) = Number(n)
  BY SafeDouble DEF NumberOf
<1>1. Number(n)[1] = "number" /\ Number(n)[2] = n
  BY DEF Number
<1>2. ASSUME n \in Unsigned(SmallBits)
      PROVE  NumberAs(bits, FALSE, NumberOf(n)) = InRange(n, Unsigned(bits))
  <2>1. n \in 0 .. Small - 1
    BY <1>2, SmallRanges
  <2>2. Magnitude(n) <= Safe
    BY <2>1, Bases DEF Magnitude
  <2>3. n % 2^SmallBits = n
    BY <2>1, Bases, ModOnce DEF Small
  <2>4. GetUint32(Number(n)) = n
    BY <1>1, <2>3 DEF GetUint32
  <2> QED BY <1>0, <1>1, <2>2, <2>4 DEF NumberAs
<1>3. ASSUME n \in Signed(SmallBits)
      PROVE  NumberAs(bits, TRUE, NumberOf(n)) = InRange(n, Signed(bits))
  <2>1. n \in -HalfSmall .. HalfSmall - 1
    BY <1>3, SmallRanges
  <2>2. Magnitude(n) <= Safe
    BY <2>1, Bases DEF Magnitude
  <2>3. n % Small = IF n < 0 THEN n + Small ELSE n
    BY <2>1, Bases, ModOnce
  <2>4. AsSigned(n, SmallBits) = IF n % Small < HalfSmall THEN n % Small
                                 ELSE (n % Small) - Small
    BY DEF AsSigned, Small, HalfSmall
  <2>5. AsSigned(n, SmallBits) = n
    BY <2>1, <2>3, <2>4, Bases
  <2>6. GetInt32(Number(n)) = n
    BY <1>1, <2>5 DEF GetInt32
  <2> QED BY <1>0, <1>1, <2>2, <2>6 DEF NumberAs
<1> QED BY <1>2, <1>3

-----------------------------------------------------------------------------
(* Words                                                                   *)

(* A natural number as one, two or three words, up to the largest of       *)
(* BigInts                                                                 *)
OneWord(words, n) == Len(words) = 1 /\ words[1] = n /\ n \in 0 .. Word - 1

TwoWords(words, n) ==
    /\ Len(words) = 2
    /\ words[1] \in 0 .. Word - 1 /\ words[2] \in 1 .. Word - 1
    /\ n = words[1] + Word * words[2]

ThreeWords(words, n) ==
    /\ Len(words) = 3
    /\ words[1] \in 0 .. Word - 1 /\ words[2] \in 0 .. Word - 1
    /\ words[3] \in 1 .. 2
    /\ n = words[1] + Word * (words[2] + Word * words[3])

(* A quotient and its remainder                                            *)
LEMMA Divides ==
    ASSUME NEW n \in Nat, NEW b \in Nat, b > 0
    PROVE  /\ n = (n % b) + b * (n \div b)
           /\ n % b \in 0 .. b - 1 /\ n \div b \in Nat
<1>1. n % b = n - b * (n \div b)
  OBVIOUS
<1>2. n % b \in 0 .. b - 1 /\ n \div b \in Nat
  OBVIOUS
<1> QED BY <1>1, <1>2

(* To divide by a square is to divide twice.                               *)
LEMMA DividesTwice ==
    ASSUME NEW n \in Nat, NEW b \in Nat, b > 0
    PROVE  n \div (b * b) = (n \div b) \div b
<1> DEFINE q == n \div b
           p == q \div b
           r == n % b
           s == q % b
<1>1. n = r + b * q /\ r \in 0 .. b - 1 /\ q \in Nat
  BY Divides
<1>2. q = s + b * p /\ s \in 0 .. b - 1 /\ p \in Nat
  BY <1>1, Divides
<1> HIDE DEF p, q, r, s
<1>3. n = (b * b) * p + (r + b * s)
  BY <1>1, <1>2
<1>4. b * b \in Nat /\ b * b > 0
  OBVIOUS
<1>5. b * s <= b * b - b /\ b * s \in Nat
  BY <1>2
<1>6. r + b * s \in 0 .. b * b - 1
  BY <1>1, <1>4, <1>5
<1>7. ASSUME NEW c \in Nat, c > 0, NEW t \in 0 .. c - 1, n = c * p + t
      PROVE  n \div c = p
  BY <1>2, <1>7
<1>8. n \div (b * b) = p
  BY <1>3, <1>4, <1>6, <1>7
<1> QED BY <1>8 DEF p, q

(* The words that N-API gives of an integer up to three words stand for it.*)
LEMMA WordsAre ==
    ASSUME NEW n \in Nat, n <= 2 * (Word * Word)
    PROVE  /\ WordsOf(n) \in Seq(Nat)
           /\ \/ OneWord(WordsOf(n), n)
              \/ TwoWords(WordsOf(n), n)
              \/ ThreeWords(WordsOf(n), n)
<1>0. Word \in Nat /\ Word > 2 /\ WordBits \in Nat
  BY Bases, BitsAssumption
<1> DEFINE P(k) == /\ n < 2^(k * WordBits)
                   /\ k > 1 => n >= 2^((k - 1) * WordBits)
           len == CHOOSE k \in 1 .. 4 : P(k)
           part(i) == (n \div 2^((i - 1) * WordBits)) % Word
<1>1. /\ 2^(1 * WordBits) = Word /\ 2^(2 * WordBits) = Word * Word
      /\ 2^(3 * WordBits) = Word * (Word * Word)
      /\ 2^(0 * WordBits) = 1
  <2>1. 1 * WordBits = WordBits /\ 0 * WordBits = 0
    BY <1>0
  <2> QED BY <2>1, WideBases, PowersAssumption DEF Word
<1>2. /\ P(1) <=> n < Word
      /\ P(2) <=> n < Word * Word /\ n >= Word
      /\ P(3) <=> n < Word * (Word * Word) /\ n >= Word * Word
      /\ P(4) => n >= Word * (Word * Word)
  BY <1>1
<1>3. /\ Word * Word \in Nat /\ Word * (Word * Word) \in Nat
      /\ Word * Word > Word
      /\ 2 * (Word * Word) < Word * (Word * Word)
  <2>1. Word * Word \in Nat /\ Word * Word > Word
    BY <1>0
  <2>2. ASSUME NEW x \in Nat, x > 0
        PROVE  2 * x < Word * x /\ Word * x \in Nat
    BY <1>0, <2>2
  <2> QED BY <1>0, <2>1, <2>2
<1>4. /\ n < Word => len = 1
      /\ n >= Word /\ n < Word * Word => len = 2
      /\ n >= Word * Word => len = 3
  <2> HIDE DEF P
  <2>1. n < Word * (Word * Word)
    BY <1>3
  <2>2. CASE n < Word
    <3>1. \A k \in 1 .. 4 : P(k) <=> k = 1
      BY <1>0, <1>2, <1>3, <2>1, <2>2
    <3> QED BY <1>0, <1>3, <2>2, <3>1
  <2>3. CASE n >= Word /\ n < Word * Word
    <3>1. \A k \in 1 .. 4 : P(k) <=> k = 2
      BY <1>0, <1>2, <1>3, <2>1, <2>3
    <3> QED BY <1>0, <1>3, <2>3, <3>1
  <2>4. CASE n >= Word * Word
    <3>1. \A k \in 1 .. 4 : P(k) <=> k = 3
      BY <1>0, <1>2, <1>3, <2>1, <2>4
    <3> QED BY <1>0, <1>3, <2>4, <3>1
  <2> QED BY <1>0, <1>3, <2>2, <2>3, <2>4
<1>5. WordsOf(n) = [i \in 1 .. len |-> part(i)]
  BY DEF WordsOf, Word
<1> HIDE DEF len, P
<1>6. /\ part(1) = n % Word /\ part(2) = (n \div Word) % Word
      /\ part(3) = ((n \div Word) \div Word) % Word
  <2>1. n \div 1 = n
    OBVIOUS
  <2>2. n \div (Word * Word) = (n \div Word) \div Word
    BY <1>0, DividesTwice
  <2> QED BY <1>1, <2>1, <2>2
<1> DEFINE q == n \div Word
           p == q \div Word
<1>7. /\ n = (n % Word) + Word * q /\ n % Word \in 0 .. Word - 1 /\ q \in Nat
  BY <1>0, Divides
<1>8. q = (q % Word) + Word * p /\ q % Word \in 0 .. Word - 1 /\ p \in Nat
  BY <1>0, <1>7, Divides
<1> HIDE DEF part, q, p
<1> DEFINE w == WordsOf(n)
<1>9. /\ n < Word => n % Word = n
      /\ n >= Word => q >= 1
      /\ n < Word * Word => q < Word
      /\ n >= Word * Word => q >= Word
  <2>1. ASSUME q >= Word PROVE Word * q >= Word * Word
    BY <1>0, <1>7, <2>1
  <2>2. ASSUME q < Word PROVE Word * q <= Word * Word - Word
    <3>1. q <= Word - 1
      BY <1>0, <1>7, <2>2
    <3> QED BY <1>0, <1>7, <3>1
  <2>3. Word * q \in Nat
    BY <1>0, <1>7
  <2>4. n < Word => n % Word = n
    BY <1>0
  <2>5. n >= Word => q >= 1
    BY <1>0, <1>7
  <2> QED BY <1>0, <1>3, <1>7, <2>1, <2>2, <2>3, <2>4, <2>5
<1>10. /\ q < Word => q % Word = q
       /\ q >= Word => p >= 1
       /\ p <= 2
  <2>1. q < Word => q % Word = q
    BY <1>0, <1>7
  <2>2. q >= Word => p >= 1
    BY <1>0, <1>7, <1>8
  <2>3. ASSUME p >= 3 PROVE FALSE
    <3>1. Word * p >= 3 * Word /\ Word * p \in Nat
      BY <1>0, <1>8, <2>3
    <3>2. q >= 3 * Word
      BY <1>0, <1>7, <1>8, <3>1
    <3>3. Word * q >= 3 * (Word * Word) /\ Word * q \in Nat
      BY <1>0, <1>7, <3>2
    <3> QED BY <1>0, <1>3, <1>7, <3>3
  <2> QED BY <1>8, <2>1, <2>2, <2>3
<1>11. ASSUME NEW k \in 1 .. 3, len = k, \A i \in 1 .. k : part(i) \in Nat
       PROVE  w \in Seq(Nat) /\ Len(w) = k /\ \A i \in 1 .. k : w[i] = part(i)
  <2>1. w = [i \in 1 .. k |-> part(i)]
    BY <1>5, <1>11
  <2> HIDE DEF w
  <2>2. w \in [1 .. k -> Nat] /\ DOMAIN w = 1 .. k
    BY <1>11, <2>1
  <2>3. w \in Seq(Nat)
    BY <2>2
  <2> QED BY <2>1, <2>2, <2>3, LenProperties
<1>12. /\ part(1) \in Nat /\ part(2) \in Nat
       /\ p < Word => part(3) = p
  BY <1>0, <1>6, <1>7, <1>8 DEF p, q
<1>13. CASE n < Word
  <2>1. w \in Seq(Nat) /\ Len(w) = 1 /\ w[1] = part(1)
    BY <1>4, <1>11, <1>12, <1>13
  <2> QED BY <1>0, <1>6, <1>9, <1>13, <2>1 DEF OneWord
<1>14. CASE n >= Word /\ n < Word * Word
  <2>1. w \in Seq(Nat) /\ Len(w) = 2 /\ w[1] = part(1) /\ w[2] = part(2)
    BY <1>4, <1>11, <1>12, <1>14
  <2>2. w[1] = n % Word /\ w[2] = q
    BY <1>6, <1>9, <1>10, <1>14, <2>1 DEF q
  <2> QED BY <1>0, <1>7, <1>9, <1>14, <2>1, <2>2 DEF TwoWords
<1>15. CASE n >= Word * Word
  <2>1. p \in 1 .. 2 /\ part(3) = p
    BY <1>0, <1>8, <1>9, <1>10, <1>12, <1>15
  <2>2. /\ w \in Seq(Nat) /\ Len(w) = 3 /\ w[1] = part(1) /\ w[2] = part(2)
        /\ w[3] = part(3)
    BY <1>4, <1>11, <1>12, <1>15, <2>1
  <2>3. w[1] = n % Word /\ w[2] = q % Word /\ w[3] = p
    BY <1>6, <2>1, <2>2 DEF q
  <2> QED BY <1>7, <1>8, <2>1, <2>2, <2>3 DEF ThreeWords
<1> QED BY <1>0, <1>3, <1>13, <1>14, <1>15

(* What words stand for                                                    *)
Stands(words, n) ==
    /\ words \in Seq(Nat)
    /\ OneWord(words, n) \/ TwoWords(words, n) \/ ThreeWords(words, n)
    /\ n \in Nat

(* The integer that N-API makes of one, two or three words                 *)
LEMMA ValueOfWords ==
    ASSUME NEW sign \in BOOLEAN, NEW words \in Seq(Nat), Len(words) \in 1 .. 3,
           NEW n \in Nat,
           Len(words) = 1 => n = words[1],
           Len(words) = 2 => n = words[1] + Word * words[2],
           Len(words) = 3 =>
               n = words[1] + Word * (words[2] + Word * words[3])
    PROVE  BigIntToJs([sign |-> sign, words |-> words])
               = BigInt(Negated(n, sign))
<1>0. Word \in Nat
  BY Bases
<1> DEFINE len == Len(words)
           D == 1 .. len + 1
           F(f) == [i \in D |-> IF i > len THEN 0
                                ELSE words[i] + Word * f[i + 1]]
           g == [i \in D |->
                   IF i > len THEN 0
                   ELSE IF i = len THEN words[i]
                   ELSE IF i = len - 1 THEN words[i] + Word * words[i + 1]
                   ELSE words[i] + Word * (words[i + 1] + Word * words[i + 2])]
           from == CHOOSE f : f = F(f)
<1>1. g = F(g)
  <2> SUFFICES ASSUME NEW i \in D PROVE g[i] = F(g)[i]
    OBVIOUS
  <2>1. CASE i > len
    BY <2>1
  <2>2. CASE i = len
    <3>1. g[i + 1] = 0 /\ words[i] \in Nat
      BY <2>2
    <3> QED BY <1>0, <2>2, <3>1
  <2>3. CASE i = len - 1
    <3>1. g[i + 1] = words[i + 1]
      BY <2>3
    <3> QED BY <1>0, <2>3, <3>1
  <2>4. CASE i = len - 2
    <3>1. g[i + 1] = words[i + 1] + Word * words[i + 2]
      BY <2>4
    <3> QED BY <1>0, <2>4, <3>1
  <2>5. i > len \/ i = len \/ i = len - 1 \/ i = len - 2
    <3>1. i \in 1 .. len + 1 /\ len \in 1 .. 3
      OBVIOUS
    <3> HIDE DEF len
    <3> QED BY <3>1
  <2> QED BY <2>1, <2>2, <2>3, <2>4, <2>5
<1>2. from = F(from)
  BY <1>1
<1> HIDE DEF from
<1>3. from[len + 1] = 0 /\ \A i \in 1 .. len :
                               from[i] = words[i] + Word * from[i + 1]
  <2>1. len \in Nat
    OBVIOUS
  <2> HIDE DEF len
  <2>2. \A i \in D : F(from)[i] = IF i > len THEN 0
                                  ELSE words[i] + Word * from[i + 1]
    OBVIOUS
  <2>3. \A i \in D : from[i] = IF i > len THEN 0
                               ELSE words[i] + Word * from[i + 1]
    BY <1>2, <2>2
  <2> QED BY <2>1, <2>3
<1>4. from[1] = n
  <2>0. \A i \in 1 .. len : words[i] \in Nat
    OBVIOUS
  <2> HIDE DEF len, F, g
  <2>1. CASE len = 1
    <3>1. from[1] = words[1] + Word * 0
      BY <1>3, <2>1
    <3> QED BY <1>0, <2>0, <2>1, <3>1 DEF len
  <2>2. CASE len = 2
    <3>1. from[2] = words[2] + Word * 0
      BY <1>3, <2>2
    <3>2. from[2] = words[2]
      BY <1>0, <2>0, <2>2, <3>1
    <3>3. from[1] = words[1] + Word * from[2]
      BY <1>3, <2>2
    <3> QED BY <2>2, <3>2, <3>3 DEF len
  <2>3. CASE len = 3
    <3>1. from[3] = words[3] + Word * 0
      BY <1>3, <2>3
    <3>2. from[3] = words[3]
      BY <1>0, <2>0, <2>3, <3>1
    <3>3. /\ from[2] = words[2] + Word * from[3]
          /\ from[1] = words[1] + Word * from[2]
      BY <1>3, <2>3
    <3> QED BY <2>3, <3>2, <3>3 DEF len
  <2> QED BY <2>1, <2>2, <2>3 DEF len
<1>5. BigIntToJs([sign |-> sign, words |-> words])
          = BigInt(Negated(from[1], sign))
  BY DEF BigIntToJs, from, Word
<1> QED BY <1>4, <1>5

-----------------------------------------------------------------------------
(* The accessors of a BigInt                                               *)

(* A BigInt that stands for an integer                                     *)
BigOf(big, n) ==
    /\ n \in Int /\ big.sign = (n < 0)
    /\ big = [sign |-> big.sign, words |-> big.words]
    /\ Stands(big.words, Magnitude(n))

(* What from_napi_value reads of a BigInt stands for it.                   *)
LEMMA BigIs ==
    ASSUME NEW n \in BigInts PROVE BigOf(BigIntFromJs(BigInt(n)), n)
<1>1. n \in Int /\ Magnitude(n) \in Nat /\ Magnitude(n) <= 2 * (Word * Word)
  <2>1. Word * Word \in Nat
    BY Bases
  <2> QED BY <2>1, WordRanges DEF Magnitude
<1>2. Stands(WordsOf(Magnitude(n)), Magnitude(n))
  BY <1>1, WordsAre DEF Stands
<1>3. BigIntFromJs(BigInt(n)) =
          [sign |-> n < 0, words |-> WordsOf(Magnitude(n))]
  BY DEF BigIntFromJs, BigInt
<1> QED BY <1>1, <1>2, <1>3 DEF BigOf

(* How far two words go                                                    *)
LEMMA TwoWordsAre ==
    ASSUME NEW lo \in 0 .. Word - 1, NEW hi \in 0 .. Word - 1
    PROVE  /\ lo + Word * hi \in 0 .. Word * Word - 1
           /\ hi > 0 => lo + Word * hi >= Word
           /\ lo + Word * hi < Word * HalfWord <=> hi < HalfWord
<1>0. Word \in Nat /\ HalfWord \in Nat /\ Word > 0
  BY Bases
<1>1. Word * hi \in Nat /\ Word * hi <= Word * Word - Word
  <2>1. hi <= Word - 1
    BY <1>0
  <2> QED BY <1>0, <2>1
<1>2. hi > 0 => Word * hi >= Word
  BY <1>0
<1>3. hi < HalfWord => Word * hi <= Word * HalfWord - Word
  <2> SUFFICES ASSUME hi <= HalfWord - 1
               PROVE  Word * hi <= Word * HalfWord - Word
    BY <1>0
  <2> QED BY <1>0
<1>4. hi >= HalfWord => Word * hi >= Word * HalfWord
  BY <1>0
<1>5. Word * HalfWord \in Nat /\ Word * Word \in Nat
  BY <1>0
<1> QED BY <1>0, <1>1, <1>2, <1>3, <1>4, <1>5

(* How many words an integer has says how large it is.                     *)
LEMMA Sizes ==
    ASSUME NEW words, NEW n, Stands(words, n)
    PROVE  /\ Len(words) \in 1 .. 3 /\ n \in Nat
           /\ words[1] \in 0 .. Word - 1
           /\ Len(words) = 1 <=> n < Word
           /\ Len(words) = 3 <=> n >= Word * Word
           /\ Len(words) = 1 => words[1] = n
           /\ Len(words) > 1 => words[2] \in 0 .. Word - 1
           /\ Len(words) = 2 => LowWords([words |-> words]) = n
<1>0. Word \in Nat /\ Word > 0 /\ Word * Word \in Nat /\ Word <= Word * Word
  BY Bases
<1>1. CASE OneWord(words, n)
  BY <1>0, <1>1 DEF OneWord, Stands
<1>2. CASE TwoWords(words, n)
  <2>1. n \in 0 .. Word * Word - 1 /\ n >= Word
    BY <1>2, TwoWordsAre DEF TwoWords
  <2> QED BY <1>0, <1>2, <2>1 DEF TwoWords, LowWords, Word
<1>3. CASE ThreeWords(words, n)
  <2> DEFINE top == words[2] + Word * words[3]
  <2>1. Word * words[3] >= Word /\ Word * words[3] \in Nat
    BY <1>0, <1>3 DEF ThreeWords
  <2>2. top \in Nat /\ top >= Word
    BY <1>0, <1>3, <2>1 DEF ThreeWords
  <2>3. n = words[1] + Word * top
    BY <1>3 DEF ThreeWords
  <2> HIDE DEF top
  <2>4. Word * top >= Word * Word /\ Word * top \in Nat
    BY <1>0, <2>2
  <2>5. n >= Word * Word /\ n \in Nat
    BY <1>0, <1>3, <2>3, <2>4 DEF ThreeWords
  <2> QED BY <1>0, <1>3, <2>5 DEF ThreeWords
<1> QED BY <1>1, <1>2, <1>3 DEF Stands

(* "as i64" of a word                                                      *)
LEMMA SignedWord ==
    ASSUME NEW w \in 0 .. Word - 1
    PROVE  AsSigned(w, WordBits) = IF w < HalfWord THEN w ELSE w - Word
<1>1. w % Word = w
  BY Bases, ModOnce
<1> QED BY <1>1 DEF AsSigned, Word, HalfWord

(* "as i128" of two words                                                  *)
LEMMA SignedWords ==
    ASSUME NEW v \in 0 .. Word * Word - 1
    PROVE  AsSigned(v, 2 * WordBits) = IF v < Word * HalfWord THEN v
                                       ELSE v - Word * Word
<1>1. Word * Word \in Nat /\ Word * Word > 0
  BY Bases
<1>2. v % (Word * Word) = v
  BY <1>1, ModOnce
<1> QED BY <1>2, WideBases DEF AsSigned

(* The least i128 is more than a word from 0.                              *)
LEMMA WideHalf ==
    /\ Word * HalfWord \in Nat /\ Word * HalfWord >= Word
    /\ Word * Word = 2 * (Word * HalfWord)
BY Bases

(* The ranges of u64 and i64, by their limits                              *)
LEMMA WordRange ==
    ASSUME NEW n \in Int
    PROVE  /\ n \in Unsigned(WordBits) <=> n >= 0 /\ n < Word
           /\ n \in Signed(WordBits) <=> n >= -HalfWord /\ n < HalfWord
<1>1. Word \in Nat /\ HalfWord \in Nat
  BY Bases
<1> QED BY <1>1 DEF Unsigned, Signed, Word, HalfWord

(* The ranges of u128 and i128, by their limits                            *)
LEMMA WideRange ==
    ASSUME NEW n \in Int
    PROVE  /\ n \in Unsigned(2 * WordBits) <=> n >= 0 /\ n < Word * Word
           /\ n \in Signed(2 * WordBits) <=>
                 n >= -(Word * HalfWord) /\ n < Word * HalfWord
<1>1. Word * Word \in Nat /\ Word * HalfWord \in Nat
  BY Bases
<1> QED BY <1>1, WideBases DEF Unsigned, Signed

(* What the accessors see of a BigInt, by the integer that it is           *)
LEMMA BigFacts ==
    ASSUME NEW n, NEW big, BigOf(big, n)
    PROVE  /\ n \in Int
           /\ big.sign <=> n < 0
           /\ Len(big.words) \in 1 .. 3
           /\ big.words[1] \in 0 .. Word - 1
           /\ Magnitude(n) = (IF n < 0 THEN -n ELSE n)
           /\ Len(big.words) = 1 <=> Magnitude(n) < Word
           /\ Len(big.words) = 3 <=> Magnitude(n) >= Word * Word
           /\ Len(big.words) = 1 => big.words[1] = Magnitude(n)
           /\ Len(big.words) > 1 => big.words[2] \in 0 .. Word - 1
           /\ Len(big.words) = 2 => LowWords(big) = Magnitude(n)
<1>1. Stands(big.words, Magnitude(n)) /\ n \in Int /\ big.sign = (n < 0)
  BY DEF BigOf
<1>2. LowWords([words |-> big.words]) = LowWords(big)
  BY DEF LowWords
<1>3. Magnitude(n) = (IF n < 0 THEN -n ELSE n)
  BY DEF Magnitude
<1> QED BY <1>1, <1>2, <1>3, Sizes

(* get_u64 is lossless for what u64 holds, and then right.                 *)
LEMMA HonestU64 ==
    ASSUME NEW n, NEW big, BigOf(big, n)
    PROVE  /\ GetU64(big).lossless <=> n \in Unsigned(WordBits)
           /\ n \in Unsigned(WordBits) => GetU64(big).value = n
<1> DEFINE w == big.words[1]
           len == Len(big.words)
           m == Magnitude(n)
           U == n \in Unsigned(WordBits)
           L == GetU64(big).lossless
           V == GetU64(big).value
           S == big.sign
<1>1. /\ n \in Int /\ (S <=> n < 0)
      /\ w \in 0 .. Word - 1 /\ m = (IF n < 0 THEN -n ELSE n)
      /\ len = 1 <=> m < Word
      /\ len = 1 => w = m
  BY BigFacts
<1>2. V = w
  BY DEF GetU64
<1>a. L <=> ~S /\ len = 1
  BY DEF GetU64
<1>3. U <=> n >= 0 /\ n < Word
  BY <1>1, WordRange
<1>4. Word \in Nat
  BY Bases
<1> HIDE DEF w, len, m, L, V, U, S
<1>5. U <=> ~(n < 0) /\ len = 1
  BY <1>1, <1>3, <1>4
<1>6. L <=> U
  BY <1>1, <1>a, <1>5
<1>7. U => V = n
  BY <1>1, <1>2, <1>3, <1>4, <1>5
<1> QED BY <1>6, <1>7 DEF L, U, V

(* get_i64 is lossless for what i64 holds, and then right.                 *)
LEMMA HonestI64 ==
    ASSUME NEW n, NEW big, BigOf(big, n)
    PROVE  /\ GetI64(big).lossless <=> n \in Signed(WordBits)
           /\ n \in Signed(WordBits) => GetI64(big).value = n
<1> DEFINE w == big.words[1]
           len == Len(big.words)
           m == Magnitude(n)
           low == AsSigned(w, WordBits)
           I == n \in Signed(WordBits)
           L == GetI64(big).lossless
           V == GetI64(big).value
           S == big.sign
<1>1. /\ n \in Int
      /\ S <=> n < 0
      /\ w \in 0 .. Word - 1 /\ m = (IF n < 0 THEN -n ELSE n)
      /\ len = 1 <=> m < Word
      /\ len = 1 => w = m
  BY BigFacts
<1>2. low = IF w < HalfWord THEN w ELSE w - Word
  BY <1>1, SignedWord
<1>3. I <=> n >= -HalfWord /\ n < HalfWord
  BY <1>1, WordRange
<1>4. Word \in Nat /\ HalfWord \in Nat /\ Word = 2 * HalfWord /\ HalfWord > 0
  BY Bases
<1>5. CASE S /\ w = HalfWord
  <2>1. V = -w
    BY <1>5 DEF GetI64, HalfWord
  <2>2. L <=> len = 1
    BY <1>5 DEF GetI64, HalfWord
  <2> HIDE DEF w, len, m, low, I, L, V, S
  <2>3. I <=> len = 1
    BY <1>1, <1>3, <1>4, <1>5
  <2>4. I => V = n
    BY <1>1, <1>4, <1>5, <2>1, <2>3
  <2>5. L <=> I
    BY <2>2, <2>3
  <2> QED BY <2>4, <2>5 DEF I, L, V
<1>6. CASE ~(S /\ w = HalfWord)
  <2>1. V = IF S THEN -low ELSE low
    BY <1>6 DEF GetI64, HalfWord, Negated
  <2>2. L <=> len = 1 /\ low >= 0
    BY <1>6 DEF GetI64, HalfWord
  <2> HIDE DEF w, len, m, low, I, L, V, S
  <2>3. I <=> len = 1 /\ low >= 0
    BY <1>1, <1>2, <1>3, <1>4, <1>6
  <2>4. I => V = n
    BY <1>1, <1>2, <1>4, <2>1, <2>3
  <2>5. L <=> I
    BY <2>2, <2>3
  <2> QED BY <2>4, <2>5 DEF I, L, V
<1> QED BY <1>5, <1>6

(* get_u128 is lossless for the sizes that u128 holds, and then right.     *)
LEMMA HonestU128 ==
    ASSUME NEW n, NEW big, BigOf(big, n)
    PROVE  /\ GetU128(big).lossless <=> Magnitude(n) \in Unsigned(2 * WordBits)
           /\ GetU128(big).signed <=> n < 0
           /\ GetU128(big).lossless => GetU128(big).value = Magnitude(n)
<1> DEFINE len == Len(big.words)
           m == Magnitude(n)
           x == Word * Word
           w == big.words[1]
           v == LowWords(big)
           I == m \in Unsigned(2 * WordBits)
           L == GetU128(big).lossless
           V == GetU128(big).value
           S == big.sign
<1>1. /\ n \in Int /\ len \in 1 .. 3
      /\ S <=> n < 0
      /\ m = (IF n < 0 THEN -n ELSE n)
      /\ len = 3 <=> m >= x
      /\ len = 1 => w = m
      /\ len = 2 => v = m
  BY BigFacts
<1>2. V = IF len = 1 THEN w ELSE v
  BY DEF GetU128
<1>3. (L <=> len <= 2) /\ (GetU128(big).signed <=> S)
  BY DEF GetU128
<1>4. m \in Int /\ x \in Nat
  BY <1>1, Bases
<1>5. I <=> m >= 0 /\ m < x
  BY <1>4, WideRange
<1> HIDE DEF len, m, x, w, v, I, L, V, S
<1>6. I <=> len <= 2
  BY <1>1, <1>4, <1>5
<1>7. len <= 2 => V = m
  BY <1>1, <1>2
<1>8. (L <=> I) /\ (L => V = m)
  BY <1>3, <1>6, <1>7
<1>9. GetU128(big).signed <=> n < 0
  BY <1>1, <1>3
<1> QED BY <1>8, <1>9 DEF I, L, V, m

(* get_i128, and that of JsBigInt, are right for what i128 holds, and but  *)
(* for a BigInt whose low words are those of i128::MIN get_i128 is lossless*)
(* for what i128 holds.                                                    *)
LEMMA HonestI128 ==
    ASSUME NEW n, NEW big, BigOf(big, n)
    PROVE  /\ ~LooksLowest(big) =>
                 (GetI128(big).lossless <=> n \in Signed(2 * WordBits))
           /\ n \in Signed(2 * WordBits) =>
                 GetI128(big).value = n /\ JsBigIntI128(big).value = n
<1> DEFINE len == Len(big.words)
           m == Magnitude(n)
           x == Word * Word
           h == Word * HalfWord
           w == big.words[1]
           top == big.words[2]
           v == LowWords(big)
           low == AsSigned(v, 2 * WordBits)
           hi == AsSigned(top, WordBits)
           I == n \in Signed(2 * WordBits)
           L == GetI128(big).lossless
           V == GetI128(big).value
           J == JsBigIntI128(big).value
           S == big.sign
           K == LooksLowest(big)
<1>1. /\ n \in Int /\ len \in 1 .. 3
      /\ S <=> n < 0
      /\ m = (IF n < 0 THEN -n ELSE n)
      /\ w \in 0 .. Word - 1
      /\ len = 1 <=> m < Word
      /\ len = 3 <=> m >= x
      /\ len = 1 => w = m
      /\ len > 1 => top \in 0 .. Word - 1
      /\ len = 2 => v = m
  BY BigFacts
<1>2. /\ h \in Nat /\ h >= Word /\ x = 2 * h /\ x \in Nat
      /\ Word \in Nat /\ Word > 0 /\ HalfWord \in Nat /\ Word = 2 * HalfWord
  BY WideHalf, Bases
<1>3. I <=> n >= -h /\ n < h
  BY <1>1, WideRange
<1>4. 2^(2 * WordBits - 1) = h
  BY WideBases
<1>5. len > 1 => /\ v \in 0 .. x - 1
                 /\ v < h <=> top < HalfWord
                 /\ low = IF v < h THEN v ELSE v - x
                 /\ hi = IF top < HalfWord THEN top ELSE top - Word
  <2> SUFFICES ASSUME len > 1 PROVE
                 /\ v \in 0 .. x - 1
                 /\ v < h <=> top < HalfWord
                 /\ low = IF v < h THEN v ELSE v - x
                 /\ hi = IF top < HalfWord THEN top ELSE top - Word
    OBVIOUS
  <2>1. v = w + Word * top
    BY DEF LowWords, Word
  <2>2. v \in 0 .. x - 1 /\ (v < h <=> top < HalfWord)
    BY <1>1, <2>1, TwoWordsAre
  <2>3. low = IF v < h THEN v ELSE v - x
    BY <2>2, SignedWords
  <2>4. hi = IF top < HalfWord THEN top ELSE top - Word
    BY <1>1, SignedWord
  <2> QED BY <2>2, <2>3, <2>4
<1>6. K <=> S /\ len > 1 /\ v = h
  BY <1>4 DEF LooksLowest
<1>7. GetI128(big) =
          IF len = 1 THEN [value |-> Negated(w, S), lossless |-> TRUE]
          ELSE IF S /\ v = h THEN [value |-> -h, lossless |-> len > 2]
          ELSE [value |-> Negated(low, S), lossless |-> len = 2 /\ hi >= 0]
  BY <1>4 DEF GetI128
<1>8. JsBigIntI128(big).value =
          LET val == IF len = 1 THEN AsSigned(w, 2 * WordBits) ELSE low
          IN IF S /\ val = -h THEN val ELSE Negated(val, S)
  BY <1>4 DEF JsBigIntI128
<1>b. (len = 1 \/ len > 1) /\ (len > 1 => len # 1)
  <2> HIDE DEF len
  <2> QED BY <1>1
<1>9. CASE len = 1
  <2>1. V = IF S THEN -w ELSE w
    BY <1>7, <1>9 DEF Negated
  <2>2. L
    BY <1>7, <1>9
  <2>3. AsSigned(w, 2 * WordBits) = w
    <3>1. w \in 0 .. x - 1 /\ w < h
      <4> HIDE DEF w, x, h
      <4> QED BY <1>1, <1>2
    <3> QED BY <3>1, SignedWords
  <2>4. J = IF S /\ w = -h THEN w ELSE IF S THEN -w ELSE w
    BY <1>8, <1>9, <2>3 DEF Negated
  <2> HIDE DEF w, x, h, len, m, I, L, V, J, S, K
  <2>5. I /\ V = n /\ J = n
    BY <1>1, <1>2, <1>3, <1>9, <2>1, <2>4
  <2> QED BY <2>2, <2>5 DEF I, L, V, J
<1>10. CASE len > 1 /\ S /\ v = h
  <2> HIDE DEF len, h, v, low, S, w
  <2>1. V = -h
    BY <1>7, <1>10, <1>b
  <2> HIDE DEF V
  <2>2. low = -h
    <3> HIDE DEF len, v, h, low, x
    <3> QED BY <1>2, <1>5, <1>10
  <2>3. J = -h
    BY <1>8, <1>10, <1>b, <2>2
  <2> HIDE DEF w, x, h, len, m, I, L, J, S, K, v, low, hi, top
  <2>4. I => len = 2
    BY <1>1, <1>2, <1>3, <1>10
  <2>5. I => n = -h
    BY <1>1, <1>10, <2>4
  <2>6. K
    BY <1>6, <1>10
  <2> QED BY <2>1, <2>3, <2>5, <2>6 DEF I, L, V, J, K
<1>11. CASE len > 1 /\ ~(S /\ v = h)
  <2> HIDE DEF len, h, v, low, S, w, hi
  <2>1. V = IF S THEN -low ELSE low
    BY <1>7, <1>11, <1>b DEF Negated
  <2>2. L <=> len = 2 /\ hi >= 0
    <3> DEFINE P == len = 2 /\ hi >= 0
               N == Negated(low, S)
    <3>1. ~(S /\ v = h) /\ len # 1
      BY <1>11, <1>b
    <3>2. GetI128(big) = [value |-> N, lossless |-> P]
      BY <1>7, <3>1
    <3> HIDE DEF P, N
    <3>3. L = P
      BY <3>2
    <3> QED BY <3>3 DEF P
  <2>3. J = IF S /\ low = -h THEN low ELSE IF S THEN -low ELSE low
    BY <1>8, <1>11, <1>b DEF Negated
  <2> HIDE DEF w, x, h, len, m, I, L, V, J, S, K, v, low, hi, top
  <2>4. I => len = 2
    BY <1>1, <1>2, <1>3, <1>11
  <2>5. len = 2 => (I <=> v < h)
    BY <1>1, <1>2, <1>3, <1>11
  <2>6. v < h => low = v /\ v >= 0
    BY <1>2, <1>5, <1>11
  <2>7. hi >= 0 <=> v < h
    BY <1>1, <1>2, <1>5, <1>11
  <2>8. L <=> I
    BY <2>2, <2>4, <2>5, <2>7
  <2>9. I => V = n /\ J = n
    BY <1>1, <1>2, <2>1, <2>3, <2>4, <2>5, <2>6
  <2> QED BY <2>8, <2>9 DEF I, L, V, J
<1> QED BY <1>9, <1>10, <1>11, <1>b

(* A BigInt goes as it came                                                *)
LEMMA BigIntGoes ==
    ASSUME NEW n, NEW big, BigOf(big, n) PROVE BigIntToJs(big) = BigInt(n)
<1> DEFINE words == big.words
           sign == big.sign
           m == Magnitude(n)
<1>1. /\ n \in Int /\ sign \in BOOLEAN
      /\ big = [sign |-> sign, words |-> words]
      /\ words \in Seq(Nat) /\ m \in Nat
      /\ OneWord(words, m) \/ TwoWords(words, m) \/ ThreeWords(words, m)
  BY DEF BigOf, Stands
<1>2. Negated(m, sign) = n
  <2>1. (sign <=> n < 0) /\ m = (IF n < 0 THEN -n ELSE n)
    BY BigFacts
  <2> HIDE DEF sign, m
  <2> QED BY <1>1, <2>1 DEF Negated
<1> HIDE DEF words, sign, m
<1>3. /\ Len(words) \in 1 .. 3
      /\ Len(words) = 1 => m = words[1]
      /\ Len(words) = 2 => m = words[1] + Word * words[2]
      /\ Len(words) = 3 =>
            m = words[1] + Word * (words[2] + Word * words[3])
  BY <1>1 DEF OneWord, TwoWords, ThreeWords
<1>4. BigIntToJs([sign |-> sign, words |-> words]) = BigInt(Negated(m, sign))
  BY <1>1, <1>3, ValueOfWords
<1> QED BY <1>1, <1>2, <1>4

(* Every accessor is honest                                                *)
LEMMA Honest ==
    ASSUME NEW n \in BigInts PROVE AccessorsAreHonest(n)
<1> DEFINE big == BigIntFromJs(BigInt(n))
<1>1. BigOf(big, n)
  BY BigIs
<1> HIDE DEF big
<1>2. n \in Int
  BY <1>1 DEF BigOf
<1>3. /\ GetU64(big).lossless <=> n \in Unsigned(WordBits)
      /\ n \in Unsigned(WordBits) => GetU64(big).value = n
  BY <1>1, HonestU64
<1>4. /\ GetI64(big).lossless <=> n \in Signed(WordBits)
      /\ n \in Signed(WordBits) => GetI64(big).value = n
  BY <1>1, HonestI64
<1>5. /\ ~LooksLowest(big) =>
            (GetI128(big).lossless <=> n \in Signed(2 * WordBits))
      /\ n \in Signed(2 * WordBits) =>
            GetI128(big).value = n /\ JsBigIntI128(big).value = n
  BY <1>1, HonestI128
<1>6. /\ GetU128(big).lossless <=> Magnitude(n) \in Unsigned(2 * WordBits)
      /\ GetU128(big).lossless =>
            Negated(GetU128(big).value, GetU128(big).signed) = n
  <2>1. /\ GetU128(big).lossless <=> Magnitude(n) \in Unsigned(2 * WordBits)
        /\ GetU128(big).signed <=> n < 0
        /\ GetU128(big).lossless => GetU128(big).value = Magnitude(n)
    BY <1>1, HonestU128
  <2>2. Negated(Magnitude(n), GetU128(big).signed) = n
    BY <1>2, <2>1 DEF Negated, Magnitude
  <2> QED BY <2>1, <2>2
<1>7. BigIntToJs(big) = BigInt(n)
  BY <1>1, BigIntGoes
<1> QED BY <1>3, <1>4, <1>5, <1>6, <1>7 DEF AccessorsAreHonest, big

(* The two words that an i128 or u128 goes as                              *)
LEMMA WideGoes ==
    ASSUME NEW n \in Signed(2 * WordBits) PROVE Wide(n) = BigInt(n)
<1> DEFINE m == Magnitude(n)
           lo == m % Word
           hi == m \div Word
           sign == n <= 0
           words == <<lo, hi>>
<1>0. Word \in Nat /\ Word > 0 /\ Word * HalfWord \in Nat
  BY Bases
<1>1. n \in Int /\ m \in Nat /\ Negated(m, sign) = n
  BY <1>0, WordRanges DEF Magnitude, Negated
<1>2. Wide(n) = BigIntToJs([sign |-> sign, words |-> words])
  BY DEF Wide, BigIntFrom128, Word
<1> HIDE DEF m
<1>3. m = lo + Word * hi /\ lo \in Nat /\ hi \in Nat
  BY <1>0, <1>1, Divides
<1>4. sign \in BOOLEAN
  OBVIOUS
<1> HIDE DEF lo, hi, sign
<1>5. /\ words \in Seq(Nat) /\ Len(words) = 2
      /\ words[1] = lo /\ words[2] = hi
  BY <1>3
<1> HIDE DEF words
<1>6. BigIntToJs([sign |-> sign, words |-> words]) = BigInt(Negated(m, sign))
  BY <1>1, <1>3, <1>4, <1>5, ValueOfWords
<1> QED BY <1>1, <1>2, <1>6

(* The one word that an i64 or u64 goes as                                 *)
LEMMA WordGoes ==
    ASSUME NEW n \in Int PROVE BigIntToJs(BigIntFrom64(n)) = BigInt(n)
<1> DEFINE m == Magnitude(n)
           sign == n < 0
           words == <<m>>
<1>1. m \in Nat /\ Negated(m, sign) = n
  BY DEF Magnitude, Negated
<1>2. BigIntFrom64(n) = [sign |-> sign, words |-> words]
  BY DEF BigIntFrom64
<1>3. sign \in BOOLEAN
  OBVIOUS
<1> HIDE DEF m, sign
<1>4. words \in Seq(Nat) /\ Len(words) = 1 /\ words[1] = m
  BY <1>1
<1> HIDE DEF words
<1>5. BigIntToJs([sign |-> sign, words |-> words]) = BigInt(Negated(m, sign))
  BY <1>1, <1>3, <1>4, ValueOfWords
<1> QED BY <1>1, <1>2, <1>5

(* Where the integers of a word lie                                        *)
LEMMA InWords ==
    /\ \A n \in Signed(WordBits) \cup Unsigned(WordBits) : n \in BigInts
    /\ \A n \in Signed(2 * WordBits) : n \in BigInts
<1>1. /\ Word \in Nat /\ HalfWord \in Nat /\ Word = 2 * HalfWord
      /\ HalfWord > 0 /\ Word > 0
  BY Bases
<1>2. Word * Word \in Nat /\ Word * Word >= Word
  BY <1>1
<1>3. Word * HalfWord \in Nat /\ Word * Word = 2 * (Word * HalfWord)
  BY WideHalf
<1> DEFINE x == Word * Word
           h == Word * HalfWord
<1>4. /\ BigInts = -(2 * x) .. 2 * x
      /\ Unsigned(WordBits) = 0 .. Word - 1
      /\ Signed(WordBits) = -HalfWord .. HalfWord - 1
      /\ Signed(2 * WordBits) = -h .. h - 1
  BY WordRanges
<1>5. x \in Nat /\ h \in Nat /\ x >= Word /\ x = 2 * h
  BY <1>2, <1>3
<1> HIDE DEF x, h
<1> QED BY <1>1, <1>4, <1>5

(* Through serde_json, and back                                            *)
LEMMA JsonComesBack ==
    ASSUME NEW n \in Signed(WordBits) \cup Unsigned(WordBits)
    PROVE  SerdeValueFromJs(SerdeNumberToJs(n))
               \in {Ok(Number(n)), Ok(BigInt(n))}
<1>0. /\ HalfWord \in Nat /\ HalfWord >= 2 * Safe /\ Word = 2 * HalfWord
      /\ Safe \in Nat /\ Safe >= 2 * Small /\ Small \in Nat /\ Safe > 0
  BY Bases
<1>1. n \in BigInts /\ n \in Int
  BY <1>0, InWords, WordRanges
<1>2. CASE SerdeNumberToJs(n) = NumberOf(n) /\ Magnitude(n) <= Safe
  <2>1. NumberOf(n) = <<"number", n>>
    BY <1>1, <1>2, SafeDouble DEF NumberOf, Number
  <2>2. SerdeNumberFromJs(<<"number", n>>) = Ok(Number(n))
    BY DEF SerdeNumberFromJs, Number
  <2> QED BY <1>2, <2>1, <2>2 DEF SerdeValueFromJs
<1>3. CASE SerdeNumberToJs(n) = BigInt(n)
  <2> DEFINE big == BigIntFromJs(BigInt(n))
  <2>1. BigOf(big, n)
    BY <1>1, BigIs
  <2> DEFINE got == IF big.sign THEN GetI64(big) ELSE GetU64(big)
  <2>2. SerdeValueFromJs(BigInt(n)) =
            IF got.lossless THEN Ok(BigInt(got.value))
            ELSE Ok(String(BigInt(n)[2]))
    BY DEF SerdeValueFromJs, BigInt
  <2>3. got.lossless /\ got.value = n
    <3> HIDE DEF big
    <3>1. CASE big.sign
      <4>1. n < 0
        BY <2>1, <3>1 DEF BigOf
      <4>2. n \in Signed(WordBits)
        BY <1>1, <4>1, WordRange
      <4> QED BY <2>1, <3>1, <4>2, HonestI64
    <3>2. CASE ~big.sign
      <4>1. ~(n < 0)
        BY <2>1, <3>2 DEF BigOf
      <4>2. n \in Unsigned(WordBits)
        BY <1>0, <1>1, <4>1, WordRange
      <4> QED BY <2>1, <3>2, <4>2, HonestU64
    <3> QED BY <3>1, <3>2
  <2> HIDE DEF got
  <2> QED BY <1>3, <2>2, <2>3
<1>4. \/ SerdeNumberToJs(n) = NumberOf(n) /\ Magnitude(n) <= Safe
      \/ SerdeNumberToJs(n) = BigInt(n)
  <2>1. BigIntToJs(BigIntFrom64(n)) = BigInt(n)
    BY <1>1, WordGoes
  <2>2. CASE n \in Signed(WordBits)
    <3>1. SerdeNumberToJs(n) = IF Magnitude(n) < Safe THEN NumberOf(n)
                               ELSE BigInt(n)
      BY <2>1, <2>2 DEF SerdeNumberToJs, Safe
    <3>2. Magnitude(n) \in Int
      BY <1>1 DEF Magnitude
    <3> QED BY <1>0, <3>1, <3>2
  <2>3. CASE n \notin Signed(WordBits)
    <3>1. n > Small - 1
      BY <1>0, <1>1, <2>3, WordRange
    <3> QED BY <2>1, <2>3, <3>1 DEF SerdeNumberToJs, Small
  <2> QED BY <2>2, <2>3
<1> QED BY <1>2, <1>3, <1>4

(* De reads an integer that a double holds.                                *)
LEMMA DeOfNumber ==
    ASSUME NEW n \in Int, Magnitude(n) <= Safe PROVE DeNumber(NumberOf(n)) = n
<1>1. HalfWord \in Nat /\ HalfWord > Safe /\ Safe \in Nat
  BY Bases
<1>2. -HalfWord <= n /\ n < HalfWord
  BY <1>1 DEF Magnitude
<1>3. NumberOf(n) = <<"number", n>>
  BY SafeDouble DEF NumberOf, Number
<1>4. DeNumber(<<"number", n>>) =
          IF n >= HalfWord THEN HalfWord - 1
          ELSE IF n < -HalfWord THEN -HalfWord ELSE n
  BY DEF DeNumber, HalfWord
<1> QED BY <1>1, <1>2, <1>3, <1>4

(* De reads a BigInt.                                                      *)
LEMMA DeOfBigInt ==
    ASSUME NEW n \in BigInts,
           n \in Signed(2 * WordBits) \/ n \in Unsigned(WordBits), ~Misread(n)
    PROVE  DeNumber(BigInt(n)) = n
<1> DEFINE big == BigIntFromJs(BigInt(n))
           len == Len(big.words)
<1>1. BigOf(big, n)
  BY BigIs
<1>2. DeNumber(BigInt(n)) =
          IF big.sign
          THEN IF len < 2 THEN GetI64(big).value ELSE GetI128(big).value
          ELSE IF len < 2 THEN GetU64(big).value ELSE GetU128(big).value
  BY DEF DeNumber, BigInt
<1> HIDE DEF big
<1>3. /\ n \in Int /\ len \in 1 .. 3
      /\ big.sign <=> n < 0
      /\ Magnitude(n) = (IF n < 0 THEN -n ELSE n)
      /\ len = 1 <=> Magnitude(n) < Word
  BY <1>1, BigFacts
<1>4. /\ Word \in Nat /\ HalfWord \in Nat /\ Word = 2 * HalfWord
      /\ Word * HalfWord \in Nat /\ Word * HalfWord >= Word
      /\ Word * Word = 2 * (Word * HalfWord)
  BY Bases, WideHalf
<1> HIDE DEF len
<1>5. CASE n < 0 /\ len < 2
  <2>1. n > -Word
    BY <1>3, <1>4, <1>5
  <2>2. ~(n \in -(Word - 1) .. -HalfWord - 1)
    BY DEF Misread, Word, HalfWord
  <2>3. n \in Signed(WordBits)
    BY <1>3, <1>4, <1>5, <2>1, <2>2, WordRange
  <2>4. GetI64(big).value = n
    BY <1>1, <2>3, HonestI64
  <2> QED BY <1>2, <1>3, <1>5, <2>4
<1>6. CASE n < 0 /\ ~(len < 2)
  <2>1. n \in Signed(2 * WordBits)
    BY <1>3, <1>6, WordRange
  <2>2. GetI128(big).value = n
    BY <1>1, <2>1, HonestI128
  <2> QED BY <1>2, <1>3, <1>6, <2>2
<1>7. CASE ~(n < 0) /\ len < 2
  <2>1. n < Word
    BY <1>3, <1>4, <1>7
  <2>2. n \in Unsigned(WordBits)
    BY <1>3, <1>7, <2>1, WordRange
  <2>3. GetU64(big).value = n
    BY <1>1, <2>2, HonestU64
  <2> QED BY <1>2, <1>3, <1>7, <2>3
<1>8. CASE ~(n < 0) /\ ~(len < 2)
  <2> DEFINE m == Magnitude(n)
             x == Word * Word
             h == Word * HalfWord
  <2>1. /\ n \in Signed(2 * WordBits) <=> n >= -h /\ n < h
        /\ n \in Unsigned(WordBits) <=> n >= 0 /\ n < Word
    BY <1>3, WideRange, WordRange
  <2>2. h \in Nat /\ h >= Word /\ x = 2 * h /\ m = n
    BY <1>3, <1>4, <1>8
  <2> HIDE DEF x, h, m
  <2>3. m \in Int /\ m >= 0 /\ m < x
    BY <1>3, <1>4, <1>8, <2>1, <2>2
  <2>4. m \in Unsigned(2 * WordBits)
    BY <2>3, WideRange DEF x
  <2>5. GetU128(big).value = m
    BY <1>1, <2>4, HonestU128 DEF m
  <2> QED BY <1>2, <1>3, <1>8, <2>2, <2>5
<1> QED BY <1>5, <1>6, <1>7, <1>8

(* Every integer comes back.                                               *)
LEMMA IntegersComeBack ==
    ASSUME NEW n \in Int PROVE IntegerComesBack(n)
<1>0. /\ Word \in Nat /\ HalfWord \in Nat /\ Word = 2 * HalfWord
      /\ Safe \in Nat /\ Safe >= 2 * Small /\ Small \in Nat
  BY Bases
<1>1. ASSUME n \in Signed(WordBits) \cup Unsigned(WordBits)
      PROVE  SerdeValueFromJs(SerdeNumberToJs(n))
                 \in {Ok(Number(n)), Ok(BigInt(n))}
  BY <1>1, JsonComesBack
<1>2. ASSUME Magnitude(n) <= 2^SafeBits
      PROVE  DeNumber(SerI64(n)) = n
  BY <1>2, DeOfNumber DEF SerI64, Safe
<1>3. ASSUME n \in Unsigned(WordBits)
      PROVE  DeNumber(SerU64(n)) = n
  <2>1. n >= 0 /\ n \in BigInts
    BY <1>3, InWords, WordRange
  <2>2. CASE n <= Small - 1
    <3>1. Magnitude(n) <= Safe
      BY <1>0, <2>1, <2>2 DEF Magnitude
    <3> QED BY <2>2, <3>1, DeOfNumber DEF SerU64, Small
  <2>3. CASE ~(n <= Small - 1)
    <3>1. ~Misread(n)
      <4>1. n \notin -(Word - 1) .. -HalfWord - 1
        BY <1>0, <2>1
      <4> QED BY <4>1 DEF Misread, Word, HalfWord
    <3>2. DeNumber(BigInt(n)) = n
      BY <1>3, <2>1, <3>1, DeOfBigInt
    <3> QED BY <2>3, <3>2 DEF SerU64, Small
  <2> QED BY <2>2, <2>3
<1>4. ASSUME n \in Signed(2 * WordBits), ~Misread(n)
      PROVE  DeNumber(SerI128(n)) = n
  BY <1>4, InWords, DeOfBigInt, WideGoes DEF SerI128
<1> QED BY <1>1, <1>2, <1>3, <1>4 DEF IntegerComesBack

(* Numbers cross exactly, whatever the widths: number.rs, bigint.rs and    *)
(* serde refuse, flag or bring back each integer as NumberIsExact says.    *)
THEOREM NumbersAreExact == \A n \in BigInts : NumberIsExact(n)
<1> SUFFICES ASSUME NEW n \in BigInts PROVE NumberIsExact(n)
  OBVIOUS
<1>1. n \in Int
  <2>1. Word * Word \in Nat
    BY Bases
  <2> QED BY <2>1, WordRanges
<1> QED BY <1>1, SmallNumbers, Honest, IntegersComeBack DEF NumberIsExact

=============================================================================
