------------------------- MODULE ClassInstances_proof -------------------------
(* Proofs about ClassInstances and Generators, for every set of objects,   *)
(* any number of items and calls, and any bounds, and about NativeCall,    *)
(* for any depth of calls, any values that are thrown and any number of    *)
(* Errors, references and causes.                                          *)
EXTENDS ClassInstances, Generators, NativeCall,
        FiniteSetTheorems, SequenceTheorems, TLAPS

(* What there can be around an object in each stage of its life.  Nothing  *)
(* refers to an object without T; an entry and a live napi_ref come and go *)
(* together, except for a constructor that failed; after a finalizer ran   *)
(* there are only the References that outlived it.                         *)
NoHolder(o) ==
    refs[o] = 0 /\ ~weak[o] /\ shares[o] = 0 /\ gen[o] = "none"

Life(o) ==
    /\ js[o] = "none" => box[o] = "none" /\ call[o] = "none"
                         /\ origin[o] = "none"
    /\ js[o] \in {"held", "dropped"} =>
           box[o] \in {"none", "wrapped", "leaked"}
    /\ js[o] = "collected" => box[o] # "wrapped"
    /\ box[o] \in {"none", "leaked"} =>
           /\ NoHolder(o) /\ call[o] # "running"
           /\ ref[o] = "none" /\ o \notin mapped
    /\ box[o] = "leaked" => origin[o] = "broken"
    /\ box[o] = "wrapped" => ref[o] = "live"
    /\ box[o] = "wrapped" /\ o \notin mapped =>
           origin[o] = "broken" /\ NoHolder(o) /\ js[o] = "dropped"
    /\ o \in mapped => ref[o] = "live" /\ box[o] \in {"wrapped", "abandoned"}
    /\ ref[o] = "live" /\ o \notin mapped => origin[o] = "broken"
    /\ box[o] = "freed" =>
           /\ o \notin mapped /\ shares[o] = 0 /\ refs[o] <= outlived[o]
           /\ ref[o] = "live" => refs[o] = 0
           /\ ~envGone => refs[o] = 0 /\ gen[o] # "held" /\ call[o] # "running"
    /\ o \in badDrops =>
           \/ box[o] = "abandoned"
           \/ box[o] = "freed" /\ outlived[o] >= 2 /\ envGone

(* The flag is up during the construction of a factory, or since           *)
(* new_instance failed.                                                    *)
FlagInv ==
    /\ flag => building \/ rustFailed
    /\ BareOnlyAfterFailure

IndInv == TypeOK /\ FlagInv /\ \A o \in Objects : Life(o)

(* The initial state satisfies the invariant.                              *)
LEMMA InitIndInv == Init => IndInv
<1> SUFFICES ASSUME Init PROVE IndInv
  OBVIOUS
<1> USE DEF Init
<1>1. TypeOK
  <2>1. shares \in [Objects -> 0..MaxShares]
    BY BoundsAssumption
  <2> QED
    BY <2>1 DEF TypeOK, Extra, JsStates, BoxStates, RefStates, GenStates,
       CallStates, Origins
<1>2. FlagInv
  BY DEF FlagInv, BareOnlyAfterFailure
<1>3. \A o \in Objects : Life(o)
  BY DEF Life, NoHolder
<1> QED
  BY <1>1, <1>2, <1>3 DEF IndInv

(* Making the object keeps the types, whatever fails.                      *)
LEMMA BecomesTypes ==
  ASSUME TypeOK, NEW o \in Objects, NEW reached \in JsStates,
         NEW boxed \in BoxStates, NEW how \in Origins,
         Becomes(o, reached, boxed, how)
  PROVE  /\ js' \in [Objects -> JsStates] /\ box' \in [Objects -> BoxStates]
         /\ origin' \in [Objects -> Origins]
         /\ \A p \in Objects \ {o} : box'[p] = box[p] /\ origin'[p] = origin[p]
         /\ box'[o] = boxed /\ origin'[o] = how
BY DEF TypeOK, Becomes

(* So does an entry.                                                       *)
LEMMA AddRefTypes ==
  ASSUME TypeOK, NEW o \in Objects, AddRef(o)
  PROVE  /\ ref' \in [Objects -> RefStates] /\ mapped' \subseteq Objects
         /\ \A p \in Objects \ {o} : ref'[p] = "live" => ref[p] = "live"
BY DEF TypeOK, AddRef, RefStates

(* An object wrapped with the count that its References and its origin say *)
(* keeps the types.                                                        *)
LEMMA WrappedTypes ==
  ASSUME IndInv, NEW o \in Objects, NEW reached \in JsStates,
         NEW how \in {"js", "factory", "rust"}, NEW held \in Nat,
         Becomes(o, reached, "wrapped", how), AddRef(o),
         refs' = [refs EXCEPT ![o] = held],
         count' = [count EXCEPT ![o] =
                      held + (IF how = "rust" THEN 1 ELSE 0)],
         UNCHANGED <<weak, shares, gen, call, envGone, rustFailed, outlived,
                     badDrops>>,
         flag' \in BOOLEAN, building' \in BOOLEAN
  PROVE  TypeOK'
<1> USE DEF IndInv, TypeOK, Extra
<1>1. how \in Origins /\ "wrapped" \in BoxStates
  BY DEF Origins, BoxStates
<1>2. /\ js' \in [Objects -> JsStates] /\ box' \in [Objects -> BoxStates]
      /\ origin' \in [Objects -> Origins] /\ origin'[o] = how
      /\ \A p \in Objects \ {o} : box'[p] = box[p] /\ origin'[p] = origin[p]
  BY <1>1, BecomesTypes
<1>3. /\ ref' \in [Objects -> RefStates] /\ mapped' \subseteq Objects
      /\ \A p \in Objects \ {o} : ref'[p] = "live" => ref[p] = "live"
  BY AddRefTypes
<1>4. refs' \in [Objects -> Nat] /\ count' \in [Objects -> Nat]
  OBVIOUS
<1>5. ASSUME NEW p \in Objects, ref'[p] = "live", box'[p] = "wrapped"
      PROVE  count'[p] = refs'[p] + Extra(p)'
  <2>1. CASE p = o
    BY <2>1, <1>2
  <2>2. CASE p # o
    BY <2>2, <1>2, <1>3, <1>5
  <2> QED
    BY <2>1, <2>2
<1> QED
  BY <1>2, <1>3, <1>4, <1>5

(* So does an object in which no T is wrapped.                             *)
LEMMA UnwrappedTypes ==
  ASSUME IndInv, NEW o \in Objects, Fresh(o),
         NEW reached \in JsStates, NEW boxed \in BoxStates \ {"wrapped"},
         NEW how \in Origins, Becomes(o, reached, boxed, how),
         UNCHANGED <<ref, count, mapped, holders, envGone, rustFailed,
                     outlived, badDrops>>,
         flag' \in BOOLEAN, building' \in BOOLEAN
  PROVE  TypeOK'
<1> USE DEF IndInv, TypeOK, Extra, holders
<1>1. /\ js' \in [Objects -> JsStates] /\ box' \in [Objects -> BoxStates]
      /\ origin' \in [Objects -> Origins]
      /\ \A p \in Objects \ {o} : box'[p] = box[p] /\ origin'[p] = origin[p]
      /\ box'[o] = boxed
  BY BecomesTypes
<1>2. ASSUME NEW p \in Objects, ref'[p] = "live", box'[p] = "wrapped"
      PROVE  count'[p] = refs'[p] + Extra(p)'
  BY <1>1, <1>2
<1> QED
  BY <1>1, <1>2

(* So does the constructor of a class, however the wrap ends.              *)
LEMMA WrapTypes ==
  ASSUME IndInv, NEW o \in Objects, Fresh(o),
         NEW how \in {"js", "factory"}, Wrap(o, how),
         UNCHANGED <<holders, envGone, rustFailed, outlived, badDrops>>,
         flag' \in BOOLEAN, building' \in BOOLEAN
  PROVE  TypeOK'
<1>1. CASE Wrapped(o, how, 0)
  <2>1. refs' = [refs EXCEPT ![o] = 0]
    BY DEF IndInv, TypeOK, Fresh, Life, NoHolder, holders
  <2>2. 0 + (IF how = "rust" THEN 1 ELSE 0) = 0
    OBVIOUS
  <2>3. count' = [count EXCEPT ![o] = 0 + (IF how = "rust" THEN 1 ELSE 0)]
    BY <1>1, <2>2 DEF Wrapped
  <2>4. "held" \in JsStates /\ how \in {"js", "factory", "rust"} /\ 0 \in Nat
    BY DEF JsStates
  <2>5. Becomes(o, "held", "wrapped", how) /\ AddRef(o)
    BY <1>1 DEF Wrapped
  <2>6. UNCHANGED <<weak, shares, gen, call, envGone, rustFailed, outlived,
                    badDrops>>
    BY DEF holders
  <2> QED
    BY <2>1, <2>3, <2>4, <2>5, <2>6, WrappedTypes
<1>2. CASE WrapFails(o)
  BY <1>2, UnwrappedTypes DEF WrapFails, JsStates, BoxStates, Origins
<1>3. CASE /\ Becomes(o, "dropped", "wrapped", "broken")
           /\ ref' = [ref EXCEPT ![o] = "live"]
           /\ count' = [count EXCEPT ![o] = 1]
           /\ UNCHANGED mapped
  <2> USE DEF IndInv, TypeOK, Extra, holders
  <2>1. /\ "dropped" \in JsStates /\ "wrapped" \in BoxStates
        /\ "broken" \in Origins /\ "live" \in RefStates
    BY DEF JsStates, BoxStates, Origins, RefStates
  <2>2. /\ js' \in [Objects -> JsStates] /\ box' \in [Objects -> BoxStates]
        /\ origin' \in [Objects -> Origins] /\ origin'[o] = "broken"
        /\ \A p \in Objects \ {o} : box'[p] = box[p] /\ origin'[p] = origin[p]
    BY <1>3, <2>1, BecomesTypes
  <2>3. ref' \in [Objects -> RefStates] /\ count' \in [Objects -> Nat]
    BY <1>3, <2>1
  <2>4. refs[o] = 0
    BY DEF Fresh, Life, NoHolder
  <2>5. ASSUME NEW p \in Objects, ref'[p] = "live", box'[p] = "wrapped"
        PROVE  count'[p] = refs'[p] + Extra(p)'
    <3>1. CASE p = o
      BY <3>1, <1>3, <2>2, <2>4
    <3>2. CASE p # o
      BY <3>2, <1>3, <2>2, <2>5
    <3> QED
      BY <3>1, <3>2
  <2> QED
    BY <1>3, <2>2, <2>3, <2>5
<1> QED
  BY <1>1, <1>2, <1>3 DEF Wrap

(* Every step preserves the types, and the account of each napi_ref.       *)
LEMMA TypeStep == IndInv /\ [Next]_vars => TypeOK'
<1> SUFFICES ASSUME IndInv, [Next]_vars PROVE TypeOK'
  OBVIOUS
<1> USE BoundsAssumption DEF IndInv, TypeOK, Extra, JsStates, BoxStates,
        RefStates, GenStates, CallStates, Origins, objVars, holders, process
<1>1. CASE FactoryBegins
    BY <1>1 DEF FactoryBegins, Life, NoHolder
<1>2. CASE NewInstanceFails
    BY <1>2 DEF NewInstanceFails, Life, NoHolder
<1>3. CASE EnvironmentEnds
    BY <1>3 DEF EnvironmentEnds, Life, NoHolder
<1>4. ASSUME NEW o \in Objects, Construct(o) PROVE TypeOK'
  <2>1. CASE flag
    <3>1. PICK how \in Origins : Becomes(o, "held", "none", how)
      BY <1>4, <2>1 DEF Construct, Bare
    <3> QED
      BY <1>4, <2>1, <3>1, UnwrappedTypes DEF Construct, Bare
  <2>2. CASE ~flag
    BY <1>4, <2>2, WrapTypes DEF Construct
  <2> QED
    BY <2>1, <2>2
<1>5. ASSUME NEW o \in Objects, FactoryEnds(o) PROVE TypeOK'
  <2>1. CASE Wrap(o, "factory")
    BY <1>5, <2>1, WrapTypes DEF FactoryEnds
  <2>2. CASE UNCHANGED objVars
    BY <1>5, <2>2 DEF FactoryEnds
  <2> QED
    BY <1>5, <2>1, <2>2 DEF FactoryEnds
<1>6. ASSUME NEW o \in Objects, NewInstance(o) PROVE TypeOK'
  <2>1. CASE Wrapped(o, "rust", 1)
    <3>1. refs' = [refs EXCEPT ![o] = 0]
      BY <1>6 DEF NewInstance, Fresh, Life, NoHolder
    <3>2. count' = [count EXCEPT ![o] = 0 + 1]
      BY <2>1 DEF Wrapped
    <3> QED
      BY <1>6, <2>1, <3>1, <3>2, WrappedTypes DEF NewInstance, Wrapped
  <2>2. CASE WrapFails(o)
    BY <1>6, <2>2, UnwrappedTypes DEF NewInstance, WrapFails
  <2> QED
    BY <1>6, <2>1, <2>2 DEF NewInstance
<1>7. ASSUME NEW o \in Objects, IntoReference(o) PROVE TypeOK'
  <2>1. count' = [count EXCEPT ![o] = 1 + 1]
    BY <1>7 DEF IntoReference
  <2> QED
    BY <1>7, <2>1, WrappedTypes DEF IntoReference
<1>8. ASSUME NEW o \in Objects, FromValue(o) PROVE TypeOK'
    BY <1>8, SMTT(30)
       DEF FromValue, Refer, CanHold, Life, NoHolder
<1>9. ASSUME NEW o \in Objects, CloneReference(o) PROVE TypeOK'
    BY <1>9, SMTT(30)
       DEF CloneReference, Refer, CanHold, Life, NoHolder
<1>10. ASSUME NEW o \in Objects, Upgrade(o) PROVE TypeOK'
    BY <1>10, SMTT(30)
       DEF Upgrade, Refer, CanHold, WeakSees, Strong, Life, NoHolder
<1>11. ASSUME NEW o \in Objects, Downgrade(o) PROVE TypeOK'
    BY <1>11 DEF Downgrade, Life, NoHolder
<1>12. ASSUME NEW o \in Objects, ShareWith(o) PROVE TypeOK'
  <2>1. shares' \in [Objects -> 0..MaxShares]
    BY <1>12 DEF ShareWith
  <2> QED
    BY <1>12, <2>1 DEF ShareWith
<1>13. ASSUME NEW o \in Objects, DropReference(o) PROVE TypeOK'
    BY <1>13, SMTT(30)
       DEF DropReference, Release, Strong, Life, NoHolder
<1>14. ASSUME NEW o \in Objects, ReferenceToJs(o) PROVE TypeOK'
    BY <1>14, SMTT(30)
       DEF ReferenceToJs, Release, Strong, Life, NoHolder
<1>15. ASSUME NEW o \in Objects, WeakToJs(o) PROVE TypeOK'
    BY <1>15 DEF WeakToJs, WeakSees, Strong, Life, NoHolder
<1>16. ASSUME NEW o \in Objects, MakeGenerator(o) PROVE TypeOK'
    BY <1>16 DEF MakeGenerator, CanHold, Life, NoHolder
<1>17. ASSUME NEW o \in Objects, DropGenerator(o) PROVE TypeOK'
    BY <1>17 DEF DropGenerator, Life, NoHolder
<1>18. ASSUME NEW o \in Objects, AsyncCall(o) PROVE TypeOK'
    BY <1>18 DEF AsyncCall, CanHold, Life, NoHolder
<1>19. ASSUME NEW o \in Objects, AsyncEnds(o) PROVE TypeOK'
    BY <1>19 DEF AsyncEnds, Life, NoHolder
<1>20. ASSUME NEW o \in Objects, Forget(o) PROVE TypeOK'
    BY <1>20 DEF Forget, Life, NoHolder
<1>21. ASSUME NEW o \in Objects, Collect(o) PROVE TypeOK'
    BY <1>21, SMTT(30)
       DEF Collect, Pinned, Finalize, FinalizeRuns, FinalizeFails,
       Life, NoHolder
<1>22. ASSUME NEW o \in Objects, FinalizeAtEnd(o) PROVE TypeOK'
    BY <1>22, SMTT(30)
       DEF FinalizeAtEnd, Finalize, FinalizeRuns, FinalizeFails,
       Life, NoHolder
<1>23. CASE UNCHANGED vars
    BY <1>23 DEF vars, Life, NoHolder
<1> QED
    BY <1>1, <1>2, <1>3, <1>4, <1>5, <1>6, <1>7, <1>8, <1>9, <1>10, <1>11,
       <1>12, <1>13, <1>14, <1>15, <1>16, <1>17, <1>18, <1>19, <1>20,
       <1>21, <1>22, <1>23
       DEF Next, Create, Reference, Method

(* Every step preserves what there is around each object.                  *)
LEMMA LifeStep == IndInv /\ [Next]_vars => \A p \in Objects : Life(p)'
<1> SUFFICES ASSUME IndInv, [Next]_vars, NEW p \in Objects PROVE Life(p)'
  OBVIOUS
<1> USE BoundsAssumption DEF IndInv, TypeOK, Extra, JsStates, BoxStates,
        RefStates, GenStates, CallStates, Origins, objVars, holders, process
<1>1. CASE FactoryBegins
    BY <1>1 DEF FactoryBegins, Life, NoHolder
<1>2. CASE NewInstanceFails
    BY <1>2 DEF NewInstanceFails, Life, NoHolder
<1>3. CASE EnvironmentEnds
    BY <1>3 DEF EnvironmentEnds, Life, NoHolder
<1>4. ASSUME NEW o \in Objects, Construct(o) PROVE Life(p)'
    BY <1>4, SMTT(30)
       DEF Construct, Fresh, Bare, Wrap, Wrapped, WrapFails, AddRef,
       Becomes, Life, NoHolder
<1>5. ASSUME NEW o \in Objects, FactoryEnds(o) PROVE Life(p)'
    BY <1>5, SMTT(30)
       DEF FactoryEnds, Fresh, Wrap, Wrapped, WrapFails, AddRef,
       Becomes, Life, NoHolder
<1>6. ASSUME NEW o \in Objects, NewInstance(o) PROVE Life(p)'
    BY <1>6, SMTT(30)
       DEF NewInstance, Fresh, Wrapped, WrapFails, AddRef, Becomes,
       Life, NoHolder
<1>7. ASSUME NEW o \in Objects, IntoReference(o) PROVE Life(p)'
    BY <1>7, SMTT(30)
       DEF IntoReference, Fresh, CanHold, AddRef, Becomes, Life,
       NoHolder
<1>8. ASSUME NEW o \in Objects, FromValue(o) PROVE Life(p)'
    BY <1>8, SMTT(30)
       DEF FromValue, Refer, CanHold, Life, NoHolder
<1>9. ASSUME NEW o \in Objects, CloneReference(o) PROVE Life(p)'
    BY <1>9, SMTT(30)
       DEF CloneReference, Refer, CanHold, Life, NoHolder
<1>10. ASSUME NEW o \in Objects, Upgrade(o) PROVE Life(p)'
    BY <1>10, SMTT(30)
       DEF Upgrade, Refer, CanHold, WeakSees, Strong, Life, NoHolder
<1>11. ASSUME NEW o \in Objects, Downgrade(o) PROVE Life(p)'
    BY <1>11 DEF Downgrade, Life, NoHolder
<1>12. ASSUME NEW o \in Objects, ShareWith(o) PROVE Life(p)'
    BY <1>12 DEF ShareWith, Life, NoHolder
<1>13. ASSUME NEW o \in Objects, DropReference(o) PROVE Life(p)'
    BY <1>13, SMTT(30)
       DEF DropReference, Release, Strong, Life, NoHolder
<1>14. ASSUME NEW o \in Objects, ReferenceToJs(o) PROVE Life(p)'
    BY <1>14, SMTT(30)
       DEF ReferenceToJs, Release, Strong, Life, NoHolder
<1>15. ASSUME NEW o \in Objects, WeakToJs(o) PROVE Life(p)'
    BY <1>15 DEF WeakToJs, WeakSees, Strong, Life, NoHolder
<1>16. ASSUME NEW o \in Objects, MakeGenerator(o) PROVE Life(p)'
    BY <1>16 DEF MakeGenerator, CanHold, Life, NoHolder
<1>17. ASSUME NEW o \in Objects, DropGenerator(o) PROVE Life(p)'
    BY <1>17 DEF DropGenerator, Life, NoHolder
<1>18. ASSUME NEW o \in Objects, AsyncCall(o) PROVE Life(p)'
    BY <1>18 DEF AsyncCall, CanHold, Life, NoHolder
<1>19. ASSUME NEW o \in Objects, AsyncEnds(o) PROVE Life(p)'
    BY <1>19 DEF AsyncEnds, Life, NoHolder
<1>20. ASSUME NEW o \in Objects, Forget(o) PROVE Life(p)'
    BY <1>20 DEF Forget, Life, NoHolder
<1>21. ASSUME NEW o \in Objects, Collect(o) PROVE Life(p)'
    BY <1>21, SMTT(30)
       DEF Collect, Pinned, Finalize, FinalizeRuns, FinalizeFails,
       Life, NoHolder
<1>22. ASSUME NEW o \in Objects, FinalizeAtEnd(o) PROVE Life(p)'
    BY <1>22, SMTT(30)
       DEF FinalizeAtEnd, Finalize, FinalizeRuns, FinalizeFails,
       Life, NoHolder
<1>23. CASE UNCHANGED vars
    BY <1>23 DEF vars, Life, NoHolder
<1> QED
    BY <1>1, <1>2, <1>3, <1>4, <1>5, <1>6, <1>7, <1>8, <1>9, <1>10, <1>11,
       <1>12, <1>13, <1>14, <1>15, <1>16, <1>17, <1>18, <1>19, <1>20,
       <1>21, <1>22, <1>23
       DEF Next, Create, Reference, Method

(* Every step leaves the flag down, or its reason noted.                   *)
LEMMA FlagStep == IndInv /\ [Next]_vars => FlagInv'
<1> SUFFICES ASSUME IndInv, [Next]_vars PROVE FlagInv'
  OBVIOUS
<1> USE DEF IndInv, TypeOK, FlagInv, BareOnlyAfterFailure, objVars, process
<1>1. CASE FactoryBegins
    BY <1>1 DEF FactoryBegins
<1>2. CASE NewInstanceFails
    BY <1>2 DEF NewInstanceFails
<1>3. CASE EnvironmentEnds
    BY <1>3 DEF EnvironmentEnds
<1>4. ASSUME NEW o \in Objects, Construct(o) PROVE FlagInv'
    BY <1>4 DEF Construct, Fresh, Bare, Wrap, Wrapped, WrapFails, AddRef,
       Becomes
<1>5. ASSUME NEW o \in Objects, FactoryEnds(o) PROVE FlagInv'
    BY <1>5 DEF FactoryEnds, Fresh, Wrap, Wrapped, WrapFails, AddRef,
       Becomes
<1>6. ASSUME NEW o \in Objects, NewInstance(o) PROVE FlagInv'
    BY <1>6 DEF NewInstance, Fresh, Wrapped, WrapFails, AddRef, Becomes
<1>7. ASSUME NEW o \in Objects, IntoReference(o) PROVE FlagInv'
    BY <1>7 DEF IntoReference, Fresh, CanHold, AddRef, Becomes
<1>8. ASSUME NEW o \in Objects, FromValue(o) PROVE FlagInv'
    BY <1>8 DEF FromValue, Refer, CanHold
<1>9. ASSUME NEW o \in Objects, CloneReference(o) PROVE FlagInv'
    BY <1>9 DEF CloneReference, Refer, CanHold
<1>10. ASSUME NEW o \in Objects, Upgrade(o) PROVE FlagInv'
    BY <1>10 DEF Upgrade, Refer, CanHold, WeakSees, Strong
<1>11. ASSUME NEW o \in Objects, Downgrade(o) PROVE FlagInv'
    BY <1>11 DEF Downgrade
<1>12. ASSUME NEW o \in Objects, ShareWith(o) PROVE FlagInv'
    BY <1>12 DEF ShareWith
<1>13. ASSUME NEW o \in Objects, DropReference(o) PROVE FlagInv'
    BY <1>13 DEF DropReference, Release, Strong
<1>14. ASSUME NEW o \in Objects, ReferenceToJs(o) PROVE FlagInv'
    BY <1>14 DEF ReferenceToJs, Release, Strong
<1>15. ASSUME NEW o \in Objects, WeakToJs(o) PROVE FlagInv'
    BY <1>15 DEF WeakToJs, WeakSees, Strong
<1>16. ASSUME NEW o \in Objects, MakeGenerator(o) PROVE FlagInv'
    BY <1>16 DEF MakeGenerator, CanHold
<1>17. ASSUME NEW o \in Objects, DropGenerator(o) PROVE FlagInv'
    BY <1>17 DEF DropGenerator
<1>18. ASSUME NEW o \in Objects, AsyncCall(o) PROVE FlagInv'
    BY <1>18 DEF AsyncCall, CanHold
<1>19. ASSUME NEW o \in Objects, AsyncEnds(o) PROVE FlagInv'
    BY <1>19 DEF AsyncEnds
<1>20. ASSUME NEW o \in Objects, Forget(o) PROVE FlagInv'
    BY <1>20 DEF Forget
<1>21. ASSUME NEW o \in Objects, Collect(o) PROVE FlagInv'
    BY <1>21 DEF Collect, Pinned, Finalize, FinalizeRuns, FinalizeFails
<1>22. ASSUME NEW o \in Objects, FinalizeAtEnd(o) PROVE FlagInv'
    BY <1>22 DEF FinalizeAtEnd, Finalize, FinalizeRuns, FinalizeFails
<1>23. CASE UNCHANGED vars
    BY <1>23 DEF vars
<1> QED
    BY <1>1, <1>2, <1>3, <1>4, <1>5, <1>6, <1>7, <1>8, <1>9, <1>10, <1>11,
       <1>12, <1>13, <1>14, <1>15, <1>16, <1>17, <1>18, <1>19, <1>20,
       <1>21, <1>22, <1>23
       DEF Next, Create, Reference, Method

(* The invariant holds in every reachable state.                           *)
THEOREM Invariance == Spec => []IndInv
<1>1. IndInv /\ [Next]_vars => IndInv'
  BY TypeStep, LifeStep, FlagStep DEF IndInv
<1> QED
  BY InitIndInv, <1>1, PTL DEF Spec

(* Types, and of a wrap that can still be used the N-API count is the      *)
(* number of References, and one more where the code took one too many.    *)
THEOREM CountIsReferences == Spec => []TypeOK
<1>1. IndInv => TypeOK
  BY DEF IndInv
<1> QED
  BY Invariance, <1>1, PTL

(* T is not freed under a Reference, an upgrade, a generator object or an  *)
(* async method, as long as the environment lives.                         *)
THEOREM UseKeepsAlive == Spec => []InUseIsAlive
<1>1. IndInv => InUseIsAlive
  <2> SUFFICES ASSUME IndInv, NEW o \in Objects, InUse(o), ~envGone,
                      box[o] # "abandoned"
               PROVE  box[o] = "wrapped"
    BY DEF InUseIsAlive
  <2>1. Life(o) /\ box[o] \in BoxStates /\ gen[o] \in GenStates
        /\ refs[o] \in Nat
    BY DEF IndInv, TypeOK
  <2>2. box[o] \notin {"none", "leaked"}
    BY <2>1 DEF Life, NoHolder, InUse, WeakSees
  <2>3. box[o] # "freed"
    BY <2>1 DEF Life, InUse, WeakSees, Strong
  <2> QED
    BY <2>1, <2>2, <2>3 DEF BoxStates
<1> QED
  BY Invariance, <1>1, PTL

(* What neither JS nor Rust holds can be collected, and takes with it what *)
(* was shared from it.                                                     *)
THEOREM LetGoCanGo == Spec => []LetGoIsFreed
<1>1. IndInv => LetGoIsFreed
  <2> SUFFICES ASSUME IndInv, NEW o \in Objects
               PROVE  /\ LetGo(o) => ~Pinned(o)
                      /\ box[o] = "freed" => shares[o] = 0
                      /\ ref[o] = "live" /\ o \notin mapped
                            => origin[o] = "broken"
    BY DEF LetGoIsFreed
  <2>1. Life(o) /\ TypeOK
    BY DEF IndInv
  <2>2. ASSUME LetGo(o) PROVE ~Pinned(o)
    <3>1. gen[o] \notin {"held", "lost"} /\ call[o] = "none"
      BY <2>2 DEF LetGo
    <3>2. ASSUME ref[o] = "live" PROVE count[o] = 0
      BY <2>1, <2>2, <3>2 DEF LetGo, Life, TypeOK, Extra, BoxStates
    <3> QED
      BY <3>1, <3>2 DEF Pinned
  <2> QED
    BY <2>1, <2>2 DEF Life
<1> QED
  BY Invariance, <1>1, PTL

(* A drop uses a deleted N-API reference only where two of them outlived   *)
(* the object, at the end of the environment; an object without T comes    *)
(* from a constructor only inside a factory, or after new_instance failed. *)
THEOREM OnlyKnownFailures == Spec => []FailuresAreKnown
<1>1. IndInv => DropGuard
  BY DEF IndInv, TypeOK, DropGuard, Life
<1>2. IndInv => BareOnlyAfterFailure
  BY DEF IndInv, FlagInv
<1>3. IndInv => FailuresAreKnown
  BY <1>1, <1>2 DEF FailuresAreKnown
<1> QED
  BY Invariance, <1>3, PTL

-----------------------------------------------------------------------------
(* The iterator protocol of Generators                                     *)

(* A Generator that was closed stays so until a throw that T handles.      *)
StaysClosed ==
    ~isAsync =>
        \A i \in DOMAIN calls :
            Closes(calls[i]) =>
                \/ completed
                \/ \E k \in (i + 1)..Len(calls) : Reopens(calls[k])

GeneratorInv ==
    /\ GeneratorsKeepProtocol
    /\ \A i \in DOMAIN calls : calls[i].item <= given
    /\ \A i \in DOMAIN calls : calls[i].told = "pending" => isAsync
    /\ StaysClosed

(* The calls after one more.                                               *)
LEMMA OneCallMore ==
  ASSUME calls \in Seq(Call), NEW last \in Call,
         calls' = Append(calls, last)
  PROVE  /\ calls' \in Seq(Call) /\ Len(calls) \in Nat
         /\ Len(calls') = Len(calls) + 1
         /\ DOMAIN calls = 1..Len(calls)
         /\ DOMAIN calls' = 1..(Len(calls) + 1)
         /\ \A i \in DOMAIN calls : calls'[i] = calls[i]
         /\ calls'[Len(calls) + 1] = last
  OBVIOUS

(* A call that is answered at once, or by a future: what it shows of an    *)
(* item is right, it asks T only when the object was not closed, and it    *)
(* leaves the object closed unless it reopens it.                          *)
LEMMA AnswerKeeps ==
  ASSUME GeneratorInv,
         NEW op \in {"next", "return", "throw"}, NEW here \in BOOLEAN,
         NEW item \in Offers,
         NEW told \in {"value", "done", "threw", "pending"},
         Answer(op, here, item, told),
         completed' \in BOOLEAN,
         item > 0 /\ told = "done" => op = "return",
         told = "value" => item > 0,
         told = "pending" => isAsync,
         ~isAsync /\ op = "next" /\ here =>
            ~completed \/ (told = "done" /\ item = 0),
         ~isAsync /\ completed =>
            completed' \/ (here /\ op = "throw" /\ item > 0),
         ~isAsync /\ here /\ (\/ op = "return" /\ told = "done"
                              \/ op = "throw" /\ item = 0) => completed'
  PROVE  GeneratorInv'
<1> DEFINE last == [op |-> op, here |-> here, item |-> item, told |-> told]
           n == Len(calls) + 1
<1>1. /\ isAsync \in BOOLEAN /\ given \in 0..MaxItems
      /\ completed \in BOOLEAN /\ calls \in Seq(Call) /\ MaxItems \in Nat
  BY GeneratorAssumption
  DEF GeneratorInv, GeneratorsKeepProtocol, GeneratorTypes
<1>2. /\ item \in 0..MaxItems /\ item \in Nat
      /\ item = 0 \/ item = given + 1
  BY <1>1 DEF Offers
<1>3. last \in Call
  BY <1>2 DEF Call
<1>4. calls' = Append(calls, last) /\ isAsync' = isAsync
  BY DEF Answer
<1>5. /\ given' \in 0..MaxItems /\ given <= given' /\ item <= given'
      /\ item = 0 => given' = given
      /\ item > 0 => given' = given + 1 /\ item = given'
  BY <1>1, <1>2 DEF Answer
<1> HIDE DEF last
<1>6. /\ calls' \in Seq(Call) /\ Len(calls) \in Nat /\ Len(calls') = n
      /\ DOMAIN calls = 1..Len(calls) /\ DOMAIN calls' = 1..n
      /\ \A i \in DOMAIN calls : calls'[i] = calls[i]
      /\ calls'[n] = last
  BY <1>1, <1>3, <1>4, OneCallMore
<1>7. /\ last.op = op /\ last.here = here /\ last.item = item
      /\ last.told = told
  BY DEF last
<1>8. /\ n \in Nat /\ n \in DOMAIN calls'
      /\ \A i \in DOMAIN calls' : i = n \/ i \in DOMAIN calls
      /\ \A i \in DOMAIN calls : i < n /\ i \in DOMAIN calls' /\ i \in Nat
      /\ \A i, j \in DOMAIN calls' : i < j => i \in DOMAIN calls
  <2>1. n \in Nat /\ n = Len(calls) + 1 /\ Len(calls) \in Nat
    BY <1>6
  <2> HIDE DEF n
  <2>2. /\ n \in 1..n
        /\ \A i \in 1..n : i = n \/ i \in 1..Len(calls)
        /\ \A i \in 1..Len(calls) : i < n /\ i \in 1..n /\ i \in Nat
        /\ \A i, j \in 1..n : i < j => i \in 1..Len(calls)
    BY <2>1
  <2>3. DOMAIN calls = 1..Len(calls) /\ DOMAIN calls' = 1..n
    BY <1>6
  <2> QED
    BY <2>1, <2>2, <2>3
<1>9. \A i \in DOMAIN calls : calls[i].item \in Nat /\ calls[i].item <= given
  <2> SUFFICES ASSUME NEW i \in DOMAIN calls
               PROVE  calls[i].item \in Nat /\ calls[i].item <= given
    OBVIOUS
  <2>1. calls[i] \in Call
    BY <1>1, <1>6
  <2>2. calls[i].item \in Nat
    BY <1>1, <2>1 DEF Call
  <2> QED
    BY <2>2 DEF GeneratorInv
<1> HIDE DEF n
<1>10. GeneratorTypes'
  BY <1>1, <1>4, <1>5, <1>6 DEF GeneratorTypes
<1>11. ItemsArrive'
  <2>1. ASSUME NEW i \in DOMAIN calls', NEW j \in DOMAIN calls', i < j,
               calls'[i].item > 0, calls'[j].item > 0
        PROVE  calls'[i].item < calls'[j].item
    <3>1. i \in DOMAIN calls /\ calls'[i] = calls[i]
      BY <1>6, <1>8, <2>1
    <3>2. CASE j = n
      BY <1>1, <1>5, <1>6, <1>7, <1>9, <2>1, <3>1, <3>2
    <3>3. CASE j \in DOMAIN calls
      BY <1>6, <2>1, <3>1, <3>3
      DEF GeneratorInv, GeneratorsKeepProtocol, ItemsArrive
    <3> QED
      BY <1>8, <3>2, <3>3
  <2>2. ASSUME NEW x \in 1..given'
        PROVE  \E i \in DOMAIN calls' : calls'[i].item = x
    <3>1. x \in 1..given \/ (item > 0 /\ x = item)
      BY <1>1, <1>2, <1>5
    <3>2. CASE x \in 1..given
      <4>1. PICK i \in DOMAIN calls : calls[i].item = x
        BY <3>2 DEF GeneratorInv, GeneratorsKeepProtocol, ItemsArrive
      <4> QED
        BY <1>6, <1>8, <4>1
    <3>3. CASE item > 0 /\ x = item
      BY <1>6, <1>7, <1>8, <3>3
    <3> QED
      BY <3>1, <3>2, <3>3
  <2>3. ASSUME NEW i \in DOMAIN calls'
        PROVE  /\ calls'[i].item > 0 /\ calls'[i].told = "done"
                     => calls'[i].op = "return"
               /\ calls'[i].item = 0 /\ calls'[i].told = "value"
                     => isAsync' /\ calls'[i].op = "throw"
    <3>1. CASE i = n
      BY <1>2, <1>6, <1>7, <3>1
    <3>2. CASE i \in DOMAIN calls
      BY <1>4, <1>6, <3>2
      DEF GeneratorInv, GeneratorsKeepProtocol, ItemsArrive
    <3> QED
      BY <1>8, <3>1, <3>2
  <2> QED
    BY <2>1, <2>2, <2>3 DEF ItemsArrive
<1>12. \A i \in DOMAIN calls :
          /\ Closes(calls'[i]) = Closes(calls[i])
          /\ Reopens(calls'[i]) = Reopens(calls[i])
  BY <1>6
<1>13. ClosedHasNoMore'
  <2> SUFFICES ASSUME ~isAsync, NEW i \in DOMAIN calls',
                      NEW j \in DOMAIN calls', i < j, Closes(calls'[i]),
                      calls'[j].op = "next", calls'[j].here
               PROVE  \/ calls'[j].told = "done" /\ calls'[j].item = 0
                      \/ \E k \in (i + 1)..(j - 1) : Reopens(calls'[k])
    BY <1>4 DEF ClosedHasNoMore
  <2>1. i \in DOMAIN calls /\ Closes(calls[i])
    BY <1>8, <1>12
  <2>2. CASE j = n
    <3>1. CASE completed
      BY <1>6, <1>7, <2>2, <3>1
    <3>2. CASE ~completed
      <4>1. PICK k \in (i + 1)..Len(calls) : Reopens(calls[k])
        BY <2>1, <3>2 DEF GeneratorInv, StaysClosed
      <4>2. k \in DOMAIN calls /\ k \in (i + 1)..(j - 1)
        BY <1>6, <2>1, <2>2, <4>1 DEF n
      <4> QED
        BY <1>12, <4>1, <4>2
    <3> QED
      BY <3>1, <3>2
  <2>3. CASE j \in DOMAIN calls
    <3>1. /\ calls'[j] = calls[j]
          /\ \A k \in (i + 1)..(j - 1) : k \in DOMAIN calls
      BY <1>6, <2>1, <2>3
    <3>2. \/ calls[j].told = "done" /\ calls[j].item = 0
          \/ \E k \in (i + 1)..(j - 1) : Reopens(calls[k])
      BY <2>1, <2>3, <3>1
      DEF GeneratorInv, GeneratorsKeepProtocol, ClosedHasNoMore
    <3> QED
      BY <1>12, <3>1, <3>2
  <2> QED
    BY <1>8, <2>2, <2>3
<1>14. StaysClosed'
  <2> SUFFICES ASSUME ~isAsync, NEW i \in DOMAIN calls', Closes(calls'[i])
               PROVE  \/ completed'
                      \/ \E k \in (i + 1)..Len(calls') : Reopens(calls'[k])
    BY <1>4 DEF StaysClosed
  <2>1. CASE i = n
    BY <1>6, <1>7, <2>1 DEF Closes
  <2>2. CASE i \in DOMAIN calls
    <3>1. \/ completed
          \/ \E k \in (i + 1)..Len(calls) : Reopens(calls[k])
      BY <1>12, <2>2 DEF GeneratorInv, StaysClosed
    <3>2. CASE completed
      <4>1. completed' \/ Reopens(calls'[n])
        BY <1>6, <1>7, <3>2 DEF Reopens
      <4>2. n \in (i + 1)..Len(calls')
        BY <1>6, <1>8, <2>2
      <4> QED
        BY <4>1, <4>2
    <3>3. CASE \E k \in (i + 1)..Len(calls) : Reopens(calls[k])
      <4>1. PICK k \in (i + 1)..Len(calls) : Reopens(calls[k])
        BY <3>3
      <4>2. k \in DOMAIN calls /\ k \in (i + 1)..Len(calls')
        BY <1>6, <2>2, <4>1 DEF n
      <4> QED
        BY <1>12, <4>1, <4>2
    <3> QED
      BY <3>1, <3>2, <3>3
  <2> QED
    BY <1>8, <2>1, <2>2
<1>15. \A i \in DOMAIN calls' : calls'[i].item <= given'
  <2> SUFFICES ASSUME NEW i \in DOMAIN calls' PROVE calls'[i].item <= given'
    OBVIOUS
  <2>1. CASE i = n
    BY <1>5, <1>6, <1>7, <2>1
  <2>2. CASE i \in DOMAIN calls
    BY <1>1, <1>5, <1>6, <1>9, <2>2
  <2> QED
    BY <1>8, <2>1, <2>2
<1>16. \A i \in DOMAIN calls' : calls'[i].told = "pending" => isAsync'
  BY <1>4, <1>6, <1>7, <1>8 DEF GeneratorInv
<1> QED
  BY <1>10, <1>11, <1>13, <1>14, <1>15, <1>16
  DEF GeneratorInv, GeneratorsKeepProtocol

(* The future of a call of an AsyncGenerator ends.                         *)
LEMMA SettleKeeps ==
  ASSUME GeneratorInv, Settle
  PROVE  GeneratorInv'
<1>1. PICK i \in DOMAIN calls :
         /\ calls[i].told = "pending"
         /\ \E told \in {Settlement(calls[i]), "rejected"} :
               calls' = [calls EXCEPT ![i].told = told]
  BY DEF Settle
<1>2. PICK told \in {Settlement(calls[i]), "rejected"} :
         calls' = [calls EXCEPT ![i].told = told]
  BY <1>1
<1>3. /\ calls \in Seq(Call) /\ isAsync
      /\ isAsync' = isAsync /\ given' = given /\ completed' = completed
  BY <1>1
  DEF Settle, GeneratorInv, GeneratorsKeepProtocol, GeneratorTypes
<1>4. calls[i] \in Call /\ calls[i].op \in {"next", "return", "throw"}
      /\ calls[i].item \in Nat
  <2>1. calls[i] \in Call
    BY <1>1, <1>3
  <2> QED
    BY <2>1, GeneratorAssumption DEF Call
<1>5. /\ told \in {"value", "done", "rejected"}
      /\ told = "done" /\ calls[i].item > 0 => calls[i].op = "return"
      /\ told = "value" /\ calls[i].item = 0 => calls[i].op = "throw"
  BY <1>2, <1>4 DEF Settlement
<1> DEFINE last == [calls[i] EXCEPT !.told = told]
<1>6. /\ last \in Call /\ last.told = told /\ last.op = calls[i].op
      /\ last.item = calls[i].item
  BY <1>4, <1>5 DEF Call
<1>7. /\ calls' \in Seq(Call) /\ DOMAIN calls' = DOMAIN calls
      /\ calls'[i] = last
      /\ \A j \in DOMAIN calls : j # i => calls'[j] = calls[j]
  BY <1>2, <1>3, <1>6
<1> HIDE DEF last
<1>8. \A j \in DOMAIN calls : /\ calls'[j].item = calls[j].item
                              /\ calls'[j].op = calls[j].op
  BY <1>6, <1>7
<1>9. ItemsArrive'
  <2>1. ItemsArrive
    BY DEF GeneratorInv, GeneratorsKeepProtocol
  <2>2. \A j \in DOMAIN calls :
           /\ calls'[j].item > 0 /\ calls'[j].told = "done"
                => calls'[j].op = "return"
           /\ calls'[j].item = 0 /\ calls'[j].told = "value"
                => calls'[j].op = "throw"
    BY <1>5, <1>6, <1>7, <2>1 DEF ItemsArrive
  <2> QED
    BY <1>3, <1>7, <1>8, <2>1, <2>2 DEF ItemsArrive
<1>10. GeneratorTypes'
  BY <1>3, <1>7 DEF GeneratorInv, GeneratorsKeepProtocol, GeneratorTypes
<1> QED
  BY <1>3, <1>7, <1>8, <1>9, <1>10
  DEF GeneratorInv, GeneratorsKeepProtocol, ClosedHasNoMore, StaysClosed

(* Every call of JavaScript, and every future, keeps the invariant.        *)
LEMMA GeneratorStep ==
  GeneratorInv /\ [GeneratorNext]_generator => GeneratorInv'
<1> SUFFICES ASSUME GeneratorInv, [GeneratorNext]_generator
             PROVE  GeneratorInv'
  OBVIOUS
<1>1. /\ isAsync \in BOOLEAN /\ completed \in BOOLEAN /\ 0 \in Offers
      /\ Offers \subseteq Nat
  <2>1. /\ isAsync \in BOOLEAN /\ completed \in BOOLEAN
        /\ given \in 0..MaxItems
    BY DEF GeneratorInv, GeneratorsKeepProtocol, GeneratorTypes
  <2>2. given \in Nat
    BY <2>1, GeneratorAssumption
  <2>3. 0 \in Offers /\ Offers \subseteq Nat
    BY <2>2 DEF Offers
  <2> QED
    BY <2>1, <2>3
<1>2. CASE NextCompleted
  <2>1. /\ Answer("next", TRUE, 0, "done") /\ completed /\ ~isAsync
        /\ completed' = completed
    BY <1>2 DEF NextCompleted
  <2>2. completed' /\ completed' \in BOOLEAN
    BY <1>1, <2>1
  <2>3. PICK item \in Offers : item = 0
    BY <1>1
  <2>4. Answer("next", TRUE, item, "done")
    BY <2>1, <2>3, Zenon
  <2>5. ~(item > 0)
    BY <2>3
  <2> QED
    BY <2>1, <2>2, <2>3, <2>4, <2>5, AnswerKeeps
<1>3. CASE NextOfT
  <2>1. PICK here \in BOOLEAN, item \in Offers :
           /\ here => ~completed
           /\ \E told \in Shown(item) \cup {"threw"} :
                 /\ ~here => told = "threw"
                 /\ Answer("next", here, item, told)
    BY <1>3 DEF NextOfT
  <2>2. PICK told \in Shown(item) \cup {"threw"} :
           Answer("next", here, item, told)
    BY <2>1
  <2>3. /\ told \in {"value", "done", "threw"}
        /\ item > 0 => told # "done"
        /\ told = "value" => item > 0
    BY <1>1 DEF Shown
  <2> QED
    BY <1>1, <1>3, <2>1, <2>2, <2>3, AnswerKeeps DEF NextOfT
<1>4. CASE ReturnRefused
  BY <1>1, <1>4, AnswerKeeps DEF ReturnRefused
<1>5. CASE Complete
  <2>1. PICK here \in BOOLEAN, item \in Offers :
           /\ Answer("return", here, item, "done")
           /\ completed' = (completed \/ here)
    BY <1>5 DEF Complete
  <2> QED
    BY <1>1, <1>5, <2>1, AnswerKeeps DEF Complete
<1>6. CASE Throw
  <2>1. PICK here \in BOOLEAN, item \in Offers :
           /\ \E told \in Shown(item) \cup {"threw"} :
                 Answer("throw", here, item, told)
           /\ completed' = IF here THEN item = 0 ELSE completed
    BY <1>6 DEF Throw
  <2>2. PICK told \in Shown(item) \cup {"threw"} :
           Answer("throw", here, item, told)
    BY <2>1
  <2>3. /\ told \in {"value", "done", "threw"}
        /\ item > 0 => told # "done"
        /\ told = "value" => item > 0
        /\ item \in Nat
    BY <1>1 DEF Shown
  <2>4. /\ here => (completed' <=> item = 0)
        /\ ~here => (completed' <=> completed)
        /\ completed' \in BOOLEAN
    <3>1. CASE here
      <4>1. completed' = (item = 0)
        BY <2>1, <3>1
      <4> QED
        BY <3>1, <4>1
    <3>2. CASE ~here
      BY <1>1, <2>1, <3>2
    <3> QED
      BY <3>1, <3>2
  <2>5. CASE item = 0
    BY <1>1, <1>6, <2>2, <2>3, <2>4, <2>5, AnswerKeeps DEF Throw
  <2>6. CASE item > 0
    BY <1>1, <1>6, <2>2, <2>3, <2>4, <2>6, AnswerKeeps DEF Throw
  <2> QED
    BY <2>3, <2>5, <2>6
<1>7. CASE NextAsync
  <2>1. PICK item \in Offers, told \in {"pending", "threw"} :
           Answer("next", TRUE, item, told)
    BY <1>7 DEF NextAsync
  <2> QED
    BY <1>1, <1>7, <2>1, AnswerKeeps DEF NextAsync
<1>8. CASE ReturnAsync
  <2>1. PICK item \in Offers, told \in {"pending", "threw"} :
           Answer("return", TRUE, item, told)
    BY <1>1, <1>8 DEF ReturnAsync
  <2> QED
    BY <1>1, <1>8, <2>1, AnswerKeeps DEF ReturnAsync
<1>9. CASE ThrowAsync
  <2>1. PICK item \in Offers : Answer("throw", TRUE, item, "pending")
    BY <1>9 DEF ThrowAsync
  <2> QED
    BY <1>1, <1>9, <2>1, AnswerKeeps DEF ThrowAsync
<1>10. CASE Settle
  BY <1>10, SettleKeeps
<1>11. CASE UNCHANGED generator
  BY <1>11
  DEF generator, GeneratorInv, GeneratorsKeepProtocol, GeneratorTypes,
      ItemsArrive, ClosedHasNoMore, StaysClosed
<1> QED
  BY <1>2, <1>3, <1>4, <1>5, <1>6, <1>7, <1>8, <1>9, <1>10, <1>11
  DEF GeneratorNext

(* However many items T has and JavaScript asks for, in whatever order its *)
(* calls and the futures come: items keep their order, none is lost        *)
(* silently, and what was closed gives no more until T handles a throw.    *)
THEOREM ProtocolIsKept == GeneratorSpec => []GeneratorsKeepProtocol
<1>1. GeneratorInit => GeneratorInv
  <2> SUFFICES ASSUME GeneratorInit PROVE GeneratorInv
    OBVIOUS
  <2>1. /\ calls = <<>> /\ calls \in Seq(Call) /\ DOMAIN calls = {}
        /\ given = 0 /\ 1..given = {} /\ given \in 0..MaxItems
    BY GeneratorAssumption DEF GeneratorInit
  <2> QED
    BY <2>1 DEF GeneratorInit, GeneratorInv, GeneratorsKeepProtocol,
                GeneratorTypes, ItemsArrive, ClosedHasNoMore, StaysClosed
<1>2. GeneratorInv => GeneratorsKeepProtocol
  BY DEF GeneratorInv
<1> QED
  BY <1>1, <1>2, GeneratorStep, PTL DEF GeneratorSpec

-----------------------------------------------------------------------------
(* Calls between JavaScript and Rust.  The references that Errors have are *)
(* counted: when one Error changes, by how often the reference is in its   *)
(* chain of causes before and after.                                       *)

(* A chain of causes is a sequence, of whatever.                           *)
IsChain(chain) == chain \in Seq({chain[k] : k \in DOMAIN chain})

(* Sequences of elements of any set are.                                   *)
LEMMA SeqIsChain ==
  ASSUME NEW S, NEW chain \in Seq(S)
  PROVE  IsChain(chain)
<1>1. /\ DOMAIN chain = 1 .. Len(chain) /\ Len(chain) \in Nat
      /\ chain \in [1 .. Len(chain) -> S]
  BY LenProperties
<1>2. chain \in [1 .. Len(chain) -> {chain[k] : k \in DOMAIN chain}]
  BY <1>1
<1> QED
  BY <1>1, <1>2, SeqDef DEF IsChain

(* Two of them are sequences of the elements of one set.                   *)
LEMMA CommonChains ==
  ASSUME NEW a, NEW b, IsChain(a), IsChain(b)
  PROVE  \E S : a \in Seq(S) /\ b \in Seq(S)
<1> DEFINE A == {a[k] : k \in DOMAIN a}
           B == {b[k] : k \in DOMAIN b}
<1>1. a \in Seq(A) /\ b \in Seq(B)
  BY DEF IsChain
<1> HIDE DEF A, B
<1>2. a \in Seq(A \cup B) /\ b \in Seq(A \cup B)
  BY <1>1, SeqMonotonic
<1> QED
  BY <1>2

(* The numbers of positions in chains are numbers.                         *)
LEMMA TimesType ==
  ASSUME NEW chain, IsChain(chain), NEW r
  PROVE  /\ IsFiniteSet(Positions(r, chain))
         /\ Times(r, chain) \in Nat
         /\ Positions(r, chain) \subseteq 1 .. Len(chain)
         /\ Len(chain) \in Nat /\ DOMAIN chain = 1 .. Len(chain)
<1>1. Len(chain) \in Nat /\ DOMAIN chain = 1 .. Len(chain)
  BY LenProperties DEF IsChain
<1>2. Positions(r, chain) \in SUBSET (1 .. Len(chain))
  BY <1>1 DEF Positions
<1>3. IsFiniteSet(1 .. Len(chain))
  BY <1>1, FS_Interval
<1>4. IsFiniteSet(Positions(r, chain))
  BY <1>2, <1>3, FS_Subset
<1> QED
  BY <1>1, <1>2, <1>4, FS_CardinalityType DEF Times

(* A reference is in two chains, put after each other, as often as in each *)
(* of them.                                                                *)
LEMMA TimesOfConcat ==
  ASSUME NEW a, NEW b, IsChain(a), IsChain(b), NEW r
  PROVE  IsChain(a \o b) /\ Times(r, a \o b) = Times(r, a) + Times(r, b)
<1> DEFINE P == Positions(r, a)
           Q == Positions(r, b)
           n == Len(a)
           Shifted == {k + n : k \in Q}
<1>1. PICK S : a \in Seq(S) /\ b \in Seq(S)
  BY CommonChains
<1>2. /\ a \o b \in Seq(S) /\ Len(a \o b) = Len(a) + Len(b)
      /\ \A i \in 1 .. Len(a) + Len(b) :
            (a \o b)[i] = IF i <= Len(a) THEN a[i] ELSE b[i - Len(a)]
  BY <1>1, ConcatProperties
<1>3. IsChain(a \o b)
  BY <1>2, SeqIsChain
<1>4. /\ DOMAIN (a \o b) = 1 .. Len(a) + Len(b)
      /\ DOMAIN a = 1 .. Len(a) /\ DOMAIN b = 1 .. Len(b)
      /\ Len(a) \in Nat /\ Len(b) \in Nat
  BY <1>1, <1>2, LenProperties
<1>5. /\ IsFiniteSet(P) /\ IsFiniteSet(Q) /\ P \subseteq 1 .. n
      /\ Q \subseteq 1 .. Len(b)
  BY TimesType
<1>6. Positions(r, a \o b) = P \cup Shifted
  <2>1. ASSUME NEW k \in Positions(r, a \o b)
        PROVE  k \in P \cup Shifted
    <3>1. k \in 1 .. Len(a) + Len(b) /\ (a \o b)[k].raw = r
      BY <1>4 DEF Positions
    <3>2. CASE k <= Len(a)
      BY <1>2, <1>4, <3>1, <3>2 DEF Positions
    <3>3. CASE ~ k <= Len(a)
      <4>1. k - n \in 1 .. Len(b) /\ b[k - n].raw = r /\ k = (k - n) + n
        BY <1>2, <1>4, <3>1, <3>3
      <4> QED
        BY <1>4, <4>1 DEF Positions
    <3> QED
      BY <3>2, <3>3
  <2>2. ASSUME NEW k \in P
        PROVE  k \in Positions(r, a \o b)
    BY <1>2, <1>4 DEF Positions
  <2>3. ASSUME NEW k \in Q
        PROVE  k + n \in Positions(r, a \o b)
    <3>1. k \in 1 .. Len(b) /\ b[k].raw = r
      BY <1>4 DEF Positions
    <3>2. k + n \in 1 .. Len(a) + Len(b) /\ ~ k + n <= Len(a)
          /\ (k + n) - Len(a) = k
      BY <1>4, <3>1
    <3>3. (a \o b)[k + n] = b[k]
      BY <1>2, <3>2
    <3> QED
      BY <1>4, <3>1, <3>2, <3>3 DEF Positions
  <2> QED
    BY <2>1, <2>2, <2>3
<1>7. IsFiniteSet(Shifted) /\ Cardinality(Shifted) = Cardinality(Q)
  <2> DEFINE f == [k \in Q |-> k + n]
  <2>1. f \in Bijection(Q, Shifted)
    <3>1. f \in [Q -> Shifted]
      OBVIOUS
    <3>2. \A x, y \in Q : f[x] = f[y] => x = y
      BY <1>4, <1>5
    <3>3. \A t \in Shifted : \E x \in Q : f[x] = t
      OBVIOUS
    <3> QED
      BY <3>1, <3>2, <3>3 DEF Bijection, Injection, Surjection, IsInjective
  <2> QED
    BY <1>5, <2>1, FS_Bijection DEF ExistsBijection
<1>8. P \cap Shifted = {}
  BY <1>4, <1>5
<1> HIDE DEF P, Q, Shifted
<1>9. Cardinality(P \cup Shifted)
        = Cardinality(P) + Cardinality(Shifted) - Cardinality(P \cap Shifted)
  BY <1>5, <1>7, FS_Union
<1>10. Cardinality(P) \in Nat /\ Cardinality(Q) \in Nat
  BY <1>5, FS_CardinalityType
<1>11. Cardinality(P \cup Shifted) = Cardinality(P) + Cardinality(Q)
  <2>1. Cardinality(P \cap Shifted) = 0
    BY <1>8, FS_EmptySet
  <2> QED
    BY <1>7, <1>9, <1>10, <2>1
<1>12. Cardinality(P) = Times(r, a) /\ Cardinality(Q) = Times(r, b)
  BY DEF Times, P, Q
<1> QED
  BY <1>3, <1>6, <1>11, <1>12 DEF Times

(* An Error by itself has its reference, if any, once; one that has none   *)
(* to begin with nothing.                                                  *)
LEMMA TimesOfOne ==
  ASSUME NEW x, NEW r
  PROVE  /\ IsChain(<<x>>)
         /\ Times(r, <<x>>) = IF x.raw = r THEN 1 ELSE 0
         /\ IsChain(<<>>) /\ Times(r, <<>>) = 0
<1>1. /\ <<x>> \in Seq({x}) /\ Len(<<x>>) = 1 /\ DOMAIN <<x>> = {1}
      /\ <<x>>[1] = x
  OBVIOUS
<1>2. Positions(r, <<x>>) = IF x.raw = r THEN {1} ELSE {}
  BY <1>1 DEF Positions
<1>3. <<>> \in Seq({x}) /\ Positions(r, <<>>) = {}
  BY DEF Positions
<1>4. Cardinality({1}) = 1 /\ Cardinality({}) = 0
  BY FS_Singleton, FS_EmptySet
<1> QED
  BY <1>1, <1>2, <1>3, <1>4, SeqIsChain DEF Times

(* What an Error has it has by itself or as its cause.                     *)
LEMMA TimesOfTail ==
  ASSUME NEW chain, IsChain(chain), chain # <<>>, NEW r
  PROVE  /\ IsChain(Alone(chain)) /\ IsChain(Tail(chain))
         /\ Times(r, chain) = Times(r, Alone(chain)) + Times(r, Tail(chain))
         /\ Len(Alone(chain)) = 1 /\ Alone(chain)[1] = chain[1]
         /\ Len(chain) >= 1
<1> DEFINE S == {chain[k] : k \in DOMAIN chain}
<1>1. chain \in Seq(S)
  BY DEF IsChain
<1> HIDE DEF S
<1>2. /\ Tail(chain) \in Seq(S) /\ Head(chain) \in S
      /\ Len(Tail(chain)) = Len(chain) - 1
      /\ \A i \in 1 .. Len(Tail(chain)) : Tail(chain)[i] = chain[i + 1]
  BY <1>1, HeadTailProperties
<1>3. Len(chain) \in Nat \ {0} /\ Head(chain) = chain[1]
  BY <1>1, EmptySeq
<1>4. /\ Alone(chain) \in Seq(S) /\ Len(Alone(chain)) = 1
      /\ Alone(chain)[1] = chain[1]
  BY <1>2, <1>3 DEF Alone
<1>5. chain = Alone(chain) \o Tail(chain)
  <2> DEFINE both == Alone(chain) \o Tail(chain)
  <2>1. /\ both \in Seq(S) /\ Len(both) = 1 + Len(Tail(chain))
        /\ \A i \in 1 .. 1 + Len(Tail(chain)) :
              both[i] = IF i <= 1 THEN Alone(chain)[i] ELSE Tail(chain)[i - 1]
    <3> DEFINE one == Alone(chain)
               rest == Tail(chain)
    <3>1. one \in Seq(S) /\ rest \in Seq(S) /\ Len(one) = 1
      BY <1>2, <1>4
    <3> HIDE DEF one, rest
    <3>2. /\ one \o rest \in Seq(S)
          /\ Len(one \o rest) = Len(one) + Len(rest)
          /\ \A i \in 1 .. Len(one) + Len(rest) :
                (one \o rest)[i] = IF i <= Len(one) THEN one[i]
                                  ELSE rest[i - Len(one)]
      BY <3>1, ConcatProperties
    <3> QED
      BY <3>1, <3>2 DEF one, rest
  <2> HIDE DEF both
  <2>2. \A i \in 1 .. Len(chain) : chain[i] = both[i]
    BY <1>2, <1>3, <1>4, <2>1
  <2> QED
    BY <1>1, <1>2, <1>3, <2>1, <2>2, SeqEqual DEF both
<1>6. IsChain(Alone(chain)) /\ IsChain(Tail(chain))
  BY <1>2, <1>4, SeqIsChain
<1>7. Times(r, Alone(chain) \o Tail(chain))
        = Times(r, Alone(chain)) + Times(r, Tail(chain))
  BY <1>6, TimesOfConcat
<1>8. Times(r, chain) = Times(r, Alone(chain)) + Times(r, Tail(chain))
  BY <1>5, <1>7
<1> QED
  BY <1>3, <1>4, <1>6, <1>8

(* The places of a reference in Errors that have chains of causes are      *)
(* finitely many.                                                          *)
LEMMA HeldFinite ==
  ASSUME NEW held, \A i \in Slots : IsChain(held[i].chain), NEW r
  PROVE  IsFiniteSet(HeldAt(r, held))
<1> DEFINE row == [i \in Slots |-> {i} \X Positions(r, held[i].chain)]
           rows == {row[i] : i \in Slots}
<1>1. IsFiniteSet(Slots)
  BY NativeCallAssumption, FS_Interval DEF Slots
<1>2. IsFiniteSet(rows)
  <2>1. row \in Surjection(Slots, rows)
    BY DEF Surjection
  <2> HIDE DEF row, rows
  <2> QED
    BY <1>1, <2>1, FS_Surjection
<1>3. ASSUME NEW i \in Slots
      PROVE  IsFiniteSet(row[i])
  <2> DEFINE P == Positions(r, held[i].chain)
  <2>1. IsFiniteSet(P)
    BY TimesType
  <2>2. IsFiniteSet({i})
    BY FS_Singleton
  <2> HIDE DEF P
  <2>3. IsFiniteSet({i} \X P)
    BY <2>1, <2>2, FS_Product
  <2> QED
    BY <2>3 DEF P
<1>4. HeldAt(r, held) = UNION rows
  BY DEF HeldAt
<1> HIDE DEF row
<1>5. \A T \in rows : IsFiniteSet(T)
  BY <1>3
<1> HIDE DEF rows
<1> QED
  BY <1>2, <1>4, <1>5, FS_UNION

(* Of the Errors, only one changes.                                        *)
OneChanges(held, next, i) ==
    /\ \A j \in Slots : IsChain(held[j].chain) /\ IsChain(next[j].chain)
    /\ \A j \in Slots \ {i} : next[j].chain = held[j].chain

(* When one Error changes, a reference is held as many times fewer  *)
(* as it was in that one, and as many more as it is now.                   *)
LEMMA RowChange ==
  ASSUME NEW held, NEW next, NEW i \in Slots, NEW r, OneChanges(held, next, i)
  PROVE  /\ Cardinality(HeldAt(r, held)) \in Nat
         /\ Cardinality(HeldAt(r, next)) \in Nat
         /\ Times(r, held[i].chain) \in Nat
         /\ Times(r, next[i].chain) \in Nat
         /\ Times(r, held[i].chain) <= Cardinality(HeldAt(r, held))
         /\ Cardinality(HeldAt(r, next)) = Cardinality(HeldAt(r, held))
               - Times(r, held[i].chain) + Times(r, next[i].chain)
<1> DEFINE Row(e) == {i} \X Positions(r, e[i].chain)
           Rest(e) == HeldAt(r, e) \ Row(e)
<1>1. ASSUME NEW e, \A j \in Slots : IsChain(e[j].chain)
      PROVE  /\ Times(r, e[i].chain) \in Nat
             /\ Cardinality(HeldAt(r, e)) \in Nat
             /\ Cardinality(Rest(e)) \in Nat
             /\ Cardinality(Rest(e))
                  = Cardinality(HeldAt(r, e)) - Times(r, e[i].chain)
  <2> DEFINE H == HeldAt(r, e)
             P == Positions(r, e[i].chain)
             R == {i} \X P
  <2>1. IsFiniteSet(P) /\ Times(r, e[i].chain) \in Nat
    BY <1>1, TimesType
  <2>2. R \subseteq H
    BY DEF HeldAt
  <2>3. IsFiniteSet({i}) /\ Cardinality({i}) = 1
    BY FS_Singleton
  <2>4. IsFiniteSet(H)
    BY <1>1, HeldFinite
  <2>5. Times(r, e[i].chain) = Cardinality(P)
    BY DEF Times
  <2> HIDE DEF H, P
  <2>6. Cardinality(R) = Cardinality({i}) * Cardinality(P)
    BY <2>1, <2>3, FS_Product
  <2> HIDE DEF R
  <2>7. Cardinality(R) = Cardinality(P) /\ Cardinality(P) \in Nat
    BY <2>1, <2>3, <2>6, FS_CardinalityType
  <2>8. /\ Cardinality(H \ R) = Cardinality(H) - Cardinality(H \cap R)
        /\ IsFiniteSet(H \ R)
    BY <2>4, FS_Difference
  <2>9. H \cap R = R
    BY <2>2
  <2>10. Cardinality(H) \in Nat /\ Cardinality(H \ R) \in Nat
    BY <2>4, <2>8, FS_CardinalityType
  <2> QED
    BY <2>1, <2>5, <2>7, <2>8, <2>9, <2>10 DEF H, R, P
<1>2. Rest(held) = Rest(next)
  <2>1. ASSUME NEW e, NEW x
        PROVE  x \in Rest(e) <=> \E j \in Slots \ {i} :
                 x \in {j} \X Positions(r, e[j].chain)
    BY DEF HeldAt
  <2>2. \A x : x \in Rest(held) <=> x \in Rest(next)
    BY <2>1 DEF OneChanges
  <2> QED
    BY <2>2
<1> HIDE DEF Rest
<1> QED
  BY <1>1, <1>2 DEF OneChanges

(* The references are held by the Errors: as many times as they count, and *)
(* those that nothing holds refer to nothing.                              *)
Counts(r, held, entry) ==
    /\ entry \in [value : {entry.value}, count : Nat]
    /\ entry.count = Cardinality(HeldAt(r, held))
    /\ entry.count = 0 <=> entry.value = None

(* What is released is held by nothing more, and what is held still has    *)
(* its value.                                                              *)
LEMMA ReleaseCounts ==
  ASSUME NEW held, NEW next, NEW gone, NEW r \in Refs,
         Counts(r, held, errorRefs[r]),
         Times(r, gone) \in Nat, Times(r, gone) <= errorRefs[r].count,
         Cardinality(HeldAt(r, next)) = errorRefs[r].count - Times(r, gone)
  PROVE  /\ Counts(r, next, Released(gone)[r])
         /\ Released(gone)[r].count # 0 =>
               Released(gone)[r].value = errorRefs[r].value
<1> DEFINE e == errorRefs[r]
           n == Times(r, gone)
<1>1. /\ e \in [value : {e.value}, count : Nat]
      /\ e.count = Cardinality(HeldAt(r, held))
      /\ e.count = 0 <=> e.value = None
  BY DEF Counts
<1>2. Released(gone)[r] = IF e.count = n THEN [value |-> None, count |-> 0]
                          ELSE [e EXCEPT !.count = @ - n]
  BY DEF Released
<1>3. n \in Nat /\ n <= e.count
      /\ Cardinality(HeldAt(r, next)) = e.count - n
  OBVIOUS
<1> HIDE DEF e, n
<1>4. CASE e.count = n
  BY <1>1, <1>2, <1>3, <1>4 DEF Counts
<1>5. CASE e.count # n
  <2>1. Released(gone)[r] = [value |-> e.value, count |-> e.count - n]
    BY <1>1, <1>2, <1>5
  <2>2. e.count - n \in Nat /\ e.count - n # 0 /\ e.count # 0
    BY <1>1, <1>3, <1>5
  <2> QED
    BY <1>1, <1>3, <2>1, <2>2 DEF Counts, e
<1> QED
  BY <1>4, <1>5

(* What the entry of an Error says of it: unless it only tells that an     *)
(* exception is pending, it is one that Rust made, with the reason that it *)
(* was made with, or its reference is to what was thrown, or made of that. *)
Honest(e, entries) ==
    e.status # "PendingException" =>
        LET first == e.chain[1]
            value == entries[first.raw].value
        IN IF first.raw = 0 THEN e.origin = Made(first.reason, None)
           ELSE /\ Same(e.origin, value)
                /\ ~IsError(value) => first.reason = Reason(value)

WellFormed(e) ==
    /\ e \in [status : {e.status}, origin : {e.origin}, chain : {e.chain}]
    /\ IsChain(e.chain)
    /\ \A k \in DOMAIN e.chain : e.chain[k].raw \in Refs \cup {0}

(* The Errors that Rust code holds, and the references that they have      *)
Table(held, entries) ==
    /\ DOMAIN held = Slots /\ DOMAIN entries = Refs
    /\ \A i \in Slots :
          /\ WellFormed(held[i])
          /\ held[i] # NoError =>
                held[i].chain # <<>> /\ Honest(held[i], entries)
    /\ \A r \in Refs : Counts(r, held, entries[r])

(* An Error has a link of its own.                                         *)
LEMMA FirstLink ==
  ASSUME NEW chain, IsChain(chain), chain # <<>>
  PROVE  1 \in DOMAIN chain
<1> DEFINE S == {chain[k] : k \in DOMAIN chain}
<1>1. chain \in Seq(S)
  BY DEF IsChain
<1> HIDE DEF S
<1> QED
  BY <1>1, EmptySeq, LenProperties

(* What an Error has a reference to is counted.                            *)
LEMMA HeldIsCounted ==
  ASSUME NEW held, \A j \in Slots : IsChain(held[j].chain), NEW i \in Slots,
         held[i].chain # <<>>, NEW r, held[i].chain[1].raw = r
  PROVE  Cardinality(HeldAt(r, held)) # 0
<1>1. IsChain(held[i].chain)
  OBVIOUS
<1>2. 1 \in DOMAIN held[i].chain
  BY <1>1, FirstLink
<1>3. <<i, 1>> \in HeldAt(r, held)
  BY <1>2 DEF HeldAt, Positions
<1>4. IsFiniteSet(HeldAt(r, held))
  BY HeldFinite
<1> QED
  BY <1>3, <1>4, FS_EmptySet

(* An Error stays what it is while the references that are held keep their *)
(* values, whoever holds it.                                               *)
LEMMA HonestyCarries ==
  ASSUME Table(errors, errorRefs), NEW held, NEW entries,
         NEW i \in Slots, NEW j \in Slots, errors[j] # NoError,
         \A k \in Slots : WellFormed(held[k]), held[i].chain # <<>>,
         \A r \in Refs : Counts(r, held, entries[r]),
         \A r \in Refs : entries[r].count # 0 /\ errorRefs[r].count # 0 =>
             entries[r].value = errorRefs[r].value,
         held[i].status = errors[j].status, held[i].origin = errors[j].origin,
         held[i].chain[1] = errors[j].chain[1]
  PROVE  Honest(held[i], entries)
<1> DEFINE first == errors[j].chain[1]
<1>1. /\ \A k \in Slots : IsChain(held[k].chain) /\ IsChain(errors[k].chain)
      /\ errors[j].chain # <<>> /\ Honest(errors[j], errorRefs)
  BY DEF Table, WellFormed
<1>2. 1 \in DOMAIN errors[j].chain
  BY <1>1, FirstLink
<1>3. first.raw \in Refs \cup {0}
  BY <1>2 DEF Table, WellFormed
<1>4. CASE first.raw = 0
  BY <1>1, <1>4 DEF Honest
<1>5. CASE first.raw # 0
  <2> DEFINE r == first.raw
  <2>1. r \in Refs
    BY <1>3, <1>5
  <2>2. /\ Cardinality(HeldAt(r, held)) # 0
        /\ Cardinality(HeldAt(r, errors)) # 0
    <3>1. held[i].chain[1].raw = r /\ errors[j].chain[1].raw = r
      OBVIOUS
    <3> HIDE DEF r
    <3> QED
      BY <1>1, <3>1, HeldIsCounted
  <2>3. Counts(r, held, entries[r]) /\ Counts(r, errors, errorRefs[r])
    BY <2>1 DEF Table
  <2>4. entries[r].value = errorRefs[r].value
    BY <2>1, <2>2, <2>3 DEF Counts
  <2> QED
    BY <1>1, <1>5, <2>4 DEF Honest
<1> QED
  BY <1>4, <1>5

(* What is caught of an Error is what was thrown.                          *)
LEMMA IntoValueIsSame ==
  ASSUME NEW i \in Slots, Table(errors, errorRefs), errors[i] # NoError,
         errors[i].status # "PendingException"
  PROVE  Same(errors[i].origin, IntoValue(errors[i]))
<1> DEFINE e == errors[i]
           first == e.chain[1]
           value == errorRefs[first.raw].value
<1>1. Honest(e, errorRefs)
  BY DEF Table
<1>2. IF first.raw = 0 THEN e.origin = Made(first.reason, None)
      ELSE /\ Same(e.origin, value)
           /\ ~IsError(value) => first.reason = Reason(value)
  BY <1>1 DEF Honest
<1>3. IntoValue(e) = IF first.raw # 0 /\ IsError(value) THEN value
                     ELSE Made(first.reason, CauseValue(e.chain))
  BY DEF IntoValue
<1> DEFINE c == CauseValue(e.chain)
           o == e.origin
           w == first.reason
<1>4. CASE first.raw = 0
  <2>1. IntoValue(e) = Made(w, c) /\ o = Made(w, None)
    BY <1>2, <1>3, <1>4
  <2> HIDE DEF c, o, w, e
  <2> QED
    BY <2>1 DEF Same, Made, e, o
<1>5. CASE first.raw # 0 /\ IsError(value)
  BY <1>2, <1>3, <1>5
<1>6. CASE first.raw # 0 /\ ~IsError(value)
  <2>1. IntoValue(e) = Made(w, c) /\ Same(o, value) /\ w = Reason(value)
    BY <1>2, <1>3, <1>6
  <2>2. ~IsError(value)
    BY <1>6
  <2> HIDE DEF c, o, w, e, value
  <2> QED
    BY <2>1, <2>2 DEF Same, Made, IsError, e, o
<1> QED
  BY <1>4, <1>5, <1>6

(* There is no reference in a place where there is no Error.               *)
LEMMA NoErrorIsEmpty ==
  /\ WellFormed(NoError) /\ IsChain(NoError.chain)
  /\ NoError.chain = <<>> /\ \A r : Times(r, NoError.chain) = 0
<1>1. /\ NoError.chain = <<>> /\ DOMAIN <<>> = {}
      /\ NoError \in [status : {NoError.status}, origin : {NoError.origin},
                       chain : {NoError.chain}]
  BY DEF NoError
<1>2. IsChain(<<>>) /\ \A r : Times(r, <<>>) = 0
  BY TimesOfOne
<1> QED
  BY <1>1, <1>2 DEF WellFormed

(* An Error goes to a place where there was none, and each reference is    *)
(* counted as often as it has it.                                          *)
KeptAs(e, i, held, entries) ==
    /\ DOMAIN held = Slots /\ held[i] = e /\ errors[i] = NoError
    /\ \A j \in Slots \ {i} : held[j] = errors[j]
    /\ DOMAIN entries = Refs
    /\ \A r \in Refs :
          /\ entries[r] \in [value : {entries[r].value}, count : Nat]
          /\ entries[r].count = errorRefs[r].count + Times(r, e.chain)
          /\ entries[r].count = 0 <=> entries[r].value = None
          /\ entries[r].count # 0 /\ errorRefs[r].count # 0 =>
                entries[r].value = errorRefs[r].value

(* An Error is told as it is, or like one that is held.                    *)
Told(e, entries) ==
    \/ Honest(e, entries)
    \/ \E j \in Slots :
          /\ errors[j] # NoError /\ e.status = errors[j].status
          /\ e.origin = errors[j].origin /\ e.chain[1] = errors[j].chain[1]

(* An Error that is made and kept                                          *)
LEMMA KeepStep ==
  ASSUME Table(errors, errorRefs), NEW e, NEW i \in Slots,
         NEW held, NEW entries, WellFormed(e), e.chain # <<>>,
         KeptAs(e, i, held, entries), Told(e, entries)
  PROVE  Table(held, entries)
<1>1. /\ DOMAIN held = Slots /\ held[i] = e /\ errors[i] = NoError
      /\ \A j \in Slots \ {i} : held[j] = errors[j]
      /\ DOMAIN entries = Refs
  BY DEF KeptAs
<1>2. \A j \in Slots : WellFormed(held[j]) /\ WellFormed(errors[j])
  BY <1>1 DEF Table
<1>3. OneChanges(errors, held, i)
  BY <1>1, <1>2 DEF OneChanges, WellFormed
<1>4. ASSUME NEW r \in Refs
      PROVE  Counts(r, held, entries[r])
  <2>1. /\ Cardinality(HeldAt(r, errors)) \in Nat
        /\ Times(r, errors[i].chain) \in Nat
        /\ Times(r, held[i].chain) \in Nat
        /\ Times(r, errors[i].chain) <= Cardinality(HeldAt(r, errors))
        /\ Cardinality(HeldAt(r, held)) = Cardinality(HeldAt(r, errors))
             - Times(r, errors[i].chain) + Times(r, held[i].chain)
    BY <1>3, RowChange
  <2>2. Times(r, errors[i].chain) = 0 /\ held[i].chain = e.chain
    BY <1>1, NoErrorIsEmpty
  <2>3. errorRefs[r].count = Cardinality(HeldAt(r, errors))
    BY DEF Table, Counts
  <2>4. /\ entries[r] \in [value : {entries[r].value}, count : Nat]
        /\ entries[r].count = errorRefs[r].count + Times(r, e.chain)
        /\ entries[r].count = 0 <=> entries[r].value = None
    BY DEF KeptAs
  <2>5. entries[r].count = Cardinality(HeldAt(r, held))
    BY <2>1, <2>2, <2>3, <2>4
  <2> QED
    BY <2>4, <2>5 DEF Counts
<1>5. \A r \in Refs : entries[r].count # 0 /\ errorRefs[r].count # 0 =>
          entries[r].value = errorRefs[r].value
  BY DEF KeptAs
<1>6. ASSUME NEW j \in Slots, held[j] # NoError
      PROVE  held[j].chain # <<>> /\ Honest(held[j], entries)
  <2>1. ASSUME NEW k \in Slots, errors[k] # NoError, held[j].chain # <<>>,
               held[j].status = errors[k].status,
               held[j].origin = errors[k].origin,
               held[j].chain[1] = errors[k].chain[1]
        PROVE  Honest(held[j], entries)
    BY <1>2, <1>4, <1>5, <2>1, HonestyCarries
  <2>2. CASE j # i
    BY <1>1, <1>6, <2>1, <2>2 DEF Table
  <2>3. CASE j = i
    BY <1>1, <2>1, <2>3 DEF Told
  <2> QED
    BY <2>2, <2>3
<1> QED
  BY <1>1, <1>2, <1>4, <1>6 DEF Table

(* An Error that is dropped, or ends where it is thrown or given away.     *)
LEMMA DropStep ==
  ASSUME Table(errors, errorRefs), NEW i \in Slots,
         NEW held, DOMAIN held = Slots, held[i] = NoError,
         \A j \in Slots \ {i} : held[j] = errors[j],
         NEW entries, entries = Released(errors[i].chain)
  PROVE  Table(held, entries)
<1> DEFINE gone == errors[i].chain
<1>1. /\ DOMAIN held = Slots /\ held[i] = NoError
      /\ \A j \in Slots \ {i} : held[j] = errors[j]
  BY DEF Table
<1>2. /\ \A j \in Slots : WellFormed(held[j]) /\ WellFormed(errors[j])
      /\ OneChanges(errors, held, i)
  BY <1>1, NoErrorIsEmpty DEF Table, WellFormed, OneChanges
<1>3. ASSUME NEW r \in Refs
      PROVE  /\ Counts(r, held, entries[r])
             /\ entries[r].count # 0 =>
                   entries[r].value = errorRefs[r].value
  <2>1. /\ Cardinality(HeldAt(r, errors)) \in Nat
        /\ Times(r, gone) \in Nat
        /\ Times(r, gone) <= Cardinality(HeldAt(r, errors))
        /\ Cardinality(HeldAt(r, held)) = Cardinality(HeldAt(r, errors))
             - Times(r, gone) + Times(r, held[i].chain)
    BY <1>2, RowChange
  <2>2. Times(r, held[i].chain) = 0
    BY <1>1, NoErrorIsEmpty
  <2>3. /\ errorRefs[r].count = Cardinality(HeldAt(r, errors))
        /\ Counts(r, errors, errorRefs[r])
    BY DEF Table, Counts
  <2> HIDE DEF gone
  <2>4. /\ Times(r, gone) <= errorRefs[r].count
        /\ Cardinality(HeldAt(r, held)) = errorRefs[r].count - Times(r, gone)
    BY <2>1, <2>2, <2>3
  <2>5. /\ Counts(r, held, Released(gone)[r])
        /\ Released(gone)[r].count # 0 =>
              Released(gone)[r].value = errorRefs[r].value
    BY <2>1, <2>3, <2>4, ReleaseCounts
  <2> QED
    BY <2>5 DEF gone
<1>4. ASSUME NEW j \in Slots, held[j] # NoError
      PROVE  held[j].chain # <<>> /\ Honest(held[j], entries)
  <2>1. j # i /\ held[j] = errors[j] /\ held[j].chain # <<>>
    BY <1>1, <1>4 DEF Table
  <2> QED
    BY <1>2, <1>3, <1>4, <2>1, HonestyCarries
<1>5. DOMAIN entries = Refs
  BY DEF Released
<1> QED
  BY <1>1, <1>2, <1>3, <1>4, <1>5 DEF Table

(* An Error that becomes the cause of another, instead of what was         *)
Linked(held, i, j) ==
    /\ DOMAIN held = Slots /\ held[j] = NoError
    /\ held[i] = [status |-> errors[i].status, origin |-> errors[i].origin,
                  chain |-> Alone(errors[i].chain) \o errors[j].chain]
    /\ \A k \in Slots \ {i, j} : held[k] = errors[k]

(* The links of two chains, put after each other, are links of either.     *)
LEMMA RawsOfConcat ==
  ASSUME NEW a, NEW b, IsChain(a), IsChain(b), NEW R,
         \A k \in DOMAIN a : a[k].raw \in R,
         \A k \in DOMAIN b : b[k].raw \in R
  PROVE  /\ \A k \in DOMAIN (a \o b) : (a \o b)[k].raw \in R
         /\ a # <<>> => a \o b # <<>> /\ (a \o b)[1] = a[1]
<1> DEFINE A == {a[k] : k \in DOMAIN a}
           B == {b[k] : k \in DOMAIN b}
           S == A \cup B
<1>1. a \in Seq(A) /\ b \in Seq(B) /\ \A x \in S : x.raw \in R
  BY DEF IsChain
<1> HIDE DEF A, B
<1>2. a \in Seq(S) /\ b \in Seq(S)
  BY <1>1, SeqMonotonic
<1> HIDE DEF S
<1>3. /\ a \o b \in Seq(S) /\ Len(a \o b) = Len(a) + Len(b)
      /\ \A i \in 1 .. Len(a) + Len(b) :
            (a \o b)[i] = IF i <= Len(a) THEN a[i] ELSE b[i - Len(a)]
  BY <1>2, ConcatProperties
<1>4. /\ Len(a) \in Nat /\ Len(b) \in Nat
      /\ a # <<>> => Len(a) >= 1
  BY <1>2, LenProperties, EmptySeq
<1> DEFINE ab == a \o b
<1>5. \A k \in DOMAIN ab : ab[k] \in S
  <2>1. ab \in Seq(S)
    BY <1>3
  <2> HIDE DEF ab
  <2> QED
    BY <2>1, LenProperties, ElementOfSeq
<1>6. a # <<>> => a \o b # <<>> /\ (a \o b)[1] = a[1]
  <2>1. Len(<<>>) = 0
    OBVIOUS
  <2> QED
    BY <1>3, <1>4, <2>1
<1> QED
  BY <1>1, <1>5, <1>6

(* When an Error is made the cause of another, only the cause that this    *)
(* one had is released.                                                    *)
LEMMA LinkStep ==
  ASSUME Table(errors, errorRefs), NEW i \in Slots, NEW j \in Slots, i # j,
         errors[i] # NoError, NEW held, NEW entries,
         Linked(held, i, j), entries = Released(Tail(errors[i].chain))
  PROVE  Table(held, entries)
<1> DEFINE old == errors[i].chain
           cause == errors[j].chain
           gone == Tail(old)
           mid == [errors EXCEPT ![j] = NoError]
<1>1. /\ DOMAIN held = Slots /\ held[j] = NoError
      /\ held[i].chain = Alone(old) \o cause
      /\ held[i].status = errors[i].status
      /\ held[i].origin = errors[i].origin
      /\ held[i] \in [status : {held[i].status}, origin : {held[i].origin},
                       chain : {held[i].chain}]
      /\ \A k \in Slots \ {i, j} : held[k] = errors[k]
  <2> DEFINE both == Alone(old) \o cause
             s == errors[i].status
             o == errors[i].origin
             e == held[i]
  <2>1. e = [status |-> s, origin |-> o, chain |-> both]
    BY DEF Linked
  <2> HIDE DEF both, s, o, e
  <2>2. /\ e.chain = both /\ e.status = s /\ e.origin = o
        /\ e \in [status : {e.status}, origin : {e.origin}, chain : {e.chain}]
    BY <2>1
  <2>3. /\ DOMAIN held = Slots /\ held[j] = NoError
        /\ \A k \in Slots \ {i, j} : held[k] = errors[k]
    BY DEF Linked
  <2> QED
    BY <2>2, <2>3 DEF both, s, o, e
<1>2. /\ \A k \in Slots : WellFormed(errors[k]) /\ IsChain(errors[k].chain)
      /\ old # <<>> /\ IsChain(old) /\ IsChain(cause)
  <2>1. \A k \in Slots : WellFormed(errors[k])
    BY DEF Table
  <2>2. \A k \in Slots : IsChain(errors[k].chain)
    BY <2>1 DEF WellFormed
  <2>3. old # <<>>
    BY DEF Table
  <2> QED
    BY <2>1, <2>2, <2>3
<1>3. /\ IsChain(Alone(old)) /\ Alone(old) # <<>> /\ Alone(old)[1] = old[1]
      /\ \A k \in DOMAIN Alone(old) : Alone(old)[k].raw \in Refs \cup {0}
      /\ \A k \in DOMAIN cause : cause[k].raw \in Refs \cup {0}
  <2> HIDE DEF old, cause
  <2>1. /\ IsChain(Alone(old)) /\ Len(Alone(old)) = 1
        /\ Alone(old)[1] = old[1] /\ 1 \in DOMAIN old
    BY <1>2, TimesOfTail, FirstLink
  <2>2. DOMAIN Alone(old) = {1} /\ Alone(old) # <<>>
    BY DEF Alone
  <2> QED
    BY <1>2, <2>1, <2>2 DEF WellFormed, old, cause
<1>4. /\ IsChain(held[i].chain) /\ WellFormed(held[i])
      /\ held[i].chain # <<>> /\ held[i].chain[1] = errors[i].chain[1]
  <2> DEFINE both == Alone(old) \o cause
  <2>1. IsChain(both)
    BY <1>2, <1>3, TimesOfConcat
  <2>2. /\ \A k \in DOMAIN both : both[k].raw \in Refs \cup {0}
        /\ both # <<>> /\ both[1] = Alone(old)[1]
    BY <1>2, <1>3, RawsOfConcat
  <2>3. held[i].chain = both /\ Alone(old)[1] = errors[i].chain[1]
    BY <1>1, <1>3
  <2> HIDE DEF both
  <2> QED
    BY <1>1, <2>1, <2>2, <2>3 DEF WellFormed
<1>5. /\ \A k \in Slots : WellFormed(held[k]) /\ IsChain(held[k].chain)
      /\ OneChanges(errors, mid, j) /\ OneChanges(mid, held, i)
      /\ mid[j] = NoError /\ mid[i] = errors[i]
  <2>1. /\ DOMAIN mid = Slots /\ mid[j] = NoError
        /\ \A k \in Slots \ {j} : mid[k] = errors[k]
    BY DEF Table
  <2> HIDE DEF mid
  <2>2. \A k \in Slots : k = i \/ k = j \/ held[k] = errors[k]
    BY <1>1
  <2>3. \A k \in Slots : WellFormed(held[k])
    BY <1>1, <1>2, <1>4, <2>2, NoErrorIsEmpty
  <2>4. \A k \in Slots : IsChain(held[k].chain)
    BY <2>3 DEF WellFormed
  <2>5. \A k \in Slots : IsChain(mid[k].chain)
    BY <1>2, <2>1, NoErrorIsEmpty
  <2>6. OneChanges(errors, mid, j)
    BY <1>2, <2>1, <2>5 DEF OneChanges
  <2>7. \A k \in Slots \ {i} : held[k] = mid[k]
    BY <1>1, <2>1, <2>2
  <2>8. OneChanges(mid, held, i)
    BY <2>4, <2>5, <2>7 DEF OneChanges
  <2> QED
    BY <2>1, <2>3, <2>4, <2>6, <2>8
<1>6. ASSUME NEW r \in Refs
      PROVE  /\ Counts(r, held, entries[r])
             /\ entries[r].count # 0 =>
                   entries[r].value = errorRefs[r].value
  <2> HIDE DEF mid
  <2>1. /\ Cardinality(HeldAt(r, errors)) \in Nat
        /\ Times(r, cause) \in Nat /\ Times(r, mid[j].chain) \in Nat
        /\ Times(r, cause) <= Cardinality(HeldAt(r, errors))
        /\ Cardinality(HeldAt(r, mid)) = Cardinality(HeldAt(r, errors))
             - Times(r, cause) + Times(r, mid[j].chain)
    BY <1>5, RowChange
  <2>2. /\ Times(r, old) \in Nat
        /\ Times(r, mid[i].chain) <= Cardinality(HeldAt(r, mid))
        /\ Cardinality(HeldAt(r, held)) = Cardinality(HeldAt(r, mid))
             - Times(r, mid[i].chain) + Times(r, held[i].chain)
    <3>1. /\ Times(r, mid[i].chain) \in Nat
          /\ Times(r, mid[i].chain) <= Cardinality(HeldAt(r, mid))
          /\ Cardinality(HeldAt(r, held)) = Cardinality(HeldAt(r, mid))
               - Times(r, mid[i].chain) + Times(r, held[i].chain)
      BY <1>5, RowChange
    <3> QED
      BY <1>5, <3>1
  <2>3. Times(r, mid[j].chain) = 0 /\ mid[i].chain = old
    BY <1>5, NoErrorIsEmpty
  <2>4. Times(r, held[i].chain) = Times(r, Alone(old)) + Times(r, cause)
    BY <1>1, <1>2, <1>3, TimesOfConcat
  <2>5. Times(r, old) = Times(r, Alone(old)) + Times(r, gone)
    BY <1>2, TimesOfTail
  <2>6. Times(r, gone) \in Nat /\ Times(r, Alone(old)) \in Nat
    BY <1>2, TimesOfTail, TimesType
  <2>7. /\ errorRefs[r].count = Cardinality(HeldAt(r, errors))
        /\ Counts(r, errors, errorRefs[r])
    BY DEF Table, Counts
  <2> HIDE DEF gone, old, cause
  <2>8. /\ Times(r, gone) <= errorRefs[r].count
        /\ Cardinality(HeldAt(r, held)) = errorRefs[r].count - Times(r, gone)
    BY <2>1, <2>2, <2>3, <2>4, <2>5, <2>6, <2>7
  <2>9. /\ Counts(r, held, Released(gone)[r])
        /\ Released(gone)[r].count # 0 =>
              Released(gone)[r].value = errorRefs[r].value
    BY <2>6, <2>7, <2>8, ReleaseCounts
  <2> QED
    BY <2>9 DEF gone, old
<1>7. ASSUME NEW k \in Slots, held[k] # NoError
      PROVE  held[k].chain # <<>> /\ Honest(held[k], entries)
  <2>1. CASE k = i
    <3>1. /\ held[i].status = errors[i].status
          /\ held[i].origin = errors[i].origin
          /\ held[i].chain # <<>> /\ held[i].chain[1] = errors[i].chain[1]
          /\ \A r \in Refs : Counts(r, held, entries[r])
          /\ \A r \in Refs : entries[r].count # 0 /\ errorRefs[r].count # 0 =>
                entries[r].value = errorRefs[r].value
          /\ \A m \in Slots : WellFormed(held[m])
      BY <1>1, <1>4, <1>5, <1>6
    <3>2. Honest(held[i], entries)
      BY <3>1, HonestyCarries
    <3> QED
      BY <1>4, <2>1, <3>2
  <2>2. CASE k # i
    <3>1. held[k] = errors[k] /\ held[k].chain # <<>>
      BY <1>1, <1>7, <2>2 DEF Table
    <3> QED
      BY <1>5, <1>6, <1>7, <3>1, HonestyCarries
  <2> QED
    BY <2>1, <2>2
<1>8. DOMAIN entries = Refs
  BY DEF Released
<1> QED
  BY <1>1, <1>5, <1>6, <1>7, <1>8 DEF Table

(* What is caught has itself as the first value, and then its causes, none *)
(* of which is missing.                                                    *)
LEMMA ChainOf ==
  ASSUME NEW v, v # None
  PROVE  /\ Len(Chain(v)) \in 1 .. 3
         /\ DOMAIN Chain(v) = 1 .. Len(Chain(v))
         /\ Chain(v)[1] = v
         /\ \A k \in DOMAIN Chain(v) : Chain(v)[k] # None
<1> DEFINE c == Cause(v)
           d == Cause(c)
<1>1. CASE ~IsObject(v) \/ CoerceRaises(v) \/ c = None
  <2>1. Chain(v) = <<v>>
    BY <1>1 DEF Chain
  <2> QED
    BY <2>1
<1>2. CASE IsObject(v) /\ ~CoerceRaises(v) /\ c # None /\ d = None
  <2>1. Chain(v) = <<v, c>>
    BY <1>2 DEF Chain
  <2> HIDE DEF c, d
  <2> QED
    BY <1>2, <2>1
<1>3. CASE IsObject(v) /\ ~CoerceRaises(v) /\ c # None /\ d # None
  <2>1. Chain(v) = <<v, c, d>>
    BY <1>3 DEF Chain
  <2> HIDE DEF c, d
  <2> QED
    BY <1>3, <2>1
<1> QED
  BY <1>1, <1>2, <1>3

(* Each of them gets a reference of its own, that was free.                *)
LEMMA RawsAreFree ==
  ASSUME NEW values, NEW n \in Nat, DOMAIN values = 1 .. n,
         n <= Cardinality(Free)
  PROVE  /\ DOMAIN RawsFor(values) = 1 .. n
         /\ \A k \in 1 .. n : RawsFor(values)[k] \in Free
         /\ \A k, l \in 1 .. n :
               RawsFor(values)[k] = RawsFor(values)[l] => k = l
<1> DEFINE m == Cardinality(Free)
           f == SetToSeq(Free)
<1>1. IsFiniteSet(Free)
  <2>1. IsFiniteSet(Refs) /\ Free \in SUBSET Refs
    BY NativeCallAssumption DEF Free
  <2> QED
    BY <2>1, FS_Subset
<1>2. m \in Nat /\ ExistsBijection(1 .. m, Free)
  BY <1>1, FS_CardinalityType
<1>3. \E g \in [1 .. m -> Free] : IsInjective(g)
  BY <1>2 DEF ExistsBijection, Bijection, Injection
<1>4. f \in [1 .. m -> Free] /\ IsInjective(f)
  BY <1>3 DEF SetToSeq
<1> HIDE DEF f, m
<1>5. \A k \in 1 .. n : k \in 1 .. m
  BY <1>2 DEF m
<1>6. RawsFor(values) = [k \in 1 .. n |-> f[k]]
  BY DEF RawsFor, f
<1> QED
  BY <1>4, <1>5, <1>6 DEF IsInjective

(* An Error that is made of what was caught                                *)
LEMMA CatchStep ==
  ASSUME Table(errors, errorRefs), NEW i \in Slots, errors[i] = NoError,
         NEW v, v # None, NEW from, Same(from, v),
         Cardinality(Free) >= Len(Chain(v)),
         NEW held, DOMAIN held = Slots, held[i] = ErrorFrom(v, from),
         \A j \in Slots \ {i} : held[j] = errors[j]
  PROVE  Table(held, RefsFrom(v))
<1> DEFINE values == Chain(v)
           n == Len(values)
           raws == RawsFor(values)
           e == ErrorFrom(v, from)
           entries == RefsFrom(v)
           Has(r) == \E k \in 1 .. n : raws[k] = r
<1>1. /\ n \in 1 .. 3 /\ DOMAIN values = 1 .. n /\ values[1] = v
      /\ \A k \in 1 .. n : values[k] # None
  BY ChainOf
<1>2. /\ DOMAIN raws = 1 .. n /\ \A k \in 1 .. n : raws[k] \in Free
      /\ \A k, l \in 1 .. n : raws[k] = raws[l] => k = l
  <2>1. n \in Nat /\ n <= Cardinality(Free)
    <3>1. Cardinality(Free) \in Nat
      <4>1. IsFiniteSet(Refs) /\ Free \in SUBSET Refs
        BY NativeCallAssumption DEF Free
      <4> QED
        BY <4>1, FS_Subset, FS_CardinalityType
    <3> QED
      BY <1>1, <3>1
  <2> HIDE DEF values, n
  <2> QED
    BY <1>1, <2>1, RawsAreFree
<1>3. /\ e.status = "GenericFailure" /\ e.origin = from
      /\ e \in [status : {e.status}, origin : {e.origin}, chain : {e.chain}]
      /\ e.chain = [k \in 1 .. n |->
                       [raw |-> raws[k], reason |-> Reason(values[k])]]
  BY <1>1 DEF ErrorFrom
<1>4. /\ DOMAIN entries = Refs
      /\ \A r \in Refs :
            entries[r] = IF Has(r)
                         THEN [value |-> values[CHOOSE k \in 1 .. n :
                                                    raws[k] = r],
                               count |-> 1]
                         ELSE errorRefs[r]
  BY <1>2 DEF RefsFrom
<1> HIDE DEF values, n, raws, e, entries
<1> DEFINE chain == e.chain
<1>5. /\ DOMAIN chain = 1 .. n /\ chain # <<>> /\ 1 \in 1 .. n
      /\ \A k \in 1 .. n : chain[k].raw = raws[k]
      /\ chain[1].reason = Reason(v)
  BY <1>1, <1>3
<1>6. IsChain(chain)
  <2> DEFINE S == {chain[k] : k \in 1 .. n}
  <2>1. chain \in [1 .. n -> S] /\ n \in Nat
    BY <1>1, <1>3
  <2> HIDE DEF chain, S
  <2>2. chain \in Seq(S)
    BY <2>1, SeqDef
  <2> QED
    BY <2>2, SeqIsChain
<1>7. \A r \in Free : r \in Refs /\ r # 0 /\ errorRefs[r].count = 0
  BY NativeCallAssumption DEF Free
<1>8. WellFormed(e)
  BY <1>2, <1>3, <1>5, <1>6, <1>7 DEF WellFormed
<1>9. ASSUME NEW r \in Refs
      PROVE  Times(r, chain) = IF Has(r) THEN 1 ELSE 0
  <2>1. Positions(r, chain) = {k \in 1 .. n : raws[k] = r}
    BY <1>5 DEF Positions
  <2>2. CASE Has(r)
    <3>1. PICK k \in 1 .. n : raws[k] = r
      BY <2>2
    <3>2. Positions(r, chain) = {k}
      BY <1>2, <2>1, <3>1
    <3>3. Cardinality({k}) = 1
      BY FS_Singleton
    <3> QED
      BY <2>2, <3>2, <3>3 DEF Times
  <2>3. CASE ~Has(r)
    <3>1. Positions(r, chain) = {}
      BY <2>1, <2>3
    <3> QED
      BY <2>3, <3>1, FS_EmptySet DEF Times
  <2> QED
    BY <2>2, <2>3
<1>10. ASSUME NEW r \in Refs, NEW k \in 1 .. n, raws[k] = r
       PROVE  entries[r] = [value |-> values[k], count |-> 1]
  <2>1. (CHOOSE l \in 1 .. n : raws[l] = r) = k
    BY <1>2, <1>10
  <2> QED
    BY <1>4, <1>10, <2>1
<1>11. ASSUME NEW r \in Refs
       PROVE  /\ entries[r] \in [value : {entries[r].value}, count : Nat]
              /\ entries[r].count = errorRefs[r].count + Times(r, chain)
              /\ entries[r].count = 0 <=> entries[r].value = None
              /\ entries[r].count # 0 /\ errorRefs[r].count # 0 =>
                    entries[r].value = errorRefs[r].value
  <2>1. CASE Has(r)
    <3>1. PICK k \in 1 .. n : raws[k] = r
      BY <2>1
    <3>2. entries[r] = [value |-> values[k], count |-> 1]
      BY <1>10, <3>1
    <3>3. errorRefs[r].count = 0 /\ Times(r, chain) = 1 /\ values[k] # None
      BY <1>1, <1>2, <1>7, <1>9, <2>1, <3>1
    <3> QED
      BY <3>2, <3>3
  <2>2. CASE ~Has(r)
    <3>1. entries[r] = errorRefs[r] /\ Times(r, chain) = 0
      BY <1>4, <1>9, <2>2
    <3>2. Counts(r, errors, errorRefs[r])
      BY DEF Table
    <3> QED
      BY <3>1, <3>2 DEF Counts
  <2> QED
    BY <2>1, <2>2
<1>12. KeptAs(e, i, held, entries)
  BY <1>4, <1>11 DEF KeptAs, e
<1>13. Honest(e, entries)
  <2>1. PICK r \in Refs : r = raws[1] /\ r # 0
    BY <1>2, <1>5, <1>7
  <2>2. entries[r] = [value |-> values[1], count |-> 1]
    BY <1>5, <1>10, <2>1
  <2>3. entries[r].value = v /\ chain[1].raw = r
    BY <1>1, <1>5, <2>1, <2>2
  <2> QED
    BY <1>3, <1>5, <2>1, <2>3 DEF Honest
<1> QED
  BY <1>5, <1>8, <1>12, <1>13, KeepStep DEF Told, entries

(* An Error that Rust code makes has a reason, and no reference.           *)
LEMMA NewErrorIs ==
  ASSUME NEW status, NEW reason
  PROVE  LET e == NewError(status, reason, <<>>)
         IN /\ e.status = status /\ e.origin = Made(reason, None)
            /\ e.chain = <<[raw |-> 0, reason |-> reason]>>
            /\ WellFormed(e) /\ e.chain # <<>>
            /\ \A r \in Refs : Times(r, e.chain) = 0
            /\ \A entries : Honest(e, entries)
            /\ Same(e.origin, IntoValue(e))
<1> DEFINE e == NewError(status, reason, <<>>)
           x == [raw |-> 0, reason |-> reason]
<1>1. <<x>> \o <<>> = <<x>>
  <2> HIDE DEF x
  <2>1. <<x>> \in Seq({x})
    OBVIOUS
  <2> QED
    BY <2>1, ConcatEmptySeq
<1>2. e = [status |-> status, origin |-> Made(reason, None), chain |-> <<x>>]
  BY <1>1 DEF NewError
<1> HIDE DEF e
<1>3. e.status = status /\ e.origin = Made(reason, None) /\ e.chain = <<x>>
  BY <1>2
<1>4. /\ x.raw = 0 /\ x.reason = reason
      /\ DOMAIN <<x>> = {1} /\ <<x>>[1] = x /\ <<x>> # <<>>
  OBVIOUS
<1> HIDE DEF x
<1>5. /\ e \in [status : {e.status}, origin : {e.origin}, chain : {e.chain}]
      /\ e.chain # <<>> /\ e.chain[1] = x /\ DOMAIN e.chain = {1}
  BY <1>2, <1>4
<1>6. IsChain(e.chain) /\ \A r \in Refs : Times(r, e.chain) = 0
  <2>1. IsChain(<<x>>) /\ \A r : Times(r, <<x>>) = IF x.raw = r THEN 1 ELSE 0
    BY TimesOfOne
  <2>2. \A r \in Refs : r # 0
    BY NativeCallAssumption
  <2> QED
    BY <1>3, <1>4, <2>1, <2>2
<1>7. WellFormed(e)
  BY <1>4, <1>5, <1>6 DEF WellFormed
<1>8. \A entries : Honest(e, entries)
  BY <1>3, <1>4, <1>5 DEF Honest
<1>9. Same(e.origin, IntoValue(e))
  <2> DEFINE c == CauseValue(e.chain)
  <2>1. IntoValue(e) = Made(reason, c)
    BY <1>4, <1>5 DEF IntoValue
  <2> HIDE DEF c
  <2> QED
    BY <1>3, <2>1 DEF Same, Made
<1> QED
  BY <1>3, <1>5, <1>6, <1>7, <1>8, <1>9 DEF e, x

(* An Error that Rust code makes and keeps                                 *)
LEMMA MakeStep ==
  ASSUME Table(errors, errorRefs), NEW i \in Slots, errors[i] = NoError,
         NEW status, NEW reason,
         NEW held, DOMAIN held = Slots,
         held[i] = NewError(status, reason, <<>>),
         \A j \in Slots \ {i} : held[j] = errors[j]
  PROVE  Table(held, errorRefs)
<1> DEFINE e == NewError(status, reason, <<>>)
<1>1. /\ WellFormed(e) /\ e.chain # <<>> /\ Honest(e, errorRefs)
      /\ \A r \in Refs : Times(r, e.chain) = 0
  BY NewErrorIs
<1>2. held[i] = e
  OBVIOUS
<1> HIDE DEF e
<1>3. KeptAs(e, i, held, errorRefs)
  <2>1. \A r \in Refs :
          /\ errorRefs[r] \in [value : {errorRefs[r].value}, count : Nat]
          /\ errorRefs[r].count = 0 <=> errorRefs[r].value = None
          /\ errorRefs[r].count \in Nat
    BY DEF Table, Counts
  <2>2. \A r \in Refs :
          errorRefs[r].count = errorRefs[r].count + Times(r, e.chain)
    BY <1>1, <2>1
  <2>3. DOMAIN errorRefs = Refs
    BY DEF Table
  <2> QED
    BY <1>2, <2>1, <2>2, <2>3 DEF KeptAs
<1> QED
  BY <1>1, <1>3, KeepStep DEF Told

(* An Error that is cloned, without its cause                              *)
LEMMA CloneStep ==
  ASSUME Table(errors, errorRefs), NEW i \in Slots, errors[i] = NoError,
         NEW j \in Slots, errors[j] # NoError,
         NEW held, DOMAIN held = Slots,
         held[i] = [status |-> errors[j].status, origin |-> errors[j].origin,
                    chain |-> Alone(errors[j].chain)],
         \A k \in Slots \ {i} : held[k] = errors[k]
  PROVE  Table(held, CloneRefs(errors[j]))
<1> DEFINE e == held[i]
           old == errors[j].chain
           first == old[1]
           one == Alone(old)
           entries == CloneRefs(errors[j])
<1>1. WellFormed(errors[j]) /\ old # <<>>
  BY DEF Table
<1>2. IsChain(old) /\ \A k \in DOMAIN old : old[k].raw \in Refs \cup {0}
  BY <1>1 DEF WellFormed
<1>3. /\ e.status = errors[j].status /\ e.origin = errors[j].origin
      /\ e.chain = one
      /\ e \in [status : {e.status}, origin : {e.origin}, chain : {e.chain}]
  <2> DEFINE f == errors[j]
  <2>1. e = [status |-> f.status, origin |-> f.origin, chain |-> one]
    OBVIOUS
  <2> HIDE DEF f, one, e
  <2> QED
    BY <2>1 DEF f
<1>4. /\ IsChain(one) /\ one[1] = first /\ one = <<first>>
      /\ first.raw \in Refs \cup {0}
      /\ DOMAIN one = {1} /\ one # <<>>
  <2> HIDE DEF old
  <2>1. IsChain(one) /\ one[1] = first /\ Len(one) = 1 /\ 1 \in DOMAIN old
    BY <1>1, <1>2, TimesOfTail, FirstLink
  <2>2. one = <<Head(old)>>
    BY DEF Alone
  <2> QED
    BY <1>2, <2>1, <2>2
<1>5. \A r : Times(r, one) = IF first.raw = r THEN 1 ELSE 0
  BY <1>4, TimesOfOne
<1> HIDE DEF e, one
<1>6. WellFormed(e)
  BY <1>3, <1>4 DEF WellFormed
<1>7. /\ DOMAIN entries = Refs
      /\ \A r \in Refs :
            entries[r] = IF first.raw = r
                         THEN [errorRefs[r] EXCEPT !.count = @ + 1]
                         ELSE errorRefs[r]
  <2>1. /\ DOMAIN errorRefs = Refs
        /\ \A r \in Refs : r # 0
    BY NativeCallAssumption DEF Table
  <2>2. CASE first.raw = 0
    BY <2>1, <2>2 DEF CloneRefs
  <2>3. CASE first.raw # 0
    <3>1. entries = [errorRefs EXCEPT ![first.raw].count = @ + 1]
      BY <2>3 DEF CloneRefs
    <3> HIDE DEF entries, first
    <3> QED
      BY <1>4, <2>1, <2>3, <3>1
  <2> QED
    BY <2>2, <2>3
<1> HIDE DEF entries, first
<1>8. ASSUME NEW r \in Refs
      PROVE  /\ entries[r] \in [value : {entries[r].value}, count : Nat]
             /\ entries[r].count = errorRefs[r].count + Times(r, one)
             /\ entries[r].count = 0 <=> entries[r].value = None
             /\ entries[r].count # 0 /\ errorRefs[r].count # 0 =>
                   entries[r].value = errorRefs[r].value
  <2> DEFINE f == errorRefs[r]
  <2>1. /\ f \in [value : {f.value}, count : Nat]
        /\ f.count = Cardinality(HeldAt(r, errors))
        /\ f.count = 0 <=> f.value = None
    BY DEF Table, Counts
  <2>2. CASE first.raw = r
    <3>1. f.count # 0
      <4>1. \A k \in Slots : IsChain(errors[k].chain)
        BY DEF Table, WellFormed
      <4>2. errors[j].chain # <<>> /\ errors[j].chain[1].raw = r
        BY <1>1, <2>2 DEF first
      <4>3. Cardinality(HeldAt(r, errors)) # 0
        BY <4>1, <4>2, HeldIsCounted
      <4> QED
        BY <2>1, <4>3
    <3>2. entries[r] = [f EXCEPT !.count = @ + 1]
      BY <1>7, <2>2
    <3> HIDE DEF f
    <3>3. entries[r] = [value |-> f.value, count |-> f.count + 1]
      BY <2>1, <3>2
    <3>4. Times(r, one) = 1 /\ f.count \in Nat
      BY <1>5, <2>1, <2>2
    <3> QED
      BY <2>1, <3>1, <3>3, <3>4 DEF f
  <2>3. CASE first.raw # r
    BY <1>5, <1>7, <2>1, <2>3
  <2> QED
    BY <2>2, <2>3
<1>9. KeptAs(e, i, held, entries)
  BY <1>3, <1>7, <1>8 DEF KeptAs, e
<1>10. Told(e, entries) /\ e.chain # <<>>
  BY <1>3, <1>4 DEF Told, first
<1> QED
  BY <1>6, <1>9, <1>10, KeepStep DEF entries

-----------------------------------------------------------------------------
(* Whose code runs, and what it was called by                              *)
Frames == [via : {"none", "call", "apply"}, told : BOOLEAN]

Control ==
    /\ who \in {"js", "rust"}
    /\ who = "rust" => stack # <<>>
    /\ stack \in Seq(Frames) /\ Len(stack) <= MaxDepth

(* The exception that is pending is the one that was thrown, and known of. *)
PendingInv ==
    PendingIsTold /\ (pending # None => Same(thrown, pending))

CallInv == Table(errors, errorRefs) /\ Control /\ PendingInv

(* It says what is claimed of calls.                                       *)
LEMMA CallInvImplies ==
  ASSUME CallInv
  PROVE  CallTypeOK /\ RefsAreHeld /\ ErrorsAreTold
<1>1. CallTypeOK
  <2>1. /\ DOMAIN errors = Slots
        /\ \A i \in Holding : errors[i].chain # <<>>
        /\ \A i \in Slots : WellFormed(errors[i])
        /\ \A r \in Refs : Counts(r, errors, errorRefs[r])
    BY DEF CallInv, Table, Holding
  <2>2. \A i \in Slots : \A k \in DOMAIN errors[i].chain :
            errors[i].chain[k].raw \in Refs \cup {0}
    BY <2>1 DEF WellFormed
  <2>3. \A r \in Refs : errorRefs[r].count \in Nat
    BY <2>1 DEF Counts
  <2>4. Control
    BY DEF CallInv
  <2> QED
    BY <2>1, <2>2, <2>3, <2>4 DEF CallTypeOK, Control, Frames
<1>2. RefsAreHeld
  BY DEF CallInv, Table, Counts, RefsAreHeld
<1>3. ErrorsAreTold
  BY DEF CallInv, PendingInv, ErrorsAreTold, ThrownIsCaught
<1> QED
  BY <1>1, <1>2, <1>3

(* Nothing is held to begin with.                                          *)
LEMMA CallInvInit ==
  ASSUME CallInit
  PROVE  CallInv
<1>1. Control /\ PendingInv
  BY NativeCallAssumption
     DEF CallInit, Control, PendingInv, PendingIsTold, Frames
<1>2. \A i \in Slots : errors[i] = NoError /\ errors[i].chain = <<>>
  BY NoErrorIsEmpty DEF CallInit
<1>3. \A i \in Slots : WellFormed(errors[i])
  BY <1>2, NoErrorIsEmpty
<1>4. ASSUME NEW r \in Refs
      PROVE  Counts(r, errors, errorRefs[r])
  <2>1. HeldAt(r, errors) = {}
    BY <1>2 DEF HeldAt, Positions
  <2>2. errorRefs[r] = [value |-> None, count |-> 0]
    BY DEF CallInit
  <2>3. Cardinality({}) = 0
    BY FS_EmptySet
  <2> HIDE DEF None
  <2> QED
    BY <2>1, <2>2, <2>3 DEF Counts
<1>5. DOMAIN errors = Slots /\ DOMAIN errorRefs = Refs
  BY DEF CallInit
<1> QED
  BY <1>1, <1>2, <1>3, <1>4, <1>5 DEF CallInv, Table

(* The frame on top of the stack is what it is set to.                     *)
LEMMA TopOfStack ==
  ASSUME Control, stack # <<>>
  PROVE  /\ Len(stack) \in Nat \ {0} /\ Len(stack) \in 1 .. Len(stack)
         /\ DOMAIN stack = 1 .. Len(stack)
         /\ Front(stack) \in Seq(Frames) /\ Len(Front(stack)) <= MaxDepth
         /\ \A via \in {"none", "call", "apply"} :
               LET next == [stack EXCEPT ![Len(stack)].via = via]
               IN /\ next \in Seq(Frames) /\ Len(next) = Len(stack)
                  /\ next # <<>>
         /\ \A told \in BOOLEAN :
               LET next == BackInRust(told)
               IN /\ next \in Seq(Frames) /\ Len(next) = Len(stack)
                  /\ next # <<>> /\ Last(next).told = told
<1> DEFINE n == Len(stack)
           top == stack[n]
<1>1. /\ stack \in Seq(Frames) /\ n \in Nat \ {0} /\ n <= MaxDepth
      /\ MaxDepth \in Nat
  BY EmptySeq, NativeCallAssumption DEF Control
<1>2. n \in 1 .. n /\ DOMAIN stack = 1 .. n /\ top \in Frames
  BY <1>1, LenProperties, ElementOfSeq
<1>3. Front(stack) \in Seq(Frames) /\ Len(Front(stack)) <= MaxDepth
  <2> HIDE DEF n
  <2>1. n - 1 \in Int /\ 1 \in Int /\ \A i \in 1 .. n - 1 : i \in 1 .. n
    BY <1>1
  <2>2. \A i \in 1 .. n - 1 : stack[i] \in Frames
    BY <1>1, <2>1, ElementOfSeq DEF n
  <2>3. /\ SubSeq(stack, 1, n - 1) \in Seq(Frames)
        /\ Len(SubSeq(stack, 1, n - 1)) =
              IF 1 <= n - 1 THEN n - 1 - 1 + 1 ELSE 0
    BY <2>1, <2>2, SubSeqProperties
  <2> QED
    BY <1>1, <2>3 DEF Front, n
<1>4. ASSUME NEW frame \in Frames
      PROVE  LET next == [stack EXCEPT ![n] = frame]
             IN /\ next \in Seq(Frames) /\ Len(next) = n
                /\ next # <<>> /\ Last(next) = frame
  <2> DEFINE next == [stack EXCEPT ![n] = frame]
  <2>1. /\ next \in Seq(Frames) /\ Len(next) = Len(stack)
        /\ \A j \in 1 .. Len(stack) : next[j] = IF j = n THEN frame
                                                ELSE stack[j]
    BY <1>1, <1>2, ExceptSeq
  <2>2. Len(<<>>) = 0
    OBVIOUS
  <2> HIDE DEF next
  <2> QED
    BY <1>1, <1>2, <2>1, <2>2 DEF Last, next
<1>5. ASSUME NEW via \in {"none", "call", "apply"}
      PROVE  LET next == [stack EXCEPT ![n].via = via]
             IN next \in Seq(Frames) /\ Len(next) = n /\ next # <<>>
  <2> DEFINE frame == [top EXCEPT !.via = via]
  <2>1. frame \in Frames
    BY <1>2 DEF Frames
  <2>2. [stack EXCEPT ![n].via = via] = [stack EXCEPT ![n] = frame]
    OBVIOUS
  <2> HIDE DEF frame
  <2> QED
    BY <1>4, <2>1, <2>2
<1>6. ASSUME NEW told \in BOOLEAN
      PROVE  LET next == BackInRust(told)
             IN /\ next \in Seq(Frames) /\ Len(next) = n
                /\ next # <<>> /\ Last(next).told = told
  <2> DEFINE frame == [via |-> "none", told |-> told]
             next == BackInRust(told)
  <2>1. frame \in Frames /\ frame.told = told
    BY DEF Frames
  <2>2. next = [stack EXCEPT ![n] = frame]
    BY DEF BackInRust
  <2> HIDE DEF frame, next
  <2>3. /\ next \in Seq(Frames) /\ Len(next) = n
        /\ next # <<>> /\ Last(next) = frame
    BY <1>4, <2>1, <2>2
  <2> QED
    BY <2>1, <2>3 DEF next
<1> QED
  BY <1>1, <1>2, <1>3, <1>5, <1>6

(* An Error is kept where there was none.                                  *)
LEMMA KeptInSlot ==
  ASSUME Table(errors, errorRefs), HasSlot, NEW e, Keep(e)
  PROVE  \E i \in Slots :
            /\ errors[i] = NoError
            /\ DOMAIN errors' = Slots /\ errors'[i] = e
            /\ \A j \in Slots \ {i} : errors'[j] = errors[j]
<1>1. FreeSlot \in Slots /\ errors[FreeSlot] = NoError
  BY DEF HasSlot, FreeSlot
<1>2. DOMAIN errors = Slots /\ errors' = [errors EXCEPT ![FreeSlot] = e]
  BY DEF Table, Keep
<1> QED
  BY <1>1, <1>2

(* What was raised in JavaScript is received, whoever raised it.           *)
LEMMA ReceiveStep ==
  ASSUME CallInv, stack # <<>>, NEW via, NEW v, v # None,
         NEW from, Same(from, v), Receive(via, v, from)
  PROVE  CallInv'
<1>1. Control /\ Table(errors, errorRefs) /\ HasSlot /\ who' = "rust"
  BY DEF CallInv, Receive
<1>2. CASE via = "call"
  <2>1. /\ Cardinality(Free) >= Len(Chain(v))
        /\ Keep(ErrorFrom(v, from)) /\ errorRefs' = RefsFrom(v)
        /\ pending' = IF LeavesPending(v) THEN Raised ELSE None
        /\ thrown' = IF LeavesPending(v) THEN Raised ELSE None
        /\ stack' = BackInRust(FALSE)
    BY <1>2 DEF Receive
  <2>2. PICK i \in Slots :
          /\ errors[i] = NoError
          /\ DOMAIN errors' = Slots /\ errors'[i] = ErrorFrom(v, from)
          /\ \A j \in Slots \ {i} : errors'[j] = errors[j]
    BY <1>1, <2>1, KeptInSlot
  <2>3. Table(errors, errorRefs)'
    <3>1. Table(errors', RefsFrom(v))
      BY <1>1, <2>1, <2>2, CatchStep
    <3> QED
      BY <2>1, <3>1 DEF Table, WellFormed, Honest, Counts
  <2>4. Control'
    BY <1>1, <2>1, TopOfStack DEF Control
  <2>5. PendingInv'
    BY <2>1 DEF PendingInv, PendingIsTold, Same
  <2> QED
    BY <2>3, <2>4, <2>5 DEF CallInv
<1>3. CASE via # "call"
  <2> DEFINE e == NewError("PendingException", <<"rust">>, <<>>)
  <2>1. /\ Keep(e) /\ errorRefs' = errorRefs
        /\ pending' = v /\ thrown' = from
        /\ stack' = BackInRust(TRUE)
    BY <1>3 DEF Receive
  <2>2. PICK i \in Slots :
          /\ errors[i] = NoError
          /\ DOMAIN errors' = Slots /\ errors'[i] = e
          /\ \A j \in Slots \ {i} : errors'[j] = errors[j]
    BY <1>1, <2>1, KeptInSlot
  <2>3. Table(errors, errorRefs)'
    <3>1. Table(errors', errorRefs)
      BY <1>1, <2>2, MakeStep
    <3> QED
      BY <2>1, <3>1 DEF Table, WellFormed, Honest, Counts
  <2>4. Control' /\ Last(stack').told
    BY <1>1, <2>1, TopOfStack DEF Control
  <2>5. PendingInv'
    BY <2>1, <2>4 DEF PendingInv, PendingIsTold
  <2> QED
    BY <2>3, <2>4, <2>5 DEF CallInv
<1> QED
  BY <1>2, <1>3

(* A function that ends with an Error leaves what was thrown.              *)
LEMMA ThrowStep ==
  ASSUME PendingInv, NEW e, ThrowInto(e),
         e.status # "PendingException" => Same(e.origin, IntoValue(e))
  PROVE  PendingInv' /\ who' = "js"
<1>1. CASE e.status = "PendingException" \/ pending # None
  BY <1>1 DEF ThrowInto, PendingInv, PendingIsTold
<1>2. CASE ~(e.status = "PendingException" \/ pending # None)
  BY <1>2 DEF ThrowInto, PendingInv, PendingIsTold
<1> QED
  BY <1>1, <1>2

(* What is held does not change.                                           *)
LEMMA TableUnchanged ==
  ASSUME CallInv, UNCHANGED <<errors, errorRefs>>
  PROVE  Table(errors, errorRefs)'
BY DEF CallInv, Table, WellFormed, Honest, Counts

(* Calls from JavaScript into Rust                                         *)
LEMMA CallRustStep ==
  ASSUME CallInv, NEW check, NEW arg, CallRust(check, arg)
  PROVE  CallInv'
<1>1. /\ who = "js" /\ pending = None /\ Control /\ PendingInv
      /\ UNCHANGED <<errors, errorRefs>>
  BY DEF CallInv, CallRust, InJs
<1>2. Table(errors, errorRefs)'
  BY <1>1, TableUnchanged
<1>3. CASE arg = "valid"
  <2> DEFINE frame == [via |-> "none", told |-> FALSE]
  <2>1. /\ Len(stack) < MaxDepth /\ stack' = Append(stack, frame)
        /\ who' = "rust" /\ UNCHANGED <<pending, thrown>>
    BY <1>3 DEF CallRust
  <2>2. frame \in Frames
    BY DEF Frames
  <2> HIDE DEF frame
  <2>3. /\ stack' \in Seq(Frames) /\ stack' # <<>>
        /\ Len(stack') = Len(stack) + 1 /\ Len(stack) \in Nat
    BY <1>1, <2>1, <2>2, AppendProperties, LenProperties DEF Control
  <2>4. Control'
    BY <2>1, <2>3, NativeCallAssumption DEF Control
  <2>5. PendingInv'
    BY <1>1, <2>1 DEF PendingInv, PendingIsTold
  <2> QED
    BY <1>2, <2>4, <2>5 DEF CallInv
<1>4. CASE arg # "valid"
  <2>1. /\ UNCHANGED stack
        /\ \/ who' = "js" /\ pending' = Raised /\ thrown' = Raised
           \/ ThrowInto(NewError("GenericFailure", <<"rust">>, <<>>))
           \/ UNCHANGED <<who, pending, thrown>>
    BY <1>4 DEF CallRust
  <2>2. CASE who' = "js" /\ pending' = Raised /\ thrown' = Raised
    BY <1>1, <1>2, <2>1, <2>2
       DEF CallInv, Control, PendingInv, PendingIsTold, Same
  <2>3. CASE ThrowInto(NewError("GenericFailure", <<"rust">>, <<>>))
    <3> DEFINE e == NewError("GenericFailure", <<"rust">>, <<>>)
    <3>1. Same(e.origin, IntoValue(e)) /\ ThrowInto(e)
      BY <2>3, NewErrorIs
    <3> HIDE DEF e
    <3>2. PendingInv' /\ who' = "js"
      BY <1>1, <3>1, ThrowStep
    <3> QED
      BY <1>1, <1>2, <2>1, <3>2 DEF CallInv, Control
  <2>4. CASE UNCHANGED <<who, pending, thrown>>
    BY <1>1, <1>2, <2>1, <2>4
       DEF CallInv, Control, PendingInv, PendingIsTold
  <2> QED
    BY <2>1, <2>2, <2>3, <2>4
<1> QED
  BY <1>3, <1>4

(* Rust functions that return, with an Error or without                    *)
LEMMA ReturnStep ==
  ASSUME CallInv, InRust, stack' = Front(stack), who' = "js"
  PROVE  Control'
<1>1. Control /\ stack # <<>>
  BY DEF CallInv, Control, InRust
<1>2. Front(stack) \in Seq(Frames) /\ Len(Front(stack)) <= MaxDepth
  BY <1>1, TopOfStack
<1> QED
  BY <1>2 DEF Control

(* Errors that are given a cause, cloned, dropped or thrown                *)
LEMMA HeldStep ==
  ASSUME CallInv, NEW i \in Holding,
         \/ CloneError(i) \/ DropError(i) \/ ReturnErr(i)
         \/ \E j \in Holding : SetCause(i, j)
  PROVE  CallInv'
<1>1. /\ Control /\ PendingInv /\ Table(errors, errorRefs)
      /\ i \in Slots /\ errors[i] # NoError /\ DOMAIN errors = Slots
  BY DEF CallInv, Table, Holding
<1>2. ASSUME UNCHANGED <<who, stack, pending, thrown>>
      PROVE  Control' /\ PendingInv'
  BY <1>1, <1>2 DEF Control, PendingInv, PendingIsTold
<1>3. CASE CloneError(i)
  <2> DEFINE f == errors[i]
             e == [f EXCEPT !.chain = Alone(@)]
  <2>1. /\ HasSlot /\ Keep(e) /\ errorRefs' = CloneRefs(f)
        /\ UNCHANGED <<who, stack, pending, thrown>>
    BY <1>3 DEF CloneError
  <2>2. e = [status |-> f.status, origin |-> f.origin,
             chain |-> Alone(f.chain)]
    <3>1. f \in [status : {f.status}, origin : {f.origin}, chain : {f.chain}]
      BY <1>1 DEF Table, WellFormed
    <3> HIDE DEF f
    <3> QED
      BY <3>1
  <2> HIDE DEF e
  <2>3. PICK k \in Slots :
          /\ errors[k] = NoError
          /\ DOMAIN errors' = Slots /\ errors'[k] = e
          /\ \A j \in Slots \ {k} : errors'[j] = errors[j]
    BY <1>1, <2>1, KeptInSlot
  <2>4. Table(errors', CloneRefs(f))
    BY <1>1, <2>2, <2>3, CloneStep
  <2>5. Table(errors, errorRefs)'
    BY <2>1, <2>4 DEF Table, WellFormed, Honest, Counts
  <2> QED
    BY <1>2, <2>1, <2>5 DEF CallInv
<1>4. ASSUME errors' = [errors EXCEPT ![i] = NoError],
             errorRefs' = Released(errors[i].chain)
      PROVE  Table(errors, errorRefs)'
  <2>1. /\ DOMAIN errors' = Slots /\ errors'[i] = NoError
        /\ \A j \in Slots \ {i} : errors'[j] = errors[j]
    BY <1>1, <1>4
  <2>2. Table(errors', errorRefs')
    BY <1>1, <1>4, <2>1, DropStep
  <2> QED
    BY <2>2 DEF Table, WellFormed, Honest, Counts
<1>5. CASE DropError(i)
  BY <1>2, <1>4, <1>5 DEF DropError, CallInv
<1>6. CASE ReturnErr(i)
  <2>1. /\ InRust /\ stack' = Front(stack) /\ ThrowInto(errors[i])
        /\ errors' = [errors EXCEPT ![i] = NoError]
        /\ errorRefs' = Released(errors[i].chain)
    BY <1>6 DEF ReturnErr
  <2>2. errors[i].status # "PendingException" =>
            Same(errors[i].origin, IntoValue(errors[i]))
    BY <1>1, IntoValueIsSame
  <2>3. PendingInv' /\ who' = "js"
    BY <1>1, <2>1, <2>2, ThrowStep
  <2>4. Control'
    BY <2>1, <2>3, ReturnStep
  <2> QED
    BY <1>4, <2>1, <2>3, <2>4 DEF CallInv
<1>7. CASE \E j \in Holding : SetCause(i, j)
  <2>1. PICK j \in Holding : SetCause(i, j)
    BY <1>7
  <2>2. /\ j \in Slots /\ i # j
        /\ errors' = [errors EXCEPT ![i].chain = Alone(@) \o errors[j].chain,
                                    ![j] = NoError]
        /\ errorRefs' = Released(Tail(errors[i].chain))
        /\ UNCHANGED <<who, stack, pending, thrown>>
    BY <2>1 DEF SetCause, Holding
  <2>3. Linked(errors', i, j)
    <3> DEFINE f == errors[i]
               both == Alone(f.chain) \o errors[j].chain
               e == [f EXCEPT !.chain = both]
    <3>1. f \in [status : {f.status}, origin : {f.origin}, chain : {f.chain}]
      BY <1>1 DEF Table, WellFormed
    <3>2. e = [status |-> f.status, origin |-> f.origin, chain |-> both]
      <4> HIDE DEF f, both
      <4> QED
        BY <3>1
    <3>3. errors' = [errors EXCEPT ![i] = e, ![j] = NoError]
      BY <2>2
    <3> HIDE DEF e
    <3>4. /\ DOMAIN errors' = Slots /\ errors'[i] = e
          /\ errors'[j] = NoError
          /\ \A k \in Slots \ {i, j} : errors'[k] = errors[k]
      BY <1>1, <2>2, <3>3
    <3> QED
      BY <3>2, <3>4 DEF Linked
  <2>4. Table(errors', errorRefs')
    BY <1>1, <2>2, <2>3, LinkStep
  <2>5. Table(errors, errorRefs)'
    BY <2>4 DEF Table, WellFormed, Honest, Counts
  <2> QED
    BY <1>2, <2>2, <2>5 DEF CallInv
<1> QED
  BY <1>3, <1>5, <1>6, <1>7

(* Calls from Rust into JavaScript, which return or throw                  *)
LEMMA CallJsStep ==
  ASSUME CallInv,
         \/ \E via \in {"call", "apply"} : CallJs(via)
         \/ JsReturns \/ JsUnwinds \/ JsCatches
         \/ \E kind \in Thrown : JsThrows(<<kind>>)
  PROVE  CallInv'
<1>1. Control /\ PendingInv
  BY DEF CallInv
<1>2. ASSUME NEW via \in {"none", "call", "apply"}, stack # <<>>,
             stack' = [stack EXCEPT ![Len(stack)].via = via],
             who' \in {"js", "rust"}
      PROVE  Control'
  BY <1>1, <1>2, TopOfStack DEF Control
<1>3. CASE \E via \in {"call", "apply"} : CallJs(via)
  <2>1. PICK via \in {"call", "apply"} : CallJs(via)
    BY <1>3
  <2>2. InRust /\ stack # <<>>
    BY <1>1, <2>1 DEF CallJs, InRust, Control
  <2>3. CASE pending # None
    <3>1. Receive(via, pending, thrown) /\ Same(thrown, pending)
      BY <1>1, <2>1, <2>3 DEF CallJs, PendingInv
    <3> QED
      BY <2>2, <2>3, <3>1, ReceiveStep
  <2>4. CASE pending = None
    <3>1. /\ who' = "js" /\ UNCHANGED <<pending, errors, errorRefs, thrown>>
          /\ stack' = [stack EXCEPT ![Len(stack)].via = via]
      BY <2>1, <2>4 DEF CallJs
    <3>2. Control' /\ Table(errors, errorRefs)'
      BY <1>2, <2>2, <3>1, TableUnchanged
    <3>3. PendingInv'
      BY <2>4, <3>1 DEF PendingInv, PendingIsTold
    <3> QED
      BY <3>2, <3>3 DEF CallInv
  <2> QED
    BY <2>3, <2>4
<1>4. CASE JsReturns
  <2>1. /\ stack # <<>> /\ pending = None /\ who' = "rust"
        /\ stack' = [stack EXCEPT ![Len(stack)].via = "none"]
        /\ UNCHANGED <<pending, errors, errorRefs, thrown>>
    BY <1>4 DEF JsReturns, InJs
  <2>2. Control' /\ Table(errors, errorRefs)'
    BY <1>2, <2>1, TableUnchanged
  <2>3. PendingInv'
    BY <2>1 DEF PendingInv, PendingIsTold
  <2> QED
    BY <2>2, <2>3 DEF CallInv
<1>5. CASE JsUnwinds
  <2>1. /\ stack # <<>> /\ pending # None
        /\ Receive(Last(stack).via, pending, thrown)
    BY <1>5 DEF JsUnwinds
  <2>2. Same(thrown, pending)
    BY <1>1, <2>1 DEF PendingInv
  <2> QED
    BY <2>1, <2>2, ReceiveStep
<1>6. CASE JsCatches
  <2>1. /\ who = "js" /\ pending' = None
        /\ UNCHANGED <<who, stack, errors, errorRefs>>
    BY <1>6 DEF JsCatches
  <2>2. Table(errors, errorRefs)'
    BY <2>1, TableUnchanged
  <2> QED
    BY <1>1, <2>1, <2>2 DEF CallInv, Control, PendingInv, PendingIsTold
<1>7. CASE \E kind \in Thrown : JsThrows(<<kind>>)
  <2>1. PICK kind \in Thrown : JsThrows(<<kind>>)
    BY <1>7
  <2> DEFINE v == <<kind>>
  <2>2. stack # <<>> /\ Receive(Last(stack).via, v, v)
    BY <2>1 DEF JsThrows
  <2>3. v # None
    BY NativeCallAssumption DEF None
  <2>4. Same(v, v)
    BY DEF Same
  <2> HIDE DEF v
  <2> QED
    BY <2>2, <2>3, <2>4, ReceiveStep
<1> QED
  BY <1>3, <1>4, <1>5, <1>6, <1>7

(* What Rust code does without an Error that it has                        *)
LEMMA RustStep ==
  ASSUME CallInv, MakeError \/ ReturnOk \/ Panic
  PROVE  CallInv'
<1>1. Control /\ PendingInv /\ Table(errors, errorRefs)
  BY DEF CallInv
<1> DEFINE e == NewError("GenericFailure", <<"rust">>, <<>>)
<1>2. CASE MakeError
  <2>1. /\ HasSlot /\ Keep(e)
        /\ UNCHANGED <<who, stack, pending, errorRefs, thrown>>
    BY <1>2 DEF MakeError
  <2>2. PICK i \in Slots :
          /\ errors[i] = NoError
          /\ DOMAIN errors' = Slots /\ errors'[i] = e
          /\ \A j \in Slots \ {i} : errors'[j] = errors[j]
    BY <1>1, <2>1, KeptInSlot
  <2>3. Table(errors', errorRefs)
    BY <1>1, <2>2, MakeStep
  <2>4. Table(errors, errorRefs)'
    BY <2>1, <2>3 DEF Table, WellFormed, Honest, Counts
  <2> QED
    BY <1>1, <2>1, <2>4
       DEF CallInv, Control, PendingInv, PendingIsTold
<1>3. CASE ReturnOk
  <2>1. /\ InRust /\ who' = "js" /\ stack' = Front(stack)
        /\ UNCHANGED <<pending, errors, errorRefs, thrown>>
    BY <1>3 DEF ReturnOk
  <2>2. Control' /\ Table(errors, errorRefs)'
    BY <2>1, ReturnStep, TableUnchanged
  <2> QED
    BY <1>1, <2>1, <2>2 DEF CallInv, PendingInv, PendingIsTold
<1>4. CASE Panic
  <2>1. /\ InRust /\ stack' = Front(stack) /\ ThrowInto(e)
        /\ UNCHANGED <<errors, errorRefs>>
    BY <1>4 DEF Panic
  <2>2. Same(e.origin, IntoValue(e))
    BY NewErrorIs
  <2> HIDE DEF e
  <2>3. PendingInv' /\ who' = "js"
    BY <1>1, <2>1, <2>2, ThrowStep
  <2>4. Control' /\ Table(errors, errorRefs)'
    BY <2>1, <2>3, ReturnStep, TableUnchanged
  <2> QED
    BY <2>3, <2>4 DEF CallInv
<1> QED
  BY <1>2, <1>3, <1>4

(* Every step keeps it.                                                    *)
LEMMA CallInvStep ==
  ASSUME CallInv, [CallNext]_callVars
  PROVE  CallInv'
<1>1. CASE UNCHANGED callVars
  <2>1. Table(errors, errorRefs)'
    BY <1>1, TableUnchanged DEF callVars
  <2> QED
    BY <1>1, <2>1
       DEF callVars, CallInv, Control, PendingInv, PendingIsTold
<1>2. CASE CallNext
  BY <1>2, CallRustStep, CallJsStep, RustStep, HeldStep DEF CallNext
<1> QED
  BY <1>1, <1>2

(* However deep the calls between JavaScript and Rust are, whatever they   *)
(* throw and however many Errors there are, the stack is one of Rust       *)
(* functions, which is not empty while Rust runs, an Error has a link of   *)
(* its own, and all references are of N-API (error.rs, function.rs).       *)
THEOREM CallTypesKept == CallSpec => []CallTypeOK
BY CallInvInit, CallInvStep, CallInvImplies, PTL DEF CallSpec

(* A reference to what was thrown counts the Errors that have it, as their *)
(* own or as a cause's, and is deleted with the last: whatever is cloned,  *)
(* dropped, thrown, given away or made a cause, none is released twice or  *)
(* left behind (Drop, try_clone and into_value in error.rs).               *)
THEOREM ReferencesAreHeld == CallSpec => []RefsAreHeld
BY CallInvInit, CallInvStep, CallInvImplies, PTL DEF CallSpec

(* What JavaScript catches is what was thrown, through whatever layers of  *)
(* JavaScript and Rust and whatever is done with the Errors, and while     *)
(* Rust code runs it knows of an exception that is pending, but for the    *)
(* one that making a string of a symbol raises (throw_into, From<Unknown>  *)
(* and into_value in error.rs, Function::call and apply in function.rs).   *)
THEOREM ErrorsCross == CallSpec => []ErrorsAreTold
BY CallInvInit, CallInvStep, CallInvImplies, PTL DEF CallSpec

=============================================================================
