---------------------- MODULE ThreadsafeFunction_proof ----------------------
(* Proofs about ThreadsafeFunction for any threads, queue size and bounds. *)
EXTENDS ThreadsafeFunction, SequenceTheorems, TLAPS

(* The request a process that makes no call is left with is a request.     *)
LEMMA NoRequestType == NoRequest \in Requests
  BY DEF NoRequest, Requests, CallVariants, CallModes

(* The state before ThreadsafeFunction::create satisfies the inductive     *)
(* invariant.                                                              *)
LEMMA InitIndInv == Init => IndInv
<1> SUFFICES ASSUME Init PROVE IndInv
  OBVIOUS
<1>1. queue \in Seq(Payloads) /\ delivered \in Seq(Payloads)
  BY DEF Init
<1>2. /\ pc \in [Procs -> Locations] /\ req \in [Procs -> Requests]
      /\ calls \in [Procs -> 0..MaxCalls] /\ result \in [Procs -> Results]
  BY ConstantsAssumption DEF Init, Locations, Requests, NoRequest,
     CallVariants,
     CallModes, Results
<1>3. /\ aborted \in BOOLEAN /\ contextFreed \in BOOLEAN /\ envGone \in BOOLEAN
      /\ uncaught \subseteq Procs \X (1..MaxCalls) /\ owners \subseteq Procs
  BY DEF Init
<1>4. /\ tsfn \in {"none", "open", "closing", "finalized"} /\ threadCount \in 0..1
      /\ js \in {"loop", "finalizing", "draining"}
      /\ dropStatus \in {"none", "null", "aborted", "ok", "invalid_arg", "freed"}
  BY DEF Init
<1>5. TypeOK
  BY <1>1, <1>2, <1>3, <1>4 DEF TypeOK
<1>6. HandleInv
  BY DEF Init, HandleInv, Held, Using, AbortedIsClosed
<1> QED
  BY <1>5, <1>6 DEF IndInv

(* No step of a caller, of abort, of a Drop or of the event loop leaves    *)
(* the types: in particular every payload put in the queue comes from a    *)
(* call that has begun, and the raw function never counts below zero or    *)
(* above one.                                                              *)
LEMMA TypeStep == IndInv /\ [Next]_vars => TypeOK'
<1> SUFFICES ASSUME IndInv, [Next]_vars PROVE TypeOK'
  OBVIOUS
<1> USE DEF napiVars, handleVars, procVars, jsVars
<1>1. ASSUME Create PROVE TypeOK'
  BY <1>1, ConstantsAssumption DEF Create, IndInv, TypeOK, Locations, Procs
<1>2. ASSUME CreateFailed PROVE TypeOK'
  BY <1>2, ConstantsAssumption DEF CreateFailed, IndInv, TypeOK, Locations,
     Procs
<1>3. ASSUME NEW p \in Procs, NEW q \in Threads, Clone(p, q) PROVE TypeOK'
  BY <1>3, ConstantsAssumption DEF Clone, IndInv, TypeOK, Locations, Procs
<1>4. ASSUME NEW p \in Procs, CallBegin(p) PROVE TypeOK'
  BY <1>4, ConstantsAssumption DEF CallBegin, IndInv, TypeOK, Locations,
     Results,
     Requests
<1>5. ASSUME NEW p \in Procs, DropFuture(p) PROVE TypeOK'
  BY <1>5 DEF DropFuture, CallReturns, IndInv, TypeOK, Locations, Results,
     NoRequest, Requests, CallVariants, CallModes
<1>6. ASSUME NEW p \in Procs, AbortBegin(p) PROVE TypeOK'
  BY <1>6 DEF AbortBegin, IndInv, TypeOK, Locations
<1>7. ASSUME NEW p \in Procs, DropClone(p) PROVE TypeOK'
  BY <1>7 DEF DropClone, IndInv, TypeOK, Locations
<1>8. ASSUME NEW p \in Procs, CallEnter(p) PROVE TypeOK'
  <2>1. pc' \in [Procs -> Locations] /\ result' \in [Procs -> Results]
    BY <1>8 DEF CallEnter, CallReturns, IndInv, TypeOK, Locations, Results
  <2>2. req' \in [Procs -> Requests]
    BY <1>8, NoRequestType DEF CallEnter, CallReturns, IndInv, TypeOK
  <2> QED
    BY <1>8, <2>1, <2>2 DEF CallEnter, IndInv, TypeOK
<1>9. ASSUME NEW p \in Procs, NapiAccept(p) PROVE TypeOK'
  <2>1. [from |-> p, seq |-> calls[p], variant |-> req[p].variant,
         ok |-> req[p].ok] \in Payloads
    BY <1>9, ConstantsAssumption DEF NapiAccept, IndInv, TypeOK, HandleInv,
       Payloads, Requests
  <2>2. queue' \in Seq(Payloads)
    BY <1>9, <2>1 DEF NapiAccept, IndInv, TypeOK
  <2>3. pc' \in [Procs -> Locations] /\ result' \in [Procs -> Results]
    BY <1>9 DEF NapiAccept, CallReturns, IndInv, TypeOK, Locations, Results
  <2>4. req' \in [Procs -> Requests]
    BY <1>9, NoRequestType DEF NapiAccept, CallReturns, IndInv, TypeOK
  <2> QED
    BY <1>9, <2>2, <2>3, <2>4 DEF NapiAccept, IndInv, TypeOK
<1>10. ASSUME NEW p \in Procs, NapiRefuse(p) PROVE TypeOK'
  BY <1>10 DEF NapiRefuse, CallReturns, IndInv, TypeOK, Locations, Results,
     NoRequest, Requests, CallVariants, CallModes
<1>11. ASSUME NEW p \in Procs, NapiClosing(p) PROVE TypeOK'
  BY <1>11 DEF NapiClosing, CallReturns, IndInv, TypeOK, Locations, Results,
     NoRequest, Requests, CallVariants, CallModes
<1>12. ASSUME NEW p \in Procs, AbortLocked(p) PROVE TypeOK'
  <2>1. threadCount' \in 0..1 /\ tsfn' \in {"none", "open", "closing", "finalized"}
    BY <1>12 DEF AbortLocked, IndInv, TypeOK
  <2>2. aborted' \in BOOLEAN
    BY <1>12, Zenon DEF AbortLocked, IndInv, TypeOK
  <2>3. pc' \in [Procs -> Locations]
    BY <1>12 DEF AbortLocked, IndInv, TypeOK, Locations
  <2> QED
    BY <1>12, <2>1, <2>2, <2>3 DEF AbortLocked, IndInv, TypeOK
<1>13. ASSUME NEW p \in Procs, DropHandle(p) PROVE TypeOK'
  BY <1>13 DEF DropHandle, IndInv, TypeOK, Locations
<1>14. ASSUME Deliver PROVE TypeOK'
  <2> DEFINE m == Head(queue)
  <2>1. m \in Payloads /\ Tail(queue) \in Seq(Payloads)
    BY <1>14 DEF Deliver, IndInv, TypeOK
  <2>2. Id(m) \in Procs \X (1..MaxCalls) /\ m.from \in Procs
    BY <2>1 DEF Id, Payloads
  <2>3. delivered' \in Seq(Payloads) /\ queue' \in Seq(Payloads)
    BY <1>14, <2>1 DEF Deliver, IndInv, TypeOK
  <2>4. uncaught' \subseteq Procs \X (1..MaxCalls)
    BY <1>14, <2>2 DEF Deliver, IndInv, TypeOK
  <2>5. \A a, t, c \in BOOLEAN : Settlement(m, a, t, c) \in Results
    BY DEF Settlement, Results
  <2>6. pc' \in [Procs -> Locations] /\ result' \in [Procs -> Results]
    <3>1. PICK a, t, c \in BOOLEAN :
             IF Awaited(m) THEN CallReturns(m.from, Settlement(m, a, t, c))
                           ELSE UNCHANGED <<pc, req, result>>
      BY <1>14, Zenon DEF Deliver
    <3>2. CASE Awaited(m)
      <4>1. Settlement(m, a, t, c) \in Results
        BY <2>5
      <4> QED
        BY <3>1, <3>2, <4>1, <2>2 DEF CallReturns, IndInv, TypeOK, Locations
    <3>3. CASE ~Awaited(m)
      BY <3>1, <3>3 DEF IndInv, TypeOK
    <3> QED
      BY <3>2, <3>3
  <2>7. req' \in [Procs -> Requests]
    BY <1>14, <2>2, NoRequestType DEF Deliver, CallReturns, IndInv, TypeOK
  <2> QED
    BY <1>14, <2>3, <2>4, <2>6, <2>7 DEF Deliver, IndInv, TypeOK
<1>15. ASSUME CloseUnused \/ EnvTeardown PROVE TypeOK'
  BY <1>15 DEF CloseUnused, EnvTeardown, IndInv, TypeOK
<1>16. ASSUME FinalizeBegin PROVE TypeOK'
  <2>1. contextFreed' \in BOOLEAN
    BY <1>16, Zenon DEF FinalizeBegin, IndInv, TypeOK
  <2> QED
    BY <1>16, <2>1 DEF FinalizeBegin, IndInv, TypeOK
<1>18. ASSUME FinalizeLocked PROVE TypeOK'
  <2>1. aborted' \in BOOLEAN /\ contextFreed' \in BOOLEAN
    BY <1>18 DEF FinalizeLocked
  <2> QED
    BY <1>18, <2>1 DEF FinalizeLocked, IndInv, TypeOK
<1>19. ASSUME EmptyQueueAndDelete PROVE TypeOK'
  BY <1>19 DEF EmptyQueueAndDelete, IndInv, TypeOK
<1>17. CASE UNCHANGED vars
  BY <1>17 DEF vars, IndInv, TypeOK
<1> QED
  BY <1>1, <1>2, <1>3, <1>4, <1>5, <1>6, <1>7, <1>8, <1>9, <1>10, <1>11, <1>12,
     <1>13, <1>14, <1>15, <1>16, <1>17, <1>18, <1>19
     DEF Next, Start, Finish, JsLoop, Done

(* No step breaks HandleInv. Each action needs the typing of the variables *)
(* it touches and the guards the code has at that place (the locks, the    *)
(* ownership of the Arc); only Deliver, whose outcome is existentially     *)
(* quantified, has to be taken apart.                                      *)
LEMMA HandleStep == IndInv /\ [Next]_vars => HandleInv'
<1> SUFFICES ASSUME IndInv, [Next]_vars PROVE HandleInv'
  OBVIOUS
<1> USE DEF napiVars, handleVars, procVars, jsVars
<1>1. ASSUME Create PROVE HandleInv'
  BY <1>1, ConstantsAssumption DEF Create, IndInv, TypeOK, HandleInv, Held,
     Using, AbortedIsClosed, Procs
<1>2. ASSUME CreateFailed PROVE HandleInv'
  BY <1>2 DEF CreateFailed, IndInv, TypeOK, HandleInv, Held, Using,
     AbortedIsClosed, Procs
<1>3. ASSUME NEW p \in Procs, NEW q \in Threads, Clone(p, q) PROVE HandleInv'
  BY <1>3 DEF Clone, CanStart, IndInv, TypeOK, HandleInv, Held, Using,
     AbortedIsClosed, Procs
<1>4. ASSUME NEW p \in Procs, CallBegin(p) PROVE HandleInv'
  BY <1>4 DEF CallBegin, CanStart, IndInv, TypeOK, HandleInv, Held, Using,
     AbortedIsClosed
<1>5. ASSUME NEW p \in Procs, DropFuture(p) PROVE HandleInv'
  BY <1>5 DEF DropFuture, CallReturns, IndInv, TypeOK, HandleInv, Held,
     Using, AbortedIsClosed
<1>6. ASSUME NEW p \in Procs, AbortBegin(p) PROVE HandleInv'
  BY <1>6 DEF AbortBegin, CanStart, IndInv, TypeOK, HandleInv, Held, Using,
     AbortedIsClosed
<1>7. ASSUME NEW p \in Procs, DropClone(p) PROVE HandleInv'
  BY <1>7 DEF DropClone, CanStart, LastStrongRef, IndInv, TypeOK, HandleInv,
     Held, Using, AbortedIsClosed
<1>8. ASSUME NEW p \in Procs, CallEnter(p) PROVE HandleInv'
  BY <1>8 DEF CallEnter, CallReturns, IndInv, TypeOK, HandleInv, Held,
     Using, AbortedIsClosed
<1>9. ASSUME NEW p \in Procs, NapiAccept(p) PROVE HandleInv'
  BY <1>9 DEF NapiAccept, CallReturns, IndInv, TypeOK, HandleInv, Held,
     Using, AbortedIsClosed
<1>10. ASSUME NEW p \in Procs, NapiRefuse(p) PROVE HandleInv'
  BY <1>10 DEF NapiRefuse, CallReturns, IndInv, TypeOK, HandleInv, Held,
     Using, AbortedIsClosed
<1>11. ASSUME NEW p \in Procs, NapiClosing(p) PROVE HandleInv'
  BY <1>11 DEF NapiClosing, CallReturns, IndInv, TypeOK, HandleInv, Held,
     Using, AbortedIsClosed
<1>12. ASSUME NEW p \in Procs, AbortLocked(p) PROVE HandleInv'
  BY <1>12 DEF AbortLocked, Readers, IndInv, TypeOK, HandleInv, Held, Using,
     AbortedIsClosed
<1>13. ASSUME NEW p \in Procs, DropHandle(p) PROVE HandleInv'
  BY <1>13 DEF DropHandle, IndInv, TypeOK, HandleInv, Held, Using,
     AbortedIsClosed
<1>14. ASSUME Deliver PROVE HandleInv'
  <2> DEFINE m == Head(queue)
  <2>1. m.from \in Procs
    <3>1. m \in Payloads
      BY <1>14 DEF Deliver, IndInv, TypeOK
    <3> QED
      BY <3>1 DEF Payloads
  <2>2. PICK a, t, c \in BOOLEAN :
             IF Awaited(m) THEN CallReturns(m.from, Settlement(m, a, t, c))
                           ELSE UNCHANGED <<pc, req, result>>
    BY <1>14, Zenon DEF Deliver
  <2>3. \A p \in Procs : pc'[p] = pc[p] \/ (pc[p] = "awaiting" /\ pc'[p] = "idle")
    BY <2>1, <2>2 DEF Awaited, CallReturns, IndInv, TypeOK
  <2>4. UNCHANGED <<tsfn, threadCount, aborted, owners, calls, js, envGone>>
    BY <1>14 DEF Deliver
  <2>5. Held' <=> Held
    BY <2>3, <2>4 DEF Held
  <2>6. HandleInv
    BY DEF IndInv
  <2>7. /\ tsfn' = "none" => ~Held' /\ ~aborted' /\ js' = "loop" /\ ~envGone'
        /\ AbortedIsClosed'
        /\ js' # "loop" => tsfn' = "closing"
        /\ js' = "draining" \/ tsfn' = "finalized" => aborted' \/ owners' = {}
        /\ ~envGone' /\ ~aborted' /\ Held' => tsfn' = "open" /\ threadCount' = 1
    BY <2>4, <2>5, <2>6 DEF HandleInv, AbortedIsClosed
  <2>8. /\ \A p \in Procs : Using(p)' => p \in owners'
        /\ \A p \in Procs : pc'[p] = "inCall" => ~aborted'
        /\ \A p \in Procs : pc'[p] \in {"wantRead", "inCall"} => calls'[p] > 0
    BY <2>3, <2>4, <2>6 DEF HandleInv, Using
  <2>9. \A p \in Procs : pc'[p] = "releasing" =>
           owners' = {} /\ \A q \in Procs : pc'[q] = "releasing" => q = p
    BY <2>3, <2>4, <2>6 DEF HandleInv
  <2> QED
    BY <2>7, <2>8, <2>9 DEF HandleInv
<1>15. ASSUME CloseUnused \/ EnvTeardown PROVE HandleInv'
  BY <1>15 DEF CloseUnused, EnvTeardown, JsIdle, IndInv, TypeOK, HandleInv,
     Held, Using, AbortedIsClosed
<1>16. ASSUME FinalizeBegin PROVE HandleInv'
  BY <1>16 DEF FinalizeBegin, IndInv, TypeOK, HandleInv, Held, Using,
     AbortedIsClosed
<1>18. ASSUME FinalizeLocked PROVE HandleInv'
  BY <1>18 DEF FinalizeLocked, Readers, IndInv, TypeOK, HandleInv, Held,
     Using, AbortedIsClosed
<1>19. ASSUME EmptyQueueAndDelete PROVE HandleInv'
  BY <1>19 DEF EmptyQueueAndDelete, IndInv, TypeOK, HandleInv, Held, Using,
     AbortedIsClosed
<1>17. CASE UNCHANGED vars
  BY <1>17 DEF vars, IndInv, TypeOK, HandleInv, Held, Using, AbortedIsClosed
<1> QED
  BY <1>1, <1>2, <1>3, <1>4, <1>5, <1>6, <1>7, <1>8, <1>9, <1>10, <1>11, <1>12,
     <1>13, <1>14, <1>15, <1>16, <1>17, <1>18, <1>19
     DEF Next, Start, Finish, JsLoop, Done

(* The typing and the handle invariant hold in every reachable state.      *)
THEOREM Invariance == Spec => []IndInv
<1>1. IndInv /\ [Next]_vars => IndInv'
  BY TypeStep, HandleStep DEF IndInv
<1> QED
  BY InitIndInv, <1>1, PTL DEF Spec

(* Every variable keeps its type: in particular the raw function never     *)
(* counts more than the handle's one thread.                               *)
THEOREM TypeCorrect == Spec => []TypeOK
<1>1. IndInv => TypeOK
  BY DEF IndInv
<1> QED
  BY Invariance, <1>1, PTL

(* No thread is inside the raw function when thread_finalize_cb has ended  *)
(* and it is deleted: a caller has a part of the handle, so the            *)
(* finalizer's upgrade succeeds and it has set `aborted` under the write   *)
(* lock.                                                                   *)
THEOREM CallsAreOverAtFinalize == Spec => []NoCallAfterFinalize
<1>1. IndInv => NoCallAfterFinalize
  BY DEF IndInv, HandleInv, NoCallAfterFinalize, Readers, Using
<1> QED
  BY Invariance, <1>1, PTL

(* Once `aborted` is set nothing can pass: the raw function is closing.    *)
THEOREM AbortCloses == Spec => []AbortedIsClosed
<1>1. IndInv => AbortedIsClosed
  BY DEF IndInv, HandleInv
<1> QED
  BY Invariance, <1>1, PTL

(* The assertion in Handle::drop cannot fail while the environment lives.  *)
THEOREM DropAssertion == Spec => []ReleaseSucceedsInLiveEnv
<1>1. Init => ReleaseSucceedsInLiveEnv
  BY DEF Init, ReleaseSucceedsInLiveEnv, ReleaseSucceeds
<1>2. ReleaseSucceedsInLiveEnv /\ IndInv /\ [Next]_vars
         => ReleaseSucceedsInLiveEnv'
  <2> SUFFICES ASSUME ReleaseSucceedsInLiveEnv, IndInv, [Next]_vars
               PROVE  ReleaseSucceedsInLiveEnv'
    OBVIOUS
  <2>1. ASSUME NEW p \in Procs, DropHandle(p) PROVE ReleaseSucceedsInLiveEnv'
    BY <2>1 DEF DropHandle, jsVars, ReleaseSucceedsInLiveEnv, ReleaseSucceeds,
       IndInv, HandleInv, Held
  <2>2. CASE ~\E p \in Procs : DropHandle(p)
    <3>1. (envGone => envGone') /\ dropStatus' \in {dropStatus, "null"}
      <4>1. CASE \E p \in Procs : Start(p)
        BY <4>1 DEF Start, Clone, CallBegin, DropFuture, AbortBegin, DropClone,
           jsVars
      <4>2. CASE \E p \in Procs : Finish(p)
        BY <4>2, <2>2 DEF Finish, CallEnter, NapiAccept, NapiRefuse,
           NapiClosing,
           AbortLocked, DropClone, jsVars
      <4>3. CASE JsLoop
        BY <4>3 DEF JsLoop, Deliver, CloseUnused, FinalizeBegin,
           FinalizeLocked,
           EmptyQueueAndDelete, jsVars
      <4>4. CASE Create \/ CreateFailed \/ EnvTeardown \/ UNCHANGED vars
        BY <4>4 DEF Create, CreateFailed, EnvTeardown, vars, jsVars
      <4> QED
        BY <4>1, <4>2, <4>3, <4>4 DEF Next, Done
    <3> QED
      BY <3>1 DEF ReleaseSucceedsInLiveEnv, ReleaseSucceeds
  <2> QED
    BY <2>1, <2>2
<1> QED
  BY Invariance, <1>1, <1>2, PTL DEF Spec

-----------------------------------------------------------------------------
(* What callers are told: the payloads                                     *)

(* The payloads that N-API accepted, but for those it lost at its end.     *)
Passed == Range(queue) \cup Range(delivered)

(* The call a process is making, or made last.                             *)
CallOf(p) == <<p, calls[p]>>

(* Until its call is in the raw function nothing of it is: a payload is of *)
(* a call that has begun, and of the current one only after NapiAccept.    *)
PayloadInv ==
    /\ \A m \in Passed : m.seq <= calls[m.from]
    /\ \A p \in Procs : pc[p] \in {"wantRead", "inCall"} =>
           \A m \in Passed : Id(m) # CallOf(p)

(* A call that is under way has no result yet, and only a CalleeHandled    *)
(* function is given an Err.                                               *)
PendingInv ==
    /\ \A p \in Procs :
           pc[p] \in {"wantRead", "inCall", "awaiting"} => result[p] = "none"
    /\ ~CalleeHandled => \A p \in Procs : req[p].ok

MessageInv == PayloadInv /\ PendingInv /\ CallersAreTold

(* The payloads of a queue that one is put in, or taken from.              *)
LEMMA RangeAppend ==
  ASSUME NEW S, NEW s \in Seq(S), NEW e \in S
  PROVE  Range(Append(s, e)) = Range(s) \cup {e}
<1>1. /\ Len(Append(s, e)) = Len(s) + 1 /\ Append(s, e) \in Seq(S)
      /\ \A i \in 1..Len(s) : Append(s, e)[i] = s[i]
      /\ Append(s, e)[Len(s) + 1] = e
  BY AppendProperties
<1>2. /\ Range(Append(s, e)) = {Append(s, e)[i] : i \in 1..(Len(s) + 1)}
      /\ Range(s) = {s[i] : i \in 1..Len(s)}
  BY <1>1, RangeEquality
<1>3. \A i \in 1..(Len(s) + 1) : i \in 1..Len(s) \/ i = Len(s) + 1
  OBVIOUS
<1> QED
  BY <1>1, <1>2, <1>3

(* ... and the rest of it.                                                 *)
LEMMA RangeTail ==
  ASSUME NEW S, NEW s \in Seq(S), s # <<>>
  PROVE  Range(s) = Range(Tail(s)) \cup {Head(s)}
<1>1. /\ Tail(s) \in Seq(S) /\ Len(Tail(s)) = Len(s) - 1 /\ Len(s) \in Nat
      /\ \A i \in 1..Len(Tail(s)) : Tail(s)[i] = s[i + 1]
      /\ Head(s) = s[1] /\ Len(s) > 0
  BY HeadTailProperties
<1>2. /\ Range(Tail(s)) = {Tail(s)[i] : i \in 1..Len(Tail(s))}
      /\ Range(s) = {s[i] : i \in 1..Len(s)}
  BY <1>1, RangeEquality
<1>3. \A i \in 1..Len(s) : i = 1 \/ (i - 1 \in 1..Len(Tail(s))
                                     /\ Tail(s)[i - 1] = s[i])
  BY <1>1
<1>4. ASSUME NEW i \in 1..Len(s) PROVE s[i] \in Range(Tail(s)) \cup {Head(s)}
  <2>1. CASE i = 1
    BY <1>1, <2>1
  <2>2. CASE i - 1 \in 1..Len(Tail(s)) /\ Tail(s)[i - 1] = s[i]
    <3>1. Tail(s)[i - 1] \in {Tail(s)[j] : j \in 1..Len(Tail(s))}
      BY <2>2
    <3> QED
      BY <1>2, <2>2, <3>1
  <2> QED
    BY <1>3, <2>1, <2>2
<1>5. Range(Tail(s)) \cup {Head(s)} \subseteq Range(s)
  <2>1. \A i \in 1..Len(Tail(s)) : i + 1 \in 1..Len(s)
    BY <1>1
  <2> QED
    BY <1>1, <1>2, <2>1
<1> QED
  BY <1>2, <1>4, <1>5

(* Payloads are payloads.                                                  *)
LEMMA PassedTypes ==
  ASSUME IndInv
  PROVE  Range(queue) \subseteq Payloads /\ Range(delivered) \subseteq Payloads
BY RangeOfSeq DEF IndInv, TypeOK

(* StatusIsHonest and AsyncNotStranded, process by process.                *)
HonestOf(p) ==
    /\ result[p] \in {"closing", "queue_full", "invalid_arg"} =>
           \A m \in Passed : Id(m) # CallOf(p)
    /\ result[p] = "ok" /\ tsfn # "finalized" =>
           \E m \in Passed : Id(m) = CallOf(p)
    /\ result[p] = "canceled" /\ ~CalleeHandled => CallOf(p) \in uncaught

NotStranded(p) ==
    pc[p] = "awaiting" =>
        \/ \E m \in Range(queue) : Awaited(m) /\ m.from = p
        \/ tsfn = "finalized"

(* CallersAreTold is these of every process.                               *)
LEMMA ToldByEach ==
  CallersAreTold <=> \A p \in Procs : HonestOf(p) /\ NotStranded(p)
BY DEF CallersAreTold, StatusIsHonest, AsyncNotStranded, HonestOf, NotStranded,
   Passed, CallOf

(* The same of the next state.                                             *)
LEMMA ToldByEachNext ==
  CallersAreTold' <=> \A p \in Procs : HonestOf(p)' /\ NotStranded(p)'
BY DEF CallersAreTold, StatusIsHonest, AsyncNotStranded, HonestOf, NotStranded,
   Passed, CallOf

(* A step that puts nothing in the queue, delivers nothing, and ends no    *)
(* call leaves what callers were told as true as it was.                   *)
LEMMA QuietKeeps ==
  ASSUME IndInv, MessageInv,
         UNCHANGED <<queue, delivered, calls, result, req, uncaught>>,
         tsfn = "finalized" => tsfn' = "finalized",
         \A p \in Procs :
            pc'[p] \in {"wantRead", "inCall", "awaiting"} =>
               \/ pc'[p] = pc[p]
               \/ pc[p] = "wantRead" /\ pc'[p] = "inCall"
  PROVE  MessageInv'
<1>1. Passed' = Passed /\ \A p \in Procs : CallOf(p)' = CallOf(p)
  BY DEF Passed, CallOf
<1>2. PayloadInv'
  BY <1>1, PassedTypes DEF MessageInv, PayloadInv, Passed, Payloads
<1>3. PendingInv'
  BY DEF MessageInv, PendingInv
<1>4. ASSUME NEW p \in Procs PROVE HonestOf(p)' /\ NotStranded(p)'
  <2>1. HonestOf(p)'
    BY <1>1, ToldByEach DEF MessageInv, HonestOf
  <2>2. NotStranded(p)'
    BY ToldByEach DEF MessageInv, NotStranded, Awaited
  <2> QED
    BY <2>1, <2>2
<1> QED
  BY <1>2, <1>3, <1>4, ToldByEachNext DEF MessageInv

(* So does a call that ends before its payload is in the queue, whatever   *)
(* it is refused with, and a future that is dropped.                       *)
LEMMA RefusedKeeps ==
  ASSUME IndInv, MessageInv, NEW p \in Procs,
         NEW s \in {"none", "closing", "queue_full", "invalid_arg"},
         CallReturns(p, s), s # "none" => pc[p] \in {"wantRead", "inCall"},
         UNCHANGED <<tsfn, queue, delivered, calls, uncaught>>
  PROVE  MessageInv'
<1>1. /\ Passed' = Passed /\ \A q \in Procs : CallOf(q)' = CallOf(q)
      /\ pc'[p] = "idle" /\ result'[p] = s /\ req'[p] = NoRequest
      /\ \A q \in Procs \ {p} : pc'[q] = pc[q] /\ result'[q] = result[q]
                                /\ req'[q] = req[q]
  BY DEF CallReturns, Passed, CallOf, IndInv, TypeOK
<1>2. PayloadInv'
  BY <1>1, PassedTypes DEF MessageInv, PayloadInv, Passed, Payloads
<1>3. PendingInv'
  BY <1>1 DEF MessageInv, PendingInv, NoRequest
<1>4. HonestOf(p)' /\ NotStranded(p)'
  BY <1>1 DEF MessageInv, PayloadInv, HonestOf, NotStranded
<1>5. ASSUME NEW q \in Procs \ {p} PROVE HonestOf(q)' /\ NotStranded(q)'
  <2>1. HonestOf(q)'
    BY <1>1, ToldByEach DEF MessageInv, HonestOf
  <2>2. NotStranded(q)'
    BY <1>1, ToldByEach DEF MessageInv, NotStranded, Awaited
  <2> QED
    BY <2>1, <2>2
<1> QED
  BY <1>2, <1>3, <1>4, <1>5, ToldByEachNext DEF MessageInv

(* A new call is one of which nothing has passed.                          *)
LEMMA CallBeginKeeps ==
  ASSUME IndInv, MessageInv, NEW p \in Procs, CallBegin(p)
  PROVE  MessageInv'
<1>1. /\ UNCHANGED <<tsfn, queue, delivered, uncaught>>
      /\ calls'[p] = calls[p] + 1 /\ calls[p] \in Nat
      /\ pc'[p] = "wantRead" /\ result'[p] = "none"
      /\ ~CalleeHandled => req'[p].ok
      /\ \A q \in Procs \ {p} :
            /\ pc'[q] = pc[q] /\ result'[q] = result[q] /\ req'[q] = req[q]
            /\ calls'[q] = calls[q]
  BY ConstantsAssumption
  DEF CallBegin, napiVars, handleVars, jsVars, IndInv, TypeOK
<1>2. /\ Passed' = Passed /\ Passed \subseteq Payloads
      /\ \A q \in Procs \ {p} : CallOf(q)' = CallOf(q)
  BY <1>1, PassedTypes DEF Passed, CallOf
<1>3. ASSUME NEW m \in Passed
      PROVE  /\ m.from \in Procs /\ m.seq \in Nat /\ m.seq <= calls'[m.from]
             /\ Id(m) # CallOf(p)'
  <2>1. m.from \in Procs /\ m.seq \in Nat /\ m.seq <= calls[m.from]
    BY <1>2, ConstantsAssumption DEF MessageInv, PayloadInv, Payloads
  <2>2. m.seq <= calls'[m.from] /\ (m.from = p => m.seq # calls'[p])
    BY <1>1, <2>1
  <2> QED
    BY <2>1, <2>2 DEF Id, CallOf
<1>4. PayloadInv'
  BY <1>1, <1>2, <1>3 DEF MessageInv, PayloadInv
<1>5. PendingInv'
  BY <1>1 DEF MessageInv, PendingInv
<1>6. HonestOf(p)' /\ NotStranded(p)'
  BY <1>1 DEF HonestOf, NotStranded
<1>7. ASSUME NEW q \in Procs \ {p} PROVE HonestOf(q)' /\ NotStranded(q)'
  <2>1. HonestOf(q)'
    BY <1>1, <1>2, ToldByEach DEF MessageInv, HonestOf
  <2>2. NotStranded(q)'
    BY <1>1, ToldByEach DEF MessageInv, NotStranded, Awaited
  <2> QED
    BY <2>1, <2>2
<1> QED
  BY <1>4, <1>5, <1>6, <1>7, ToldByEachNext DEF MessageInv

(* A payload that N-API accepts is that of the call its caller is making.  *)
LEMMA NapiAcceptKeeps ==
  ASSUME IndInv, MessageInv, NEW p \in Procs, NapiAccept(p)
  PROVE  MessageInv'
<1>0. PICK m : m = [from |-> p, seq |-> calls[p], variant |-> req[p].variant,
                    ok |-> req[p].ok]
  OBVIOUS
<1>1. /\ UNCHANGED <<tsfn, delivered, calls, uncaught>>
      /\ tsfn = "open" /\ pc[p] = "inCall" /\ queue' = Append(queue, m)
      /\ \A q \in Procs : CallOf(q)' = CallOf(q)
  BY <1>0 DEF NapiAccept, handleVars, jsVars, CallOf
<1>2. /\ m \in Payloads /\ Id(m) = CallOf(p) /\ m.from = p
      /\ m.seq = calls[p] /\ calls[p] \in Nat
  BY <1>0, <1>1, ConstantsAssumption
  DEF IndInv, TypeOK, HandleInv, Payloads, Requests, Id, CallOf
<1>3. Range(queue') = Range(queue) \cup {m} /\ Passed' = Passed \cup {m}
  BY <1>1, <1>2, RangeAppend DEF IndInv, TypeOK, Passed
<1>4. /\ \/ pc'[p] = "idle" /\ result'[p] = "ok"
         \/ pc'[p] = "idle" /\ result'[p] = "canceled" /\ ~req[p].ok
         \/ pc'[p] = "awaiting" /\ result'[p] = "none" /\ m.variant = "async"
      /\ req'[p] \in {req[p], NoRequest}
      /\ \A q \in Procs \ {p} : pc'[q] = pc[q] /\ result'[q] = result[q]
                                /\ req'[q] = req[q]
  BY <1>0, <1>1
  DEF NapiAccept, CallReturns, IndInv, TypeOK, MessageInv, PendingInv
<1>5. ASSUME NEW q \in Procs \ {p} PROVE Id(m) # CallOf(q)
  BY <1>2 DEF CallOf
<1>6. PayloadInv'
  <2>1. \A n \in Passed' : n.seq <= calls'[n.from]
    BY <1>1, <1>2, <1>3 DEF MessageInv, PayloadInv
  <2>2. \A q \in Procs : pc'[q] \in {"wantRead", "inCall"} =>
           q # p /\ \A n \in Passed' : Id(n) # CallOf(q)
    BY <1>3, <1>4, <1>5 DEF MessageInv, PayloadInv
  <2> QED
    BY <1>1, <2>1, <2>2 DEF PayloadInv, Id
<1>7. PendingInv'
  BY <1>4 DEF MessageInv, PendingInv, NoRequest
<1>8. HonestOf(p)' /\ NotStranded(p)'
  <2>1. \E n \in Passed' : Id(n) = CallOf(p)
    BY <1>2, <1>3
  <2>2. HonestOf(p)'
    BY <1>1, <1>4, <2>1 DEF HonestOf, MessageInv, PendingInv, Id
  <2>3. pc'[p] = "awaiting" => Awaited(m)'
    BY <1>1, <1>2, <1>4 DEF Awaited
  <2> QED
    BY <1>2, <1>3, <2>2, <2>3 DEF NotStranded
<1>9. ASSUME NEW q \in Procs \ {p} PROVE HonestOf(q)' /\ NotStranded(q)'
  <2>1. HonestOf(q)'
    BY <1>1, <1>3, <1>4, <1>5, ToldByEach DEF MessageInv, HonestOf, Id
  <2>2. \A n \in Range(queue) : Awaited(n) /\ n.from = q => Awaited(n)'
    BY <1>1, <1>4 DEF Awaited
  <2>3. NotStranded(q)'
    BY <1>1, <1>3, <1>4, <2>2, ToldByEach DEF MessageInv, NotStranded
  <2> QED
    BY <2>1, <2>3
<1> QED
  BY <1>6, <1>7, <1>8, <1>9, ToldByEachNext DEF MessageInv

(* A payload that is delivered has passed before; the future it settles is *)
(* that of the call it belongs to.                                         *)
LEMMA DeliverKeeps ==
  ASSUME IndInv, MessageInv, Deliver
  PROVE  MessageInv'
<1>0. PICK m : m = Head(queue)
  OBVIOUS
<1>1. /\ UNCHANGED <<tsfn, calls>> /\ tsfn = "open" /\ queue # <<>>
      /\ queue' = Tail(queue) /\ delivered' = Append(delivered, m)
      /\ \A q \in Procs : CallOf(q)' = CallOf(q)
  BY <1>0 DEF Deliver, CallOf
<1>2. PICK a, t, c, k \in BOOLEAN :
         /\ uncaught' = IF Uncaught(m, a, t, c, k) THEN uncaught \cup {Id(m)}
                                                   ELSE uncaught
         /\ IF Awaited(m) THEN CallReturns(m.from, Settlement(m, a, t, c))
                          ELSE UNCHANGED <<pc, req, result>>
  BY <1>0, Zenon DEF Deliver
<1>3. /\ Range(queue) = Range(queue') \cup {m} /\ m \in Payloads
      /\ Range(delivered') = Range(delivered) \cup {m}
  BY <1>0, <1>1, RangeTail, RangeAppend, HeadTailProperties DEF IndInv, TypeOK
<1>4. /\ Passed' = Passed /\ m \in Passed /\ m.from \in Procs
      /\ uncaught \subseteq uncaught'
  BY <1>2, <1>3 DEF Passed, Payloads
<1>5. PayloadInv'
  <2>1. \A p \in Procs : pc'[p] \in {"wantRead", "inCall"} => pc'[p] = pc[p]
    BY <1>2, <1>4 DEF CallReturns, IndInv, TypeOK
  <2> QED
    BY <1>1, <1>4, <2>1 DEF MessageInv, PayloadInv, Id
<1>6. CASE Awaited(m)
  <2>0. PICK p \in Procs : p = m.from
    BY <1>4
  <2> DEFINE s == Settlement(m, a, t, c)
  <2>1. /\ pc'[p] = "idle" /\ result'[p] = s /\ req'[p] = NoRequest
        /\ \A q \in Procs \ {p} : pc'[q] = pc[q] /\ result'[q] = result[q]
                                  /\ req'[q] = req[q]
    BY <1>2, <1>6, <2>0 DEF CallReturns, IndInv, TypeOK
  <2>2. s \in {"value", "error", "canceled"}
    BY DEF Settlement
  <2>3. s = "canceled" /\ ~CalleeHandled => Uncaught(m, a, t, c, k)
    BY <1>6 DEF Settlement, Uncaught, Awaited
  <2>4. Id(m) = CallOf(p)
    BY <1>6, <2>0 DEF Awaited, Id, CallOf
  <2> HIDE DEF s
  <2>5. PendingInv'
    BY <2>1 DEF MessageInv, PendingInv, NoRequest
  <2>6. HonestOf(p)' /\ NotStranded(p)'
    BY <1>1, <1>2, <1>4, <2>1, <2>2, <2>3, <2>4 DEF HonestOf, NotStranded
  <2>7. ASSUME NEW q \in Procs \ {p} PROVE HonestOf(q)' /\ NotStranded(q)'
    <3>1. HonestOf(q)'
      BY <1>1, <1>4, <2>1, ToldByEach DEF MessageInv, HonestOf, Id
    <3>2. \A n \in Range(queue) : Awaited(n) /\ n.from = q =>
             Awaited(n)' /\ n \in Range(queue')
      BY <1>1, <1>3, <2>0, <2>1 DEF Awaited
    <3>3. NotStranded(q)'
      BY <1>1, <2>1, <3>2, ToldByEach DEF MessageInv, NotStranded
    <3> QED
      BY <3>1, <3>3
  <2> QED
    BY <1>5, <2>5, <2>6, <2>7, ToldByEachNext DEF MessageInv
<1>7. CASE ~Awaited(m)
  <2>1. UNCHANGED <<pc, req, result>>
    BY <1>2, <1>7
  <2>2. PendingInv'
    BY <2>1 DEF MessageInv, PendingInv
  <2>3. ASSUME NEW q \in Procs PROVE HonestOf(q)' /\ NotStranded(q)'
    <3>1. HonestOf(q)'
      BY <1>1, <1>4, <2>1, ToldByEach DEF MessageInv, HonestOf, Id
    <3>2. \A n \in Range(queue) :
             Awaited(n) => Awaited(n)' /\ n \in Range(queue')
      BY <1>1, <1>3, <1>7, <2>1 DEF Awaited
    <3>3. NotStranded(q)'
      BY <1>1, <2>1, <3>2, ToldByEach DEF MessageInv, NotStranded
    <3> QED
      BY <3>1, <3>3
  <2> QED
    BY <1>5, <2>2, <2>3, ToldByEachNext DEF MessageInv
<1> QED
  BY <1>6, <1>7

(* What is lost with the raw function is not claimed to have passed.       *)
LEMMA DeleteKeeps ==
  ASSUME IndInv, MessageInv, EmptyQueueAndDelete
  PROVE  MessageInv'
<1>1. /\ UNCHANGED <<pc, req, calls, result, delivered, uncaught>>
      /\ tsfn' = "finalized" /\ queue' = <<>>
      /\ \A q \in Procs : CallOf(q)' = CallOf(q)
  BY DEF EmptyQueueAndDelete, procVars, CallOf
<1>2. Passed' \subseteq Passed
  BY <1>1 DEF Passed, Range
<1>3. PayloadInv' /\ PendingInv'
  BY <1>1, <1>2 DEF MessageInv, PayloadInv, PendingInv, Id
<1>4. ASSUME NEW q \in Procs PROVE HonestOf(q)' /\ NotStranded(q)'
  BY <1>1, <1>2, ToldByEach DEF MessageInv, HonestOf, NotStranded, Id
<1> QED
  BY <1>3, <1>4, ToldByEachNext DEF MessageInv

(* Every step keeps it.                                                    *)
LEMMA MessageStep ==
  ASSUME IndInv, MessageInv, [Next]_vars
  PROVE  MessageInv'
<1> USE DEF napiVars, handleVars, procVars, jsVars
<1>1. ASSUME NEW p \in Procs, Finish(p) PROVE MessageInv'
  <2>1. CASE CallEnter(p) /\ aborted
    BY <2>1, RefusedKeeps DEF CallEnter
  <2>2. CASE CallEnter(p) /\ ~aborted
    BY <2>2, QuietKeeps DEF CallEnter, IndInv, TypeOK
  <2>3. CASE NapiRefuse(p)
    BY <2>3, RefusedKeeps DEF NapiRefuse
  <2>4. CASE NapiClosing(p)
    BY <2>4, RefusedKeeps DEF NapiClosing
  <2>5. CASE AbortLocked(p)
    BY <2>5, QuietKeeps DEF AbortLocked, IndInv, TypeOK
  <2>6. CASE DropHandle(p)
    BY <2>6, QuietKeeps DEF DropHandle, IndInv, TypeOK
  <2>7. CASE DropClone(p)
    BY <2>7, QuietKeeps DEF DropClone, IndInv, TypeOK
  <2> QED
    BY <1>1, <2>1, <2>2, <2>3, <2>4, <2>5, <2>6, <2>7, NapiAcceptKeeps
    DEF Finish
<1>2. ASSUME NEW p \in Procs, Start(p) PROVE MessageInv'
  <2>1. ASSUME NEW q \in Threads, Clone(p, q) PROVE MessageInv'
    BY <2>1, QuietKeeps DEF Clone
  <2>2. CASE DropFuture(p)
    BY <2>2, RefusedKeeps DEF DropFuture
  <2>3. CASE AbortBegin(p)
    BY <2>3, QuietKeeps DEF AbortBegin, IndInv, TypeOK
  <2>4. CASE DropClone(p)
    BY <2>4, QuietKeeps DEF DropClone, IndInv, TypeOK
  <2> QED
    BY <1>2, <2>1, <2>2, <2>3, <2>4, CallBeginKeeps DEF Start
<1>3. CASE JsLoop
  <2>1. CASE CloseUnused
    BY <2>1, QuietKeeps DEF CloseUnused
  <2>2. CASE FinalizeBegin
    BY <2>2, QuietKeeps DEF FinalizeBegin
  <2>3. CASE FinalizeLocked
    BY <2>3, QuietKeeps DEF FinalizeLocked
  <2> QED
    BY <1>3, <2>1, <2>2, <2>3, DeliverKeeps, DeleteKeeps DEF JsLoop
<1>4. CASE Create
  BY <1>4, QuietKeeps DEF Create, IndInv, TypeOK, Procs
<1>5. CASE CreateFailed
  BY <1>5, QuietKeeps DEF CreateFailed
<1>6. CASE EnvTeardown
  BY <1>6, QuietKeeps DEF EnvTeardown
<1>7. CASE UNCHANGED vars
  BY <1>7, QuietKeeps DEF vars
<1> QED
  BY <1>1, <1>2, <1>3, <1>4, <1>5, <1>6, <1>7 DEF Next, Done

(* Callers are told the truth, however their calls interleave with abort,  *)
(* the finalizer and the loop: what was refused never reaches JS, what was *)
(* accepted does unless it is lost with the raw function, and a future     *)
(* that waits has its sender in the queue until then.                      *)
THEOREM CallersKnow == Spec => []CallersAreTold
<1>1. Init => MessageInv
  <2> SUFFICES ASSUME Init PROVE MessageInv
    OBVIOUS
  <2>1. Passed = {}
    BY DEF Init, Passed, Range
  <2>2. PayloadInv /\ PendingInv
    BY <2>1 DEF Init, PayloadInv, PendingInv, NoRequest
  <2>3. CallersAreTold
    BY ToldByEach DEF Init, HonestOf, NotStranded
  <2> QED
    BY <2>2, <2>3 DEF MessageInv
<1>2. MessageInv /\ IndInv /\ [Next]_vars => MessageInv'
  BY MessageStep
<1>3. MessageInv => CallersAreTold
  BY DEF MessageInv
<1> QED
  BY Invariance, <1>1, <1>2, <1>3, PTL DEF Spec

=============================================================================
