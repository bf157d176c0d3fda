------------------------- MODULE PromiseFuture_proof -------------------------
(***************************************************************************)
(* Proofs about TokioFuture and PromiseFuture for any jobs and any number  *)
(* of shutdowns: the types, that a deferred is answered and a callback of  *)
(* a promise is dropped once, and that promises settle as Settlement says. *)
(***************************************************************************)
EXTENDS PromiseFuture, SequenceTheorems, TLAPS

Settled(j) == promise[j] \in {"fulfilled", "rejected"}

-----------------------------------------------------------------------------
(* The inductive invariant                                                 *)

(* A future has not been started, or was dropped before it ran, or owns    *)
(* its resolver until it ends.                                             *)
FutureInv(j) ==
    /\ fut[j] = "none" => tsfn[j] = "none" /\ finalizer[j] = "none"
    /\ fut[j] \in {"none", "unspawned"} =>
          /\ promise[j] = "none" /\ outcome[j] = "none"
          /\ answers[j] = 0 /\ watcher[j] = "none"
          /\ resolver[j] \in {"none", "unused"}
    /\ fut[j] \notin {"none", "unspawned"} =>
          promise[j] # "none" /\ tsfn[j] # "none" /\ resolver[j] \notin {"none", "unused"}
    /\ resolver[j] = "held" <=> fut[j] = "running"
    /\ fut[j] = "running" => outcome[j] = "none" /\ answers[j] = 0
    /\ fut[j] = "panicked" /\ watcher[j] # "done" => answers[j] = 0
    /\ fut[j] = "panicked" =>
          envGone \/ (outcome[j] = "none" /\ resolver[j] = "lost")
    /\ starting = j =>
          /\ fut[j] \notin {"none", "unspawned"}
          /\ watcher[j] = "none" /\ tsfn[j] = "open"

(* A deferred has one answer at most; its function is open, with one       *)
(* thread, until the answer is delivered or the environment ends.          *)
FunctionInv(j) ==
    /\ queue[j] \in {<< >>, <<"ok">>, <<"err">>}
    /\ answers[j] \in 0..1
    /\ queue[j] # << >> => answers[j] = 1 /\ ~Settled(j) /\ j \notin bareRuns
    /\ answers[j] = 0 => ~Settled(j) /\ j \notin bareRuns
    /\ Settled(j) => count[j] = 0
    /\ tsfn[j] = "open" => ~envGone
    /\ tsfn[j] = "open" /\ ~Settled(j) => count[j] = 1
    /\ tsfn[j] = "open" /\ answers[j] = 1 => Settled(j) \/ queue[j] # << >>
    /\ tsfn[j] \in {"closing", "finalized"} => envGone \/ Settled(j)
    /\ tsfn[j] = "none" => ~Settled(j) /\ answers[j] = 0
    /\ j \in bareRuns => envGone /\ tsfn[j] = "finalized"

(* What answering brings about: the finalize callback runs, and a resolver *)
(* goes the way of its value.                                              *)
AnswerInv(j) ==
    /\ finalizer[j] = "ran" => Settled(j) \/ j \in bareRuns
    /\ Settled(j) \/ j \in bareRuns => finalizer[j] # "armed"
    /\ queue[j] = <<"ok">> => outcome[j] = "ok" /\ resolver[j] = "queued"
    /\ queue[j] = <<"err">> => outcome[j] # "ok" /\ resolver[j] = "lost"
    /\ resolver[j] \in {"ran", "queued", "leaked"} => outcome[j] = "ok"
    /\ resolver[j] = "lost" => outcome[j] # "ok"
    /\ resolver[j] = "leaked" => envGone
    /\ Settled(j) => resolver[j] = IF outcome[j] = "ok" THEN "ran" ELSE "lost"
    /\ promise[j] = "fulfilled" => outcome[j] = "ok"

DeferredInv == \A j \in Jobs : FutureInv(j) /\ FunctionInv(j) /\ AnswerInv(j)

(* The callbacks chained to a promise: a box is armed until it is dropped, *)
(* and somebody has told the future before its promise can be collected.   *)
CallbackInv(j) ==
    /\ \A c \in Callbacks :
          /\ drops[j][c] = IF box[j][c] \in {"taken", "freed"} THEN 1 ELSE 0
          /\ link[j][c] = "pending" => box[j][c] = "armed"
          /\ link[j][c] = "collected" => box[j][c] \in {"taken", "freed"}
          /\ link[j][c] = "none" => box[j][c] = "none"
          /\ link[j][c] # "none" => box[j][c] # "none" /\ source[j] # "none"
    /\ link[j]["then"] = "rejected" => box[j]["then"] = "armed"
    /\ link[j]["then"] \in {"fulfilled", "rejected"} =>
          source[j] \in {"fulfilled", "rejected"}
    /\ link[j]["then"] = "fulfilled" => channel[j] # "empty"
    /\ link[j]["catch"] = "fulfilled" => channel[j] # "empty"
    /\ link[j]["catch"] = "collected" =>
          channel[j] # "empty" \/ envGone \/ source[j] = "lost"
    /\ channel[j] = "canceled" => envGone \/ source[j] = "lost"
    /\ fut[j] = "none" => source[j] = "none"
    /\ source[j] = "none" => channel[j] = "empty"

AwaitInv ==
    /\ drops \in [Jobs -> [Callbacks -> Nat]]
    /\ \A j \in Jobs : CallbackInv(j)

StaleInv == staleCalls # {} => envGone

IndInv == AwaitTypeOK /\ DeferredInv /\ StaleInv /\ AwaitInv

-----------------------------------------------------------------------------
(* A process without futures satisfies the invariant.                      *)
LEMMA InitIndInv == AwaitInit => IndInv
<1> SUFFICES ASSUME AwaitInit PROVE IndInv
  OBVIOUS
<1>1. /\ queue \in [Jobs -> Seq({"ok", "err"})] /\ answers \in [Jobs -> Nat]
      /\ count \in [Jobs -> 0..1] /\ shutdowns \in 0..MaxShutdowns
  BY ConstantsAssumption DEF AwaitInit, Init
<1>2. TypeOK
  BY <1>1 DEF AwaitInit, Init, TypeOK, FutStates, ResolverStates
<1>3. AwaitTypeOK
  BY <1>2 DEF AwaitInit, AwaitTypeOK, SourceStates, Each
<1>4. DeferredInv /\ StaleInv
  BY ConstantsAssumption DEF AwaitInit, Init, DeferredInv, FutureInv, FunctionInv, AnswerInv,
     StaleInv, Settled
<1>5. AwaitInv
  <2>1. /\ \A j \in Jobs : \A c \in Callbacks :
              link[j][c] = "none" /\ box[j][c] = "none" /\ drops[j][c] = 0
        /\ drops \in [Jobs -> [Callbacks -> Nat]]
    BY DEF AwaitInit, Each
  <2> QED
    BY <2>1 DEF AwaitInit, Init, AwaitInv, CallbackInv, Callbacks
<1> QED
  BY <1>3, <1>4, <1>5 DEF IndInv

(* The only answers a function can have queued.                            *)
LEMMA QueueFacts ==
    /\ \A a \in {"ok", "err"} :
          Append(<< >>, a) = <<a>> /\ Head(<<a>>) = a /\ Tail(<<a>>) = << >>
    /\ << >> # <<"ok">> /\ << >> # <<"err">> /\ <<"ok">> # <<"err">>
<1> QED
  OBVIOUS

(* JsDeferred::call_tsfn, by a task whose deferred has no answer yet: an   *)
(* open function gets it, and any other is one of a dead environment.      *)
LEMMA CallEffect ==
    ASSUME TypeOK, DeferredInv, NEW j \in Jobs, NEW a \in {"ok", "err"},
           answers[j] = 0, fut[j] \notin {"none", "unspawned"}, CallTsfn(j, a)
    PROVE  /\ count' \in [Jobs -> 0..1] /\ answers' \in [Jobs -> Nat]
           /\ queue' \in [Jobs -> Seq({"ok", "err"})] /\ staleCalls' \subseteq Jobs
           /\ \A i \in Jobs \ {j} : /\ count'[i] = count[i] /\ queue'[i] = queue[i]
                                    /\ answers'[i] = answers[i]
           /\ \/ /\ tsfn[j] = "open" /\ queue'[j] = <<a>> /\ answers'[j] = 1
                 /\ count'[j] = 1 /\ staleCalls' = staleCalls /\ ~envGone
              \/ /\ tsfn[j] # "open" /\ queue'[j] = queue[j] /\ queue[j] = << >>
                 /\ answers'[j] = 0 /\ envGone
           /\ tsfn' = tsfn
<1>1. queue[j] = << >> /\ ~Settled(j) /\ tsfn[j] # "none"
  BY DEF DeferredInv, FunctionInv, FutureInv
<1>2. CASE tsfn[j] = "open"
  <2>1. count[j] = 1 /\ ~envGone
    BY <1>1, <1>2 DEF DeferredInv, FunctionInv
  <2>2. /\ queue' = [queue EXCEPT ![j] = Append(@, a)]
        /\ answers' = [answers EXCEPT ![j] = @ + 1]
        /\ UNCHANGED <<count, staleCalls, tsfn>>
    BY <1>2 DEF CallTsfn
  <2>3. queue' \in [Jobs -> Seq({"ok", "err"})] /\ queue'[j] = <<a>>
    BY <1>1, <2>2, QueueFacts DEF TypeOK
  <2>4. answers' \in [Jobs -> Nat] /\ answers'[j] = 1
    BY <2>2 DEF TypeOK
  <2> QED
    BY <1>2, <2>1, <2>2, <2>3, <2>4 DEF TypeOK
<1>3. CASE tsfn[j] # "open"
  <2>1. envGone
    BY <1>1, <1>3 DEF DeferredInv, FunctionInv, TypeOK
  <2>2. /\ count' = [count EXCEPT ![j] = IF @ > 0 THEN @ - 1 ELSE 0]
        /\ staleCalls' \subseteq staleCalls \cup {j} /\ UNCHANGED <<queue, answers, tsfn>>
    BY <1>3 DEF CallTsfn
  <2>3. count' \in [Jobs -> 0..1]
    BY <2>2 DEF TypeOK
  <2> QED
    BY <1>1, <1>3, <2>1, <2>2, <2>3 DEF TypeOK
<1> QED
  BY <1>2, <1>3

(* A step that leaves a job alone leaves its invariant alone.              *)
LEMMA JobFrame ==
    ASSUME DeferredInv, NEW j \in Jobs,
           /\ fut'[j] = fut[j] /\ watcher'[j] = watcher[j]
           /\ outcome'[j] = outcome[j] /\ tsfn'[j] = tsfn[j]
           /\ count'[j] = count[j] /\ queue'[j] = queue[j]
           /\ promise'[j] = promise[j] /\ finalizer'[j] = finalizer[j]
           /\ resolver'[j] = resolver[j] /\ answers'[j] = answers[j]
           /\ (j \in bareRuns' <=> j \in bareRuns) /\ envGone' = envGone
           /\ starting' = j => starting = j
    PROVE  (FutureInv(j) /\ FunctionInv(j) /\ AnswerInv(j))'
<1> QED
  BY DEF DeferredInv, FutureInv, FunctionInv, AnswerInv, Settled

(* The runtime is shut down and started.                                   *)
LEMMA RuntimeStep ==
    ASSUME IndInv, Shutdown \/ StartRuntime
    PROVE  TypeOK' /\ DeferredInv' /\ StaleInv'
<1>1. TypeOK'
  <2>1. rt' \in BOOLEAN /\ envGone' \in BOOLEAN
    BY Zenon DEF Shutdown, StartRuntime, IndInv, AwaitTypeOK, TypeOK
  <2>2. shutdowns' \in 0..MaxShutdowns
    BY ConstantsAssumption DEF Shutdown, StartRuntime, IndInv, AwaitTypeOK, TypeOK
  <2>3. doomed' \subseteq Jobs
    BY DEF Shutdown, StartRuntime, IndInv, AwaitTypeOK, TypeOK
  <2> QED
    BY <2>1, <2>2, <2>3 DEF Shutdown, StartRuntime, taskVars, tsfnVars, IndInv, AwaitTypeOK, TypeOK
<1>2. DeferredInv'
  <2> SUFFICES ASSUME NEW j \in Jobs
               PROVE  (FutureInv(j) /\ FunctionInv(j) /\ AnswerInv(j))'
    BY DEF DeferredInv
  <2> QED
    BY JobFrame DEF Shutdown, StartRuntime, taskVars, tsfnVars, IndInv
<1> QED
  BY <1>1, <1>2 DEF Shutdown, StartRuntime, StaleInv, IndInv

(* A future is started: an open function with one thread, or nothing.      *)
LEMMA StartStep ==
    ASSUME IndInv, NEW j \in Jobs, Start(j)
    PROVE  TypeOK' /\ DeferredInv' /\ StaleInv'
<1>1. TypeOK /\ DeferredInv
  BY DEF IndInv, AwaitTypeOK
<1>2. /\ fut[j] = "none" /\ tsfn[j] = "none" /\ finalizer[j] = "none"
      /\ promise[j] = "none" /\ outcome[j] = "none" /\ answers[j] = 0
      /\ watcher[j] = "none" /\ queue[j] = << >> /\ j \notin bareRuns
      /\ ~envGone /\ starting = NoJob
  BY <1>1, QueueFacts DEF Start, JsFree, DeferredInv, FutureInv, FunctionInv
<1>3. UNCHANGED <<rt, shutdowns, doomed, watcher, outcome, bareRuns, envGone,
                  queue, answers, staleCalls>>
  BY DEF Start, NewDeferred, rtVars, tsfnVars
<1> DEFINE Types ==
             /\ fut' \in [Jobs -> FutStates] /\ resolver' \in [Jobs -> ResolverStates]
             /\ promise' \in [Jobs -> {"none", "pending", "fulfilled", "rejected"}]
             /\ tsfn' \in [Jobs -> {"none", "open", "closing", "finalized"}]
             /\ count' \in [Jobs -> 0..1] /\ starting' \in Jobs \cup {NoJob}
           Others ==
             /\ \A i \in Jobs \ {j} :
                   /\ fut'[i] = fut[i] /\ resolver'[i] = resolver[i]
                   /\ promise'[i] = promise[i] /\ tsfn'[i] = tsfn[i]
                   /\ count'[i] = count[i]
             /\ starting' \in {j, NoJob}
           Here ==
             \/ /\ fut'[j] = "running" /\ resolver'[j] = "held" /\ promise'[j] = "pending"
                /\ tsfn'[j] = "open" /\ count'[j] = 1
             \/ /\ fut'[j] = "unspawned" /\ resolver'[j] = "unused"
                /\ promise'[j] = "none" /\ starting' = NoJob
                /\ tsfn'[j] = "none" \/ (tsfn'[j] = "open" /\ count'[j] = 1)
<1>4. Types /\ Others /\ Here
  <2>1. CASE NewDeferred(j) /\ Spawn(j) /\ rt
    <3>1. /\ fut' = [fut EXCEPT ![j] = "running"]
          /\ promise' = [promise EXCEPT ![j] = "pending"]
          /\ resolver' = [resolver EXCEPT ![j] = "held"]
          /\ starting' = j
          /\ tsfn' = [tsfn EXCEPT ![j] = "open"] /\ count' = [count EXCEPT ![j] = 1]
      BY <2>1, Zenon DEF NewDeferred, Spawn
    <3> QED
      BY <1>1, <3>1 DEF TypeOK, FutStates, ResolverStates
  <2>2. CASE NewDeferred(j) /\ Spawn(j) /\ ~rt
    <3>1. /\ fut' = [fut EXCEPT ![j] = "unspawned"]
          /\ resolver' = [resolver EXCEPT ![j] = "unused"]
          /\ promise' = promise /\ starting' = starting
          /\ tsfn' = [tsfn EXCEPT ![j] = "open"] /\ count' = [count EXCEPT ![j] = 1]
      BY <2>2, Zenon DEF NewDeferred, Spawn
    <3> QED
      BY <1>1, <1>2, <3>1 DEF TypeOK, FutStates, ResolverStates
  <2>3. CASE /\ fut' = [fut EXCEPT ![j] = "unspawned"]
             /\ resolver' = [resolver EXCEPT ![j] = "unused"]
             /\ UNCHANGED <<tsfnVars, promise, starting>>
    BY <1>1, <1>2, <2>3 DEF tsfnVars, TypeOK, FutStates, ResolverStates
  <2> QED
    BY <2>1, <2>2, <2>3, Zenon DEF Start
<1>5. /\ finalizer' \in [Jobs -> {"none", "armed", "ran"}]
      /\ finalizer'[j] \in {"none", "armed"}
      /\ \A i \in Jobs \ {j} : finalizer'[i] = finalizer[i]
  <2>1. \/ \E f \in {"none", "armed"} : finalizer' = [finalizer EXCEPT ![j] = f]
        \/ finalizer' = finalizer
    BY Zenon DEF Start
  <2>2. ASSUME NEW f \in {"none", "armed"}, finalizer' = [finalizer EXCEPT ![j] = f]
        PROVE  /\ finalizer' \in [Jobs -> {"none", "armed", "ran"}]
               /\ finalizer'[j] = f
               /\ \A i \in Jobs \ {j} : finalizer'[i] = finalizer[i]
    BY <1>1, <2>2 DEF TypeOK
  <2>3. CASE finalizer' = finalizer
    BY <1>1, <1>2, <2>3 DEF TypeOK
  <2> QED
    BY <2>1, <2>2, <2>3
<1>6. TypeOK'
  <2>1. rt' \in BOOLEAN /\ envGone' \in BOOLEAN /\ shutdowns' \in 0..MaxShutdowns
    BY <1>1, <1>3 DEF TypeOK
  <2>2. /\ doomed' \subseteq Jobs /\ watcher' \in [Jobs -> {"none", "waiting", "done"}]
        /\ outcome' \in [Jobs -> {"none", "ok", "err"}] /\ answers' \in [Jobs -> Nat]
        /\ queue' \in [Jobs -> Seq({"ok", "err"})]
        /\ staleCalls' \subseteq Jobs /\ bareRuns' \subseteq Jobs
    BY <1>1, <1>3 DEF TypeOK
  <2> QED
    BY <1>4, <1>5, <2>1, <2>2 DEF TypeOK
<1>7. DeferredInv'
  <2> SUFFICES ASSUME NEW i \in Jobs
               PROVE  (FutureInv(i) /\ FunctionInv(i) /\ AnswerInv(i))'
    BY DEF DeferredInv
  <2>1. CASE i # j
    BY <1>1, <1>3, <1>4, <1>5, <2>1, JobFrame, ConstantsAssumption
  <2>2. CASE i = j
    <3>1. /\ outcome'[j] = "none" /\ answers'[j] = 0 /\ watcher'[j] = "none"
          /\ queue'[j] = << >> /\ j \notin bareRuns' /\ ~envGone'
      BY <1>2, <1>3
    <3>2. FutureInv(j)'
      BY <1>2, <1>4, <1>5, <3>1, ConstantsAssumption DEF FutureInv
    <3>3. FunctionInv(j)'
      BY <1>4, <3>1, QueueFacts DEF FunctionInv, Settled
    <3>4. AnswerInv(j)'
      BY <1>4, <1>5, <3>1, QueueFacts DEF AnswerInv, Settled
    <3> QED
      BY <2>2, <3>2, <3>3, <3>4
  <2> QED
    BY <2>1, <2>2
<1>8. StaleInv'
  BY <1>3 DEF StaleInv, IndInv
<1> QED
  BY <1>6, <1>7, <1>8

(* The future ends, well or not, and hands its resolver over or drops it.  *)
LEMMA FutureStep ==
    ASSUME IndInv, NEW j \in Jobs, OnRuntime(j)
    PROVE  TypeOK' /\ DeferredInv' /\ StaleInv'
<1> USE DEF rtVars, tsfnVars
<1>0. TypeOK /\ DeferredInv
  BY DEF IndInv, AwaitTypeOK
<1>a. /\ fut[j] = "running" /\ resolver[j] = "held" /\ outcome[j] = "none"
      /\ answers[j] = 0 /\ ~Settled(j) /\ j \notin bareRuns /\ queue[j] = << >>
      /\ promise[j] # "none" /\ tsfn[j] # "none"
  BY <1>0, QueueFacts DEF OnRuntime, FutureEnds, FuturePanics, FutureDropped,
     DeferredInv, FutureInv, FunctionInv
<1>1. ASSUME FutureEnds(j) PROVE TypeOK' /\ DeferredInv' /\ StaleInv'
  <2>1. PICK o \in {"ok", "err"} :
           outcome' = [outcome EXCEPT ![j] = o] /\ CallTsfn(j, o) /\ HandOver(j, o)
    BY <1>1 DEF FutureEnds
  <2>2. /\ fut' \in [Jobs -> FutStates] /\ resolver' \in [Jobs -> ResolverStates]
        /\ fut'[j] = "sent" \/ (fut'[j] = "panicked" /\ tsfn[j] # "open")
        /\ \A i \in Jobs \ {j} : fut'[i] = fut[i] /\ resolver'[i] = resolver[i]
        /\ resolver'[j] = IF o = "err" THEN "lost"
                          ELSE IF tsfn[j] = "open" THEN "queued" ELSE "leaked"
    BY <1>0, <1>1, <2>1 DEF FutureEnds, HandOver, TypeOK, FutStates, ResolverStates
  <2>3. TypeOK'
    <3>1. UNCHANGED <<rt, shutdowns, doomed, envGone, starting, watcher, promise,
                      finalizer, bareRuns>>
      BY <1>1 DEF FutureEnds
    <3>2. /\ count' \in [Jobs -> 0..1] /\ answers' \in [Jobs -> Nat]
          /\ queue' \in [Jobs -> Seq({"ok", "err"})] /\ staleCalls' \subseteq Jobs
          /\ tsfn' = tsfn
      BY <1>0, <1>a, <2>1, CallEffect
    <3>3. outcome' \in [Jobs -> {"none", "ok", "err"}]
      BY <1>0, <2>1 DEF TypeOK
    <3> QED
      BY <1>0, <2>2, <3>1, <3>2, <3>3 DEF TypeOK
  <2>4. DeferredInv'
    <3> SUFFICES ASSUME NEW i \in Jobs
                 PROVE  (FutureInv(i) /\ FunctionInv(i) /\ AnswerInv(i))'
      BY DEF DeferredInv
    <3>1. CASE i # j
      <4>1. UNCHANGED <<envGone, starting, watcher, promise, finalizer, bareRuns>>
        BY <1>1 DEF FutureEnds
      <4>2. /\ count'[i] = count[i] /\ queue'[i] = queue[i]
            /\ answers'[i] = answers[i] /\ tsfn' = tsfn
        BY <1>0, <1>a, <2>1, <3>1, CallEffect
      <4> QED
        BY <1>0, <2>1, <2>2, <3>1, <4>1, <4>2, JobFrame DEF TypeOK
    <3>2. CASE i = j /\ tsfn[j] = "open"
      <4>1. /\ queue'[j] = <<o>> /\ answers'[j] = 1 /\ count'[j] = 1 /\ ~envGone
            /\ tsfn'[j] = "open" /\ outcome'[j] = o /\ fut'[j] = "sent"
        BY <1>0, <1>a, <2>1, <2>2, <3>2, CallEffect DEF TypeOK
      <4> QED
        BY <1>0, <1>1, <1>a, <2>2, <3>2, <4>1, QueueFacts
        DEF FutureEnds, DeferredInv, FutureInv, FunctionInv, AnswerInv, Settled
    <3>3. CASE i = j /\ tsfn[j] # "open"
      <4>1. /\ queue'[j] = << >> /\ answers'[j] = 0 /\ envGone
            /\ tsfn'[j] = tsfn[j] /\ outcome'[j] = o
        BY <1>0, <1>a, <2>1, <2>2, <3>3, CallEffect DEF TypeOK
      <4> QED
        BY <1>0, <1>1, <1>a, <2>2, <3>3, <4>1, QueueFacts
        DEF FutureEnds, DeferredInv, FutureInv, FunctionInv, AnswerInv, Settled
    <3> QED
      BY <3>1, <3>2, <3>3
  <2>5. StaleInv'
    BY <1>0, <1>1, <1>a, <2>1, CallEffect DEF FutureEnds, StaleInv, IndInv
  <2> QED
    BY <2>3, <2>4, <2>5
<1>2. ASSUME FuturePanics(j) \/ FutureDropped(j)
      PROVE  TypeOK' /\ DeferredInv' /\ StaleInv'
  <2>1. TypeOK'
    <3>1. /\ UNCHANGED <<rt, shutdowns, doomed, envGone, starting, watcher, outcome,
                         promise, finalizer, bareRuns>>
          /\ UNCHANGED <<tsfn, count, queue, answers, staleCalls>>
      BY <1>2 DEF FuturePanics, FutureDropped
    <3>2. fut' \in [Jobs -> FutStates] /\ resolver' \in [Jobs -> ResolverStates]
      BY <1>0, <1>2 DEF FuturePanics, FutureDropped, TypeOK, FutStates,
         ResolverStates
    <3> QED
      BY <1>0, <3>1, <3>2 DEF TypeOK
  <2>2. DeferredInv'
    <3> SUFFICES ASSUME NEW i \in Jobs
                 PROVE  (FutureInv(i) /\ FunctionInv(i) /\ AnswerInv(i))'
      BY DEF DeferredInv
    <3>1. CASE i # j
      BY <1>0, <1>2, <3>1, JobFrame DEF FuturePanics, FutureDropped, TypeOK
    <3>2. CASE i = j
      <4>1. fut'[j] \in {"panicked", "cancelled"} /\ resolver'[j] = "lost"
        BY <1>0, <1>2 DEF FuturePanics, FutureDropped, TypeOK
      <4> QED
        BY <1>0, <1>2, <1>a, <3>2, <4>1, QueueFacts
        DEF FuturePanics, FutureDropped, DeferredInv, FutureInv, FunctionInv,
            AnswerInv, Settled
    <3> QED
      BY <3>1, <3>2
  <2> QED
    BY <1>2, <2>1, <2>2 DEF FuturePanics, FutureDropped, StaleInv, IndInv
<1> QED
  BY <1>1, <1>2 DEF OnRuntime

(* The second task is spawned, sees how the first one ended, or is dropped. *)
LEMMA WatcherStep ==
    ASSUME IndInv, NEW j \in Jobs, StartWatcher(j) \/ Watch(j)
    PROVE  TypeOK' /\ DeferredInv' /\ StaleInv'
<1>1. TypeOK /\ DeferredInv
  BY DEF IndInv, AwaitTypeOK
<1>2. ASSUME UNCHANGED <<tsfnVars, answers, staleCalls>>
      PROVE  TypeOK' /\ DeferredInv' /\ StaleInv'
  <2>1. /\ UNCHANGED <<rt, shutdowns, doomed, fut, outcome, promise, finalizer,
                       resolver, bareRuns, envGone>>
        /\ UNCHANGED <<tsfn, count, queue, answers, staleCalls>>
        /\ starting' \in {starting, NoJob}
    BY <1>2 DEF StartWatcher, Watch, WatcherSees, WatcherDropped, rtVars, tsfnVars
  <2>2. \E w \in {"waiting", "done"} : watcher' = [watcher EXCEPT ![j] = w]
    <3>1. CASE StartWatcher(j) /\ rt
      BY <3>1, Zenon DEF StartWatcher
    <3>2. CASE StartWatcher(j) /\ ~rt
      BY <3>2, Zenon DEF StartWatcher
    <3>3. CASE Watch(j)
      BY <3>3 DEF Watch, WatcherSees, WatcherDropped
    <3> QED
      BY <3>1, <3>2, <3>3
  <2>3. watcher[j] # "done" /\ fut[j] \notin {"none", "unspawned"}
    BY <1>1 DEF StartWatcher, Watch, WatcherSees, WatcherDropped, DeferredInv, FutureInv
  <2>4. starting' # j
    <3>1. CASE StartWatcher(j)
      BY <3>1, ConstantsAssumption DEF StartWatcher
    <3>2. CASE Watch(j)
      <4>1. starting' = starting /\ watcher[j] = "waiting"
        BY <3>2 DEF Watch, WatcherSees, WatcherDropped
      <4> QED
        BY <1>1, <4>1 DEF DeferredInv, FutureInv
    <3> QED
      BY <3>1, <3>2
  <2>5. TypeOK'
    BY <1>1, <2>1, <2>2 DEF TypeOK
  <2>6. DeferredInv'
    <3> SUFFICES ASSUME NEW i \in Jobs
                 PROVE  (FutureInv(i) /\ FunctionInv(i) /\ AnswerInv(i))'
      BY DEF DeferredInv
    <3>1. CASE i # j
      BY <1>1, <2>1, <2>2, <3>1, JobFrame, ConstantsAssumption DEF TypeOK
    <3>2. CASE i = j
      <4>1. FutureInv(j)'
        BY <1>1, <2>1, <2>2, <2>3, <2>4 DEF DeferredInv, FutureInv, TypeOK
      <4>2. FunctionInv(j)' /\ AnswerInv(j)'
        BY <1>1, <2>1 DEF DeferredInv, FunctionInv, AnswerInv, Settled
      <4> QED
        BY <3>2, <4>1, <4>2
    <3> QED
      BY <3>1, <3>2
  <2> QED
    BY <2>1, <2>5, <2>6 DEF StaleInv, IndInv
<1>3. ASSUME WatcherSees(j), fut[j] = "panicked"
      PROVE  TypeOK' /\ DeferredInv' /\ StaleInv'
  <2>1. /\ UNCHANGED <<rt, shutdowns, doomed, starting, fut, outcome, promise,
                       finalizer, resolver, bareRuns, envGone>>
        /\ watcher' = [watcher EXCEPT ![j] = "done"]
        /\ CallTsfn(j, "err") /\ watcher[j] = "waiting"
    BY <1>3 DEF WatcherSees, rtVars
  <2>2. /\ answers[j] = 0 /\ starting # j /\ promise[j] # "none" /\ ~Settled(j)
        /\ envGone \/ (outcome[j] = "none" /\ resolver[j] = "lost")
        /\ queue[j] = << >> /\ j \notin bareRuns
    BY <1>1, <1>3, <2>1, QueueFacts DEF DeferredInv, FutureInv, FunctionInv
  <2>3. /\ count' \in [Jobs -> 0..1] /\ answers' \in [Jobs -> Nat]
        /\ queue' \in [Jobs -> Seq({"ok", "err"})] /\ staleCalls' \subseteq Jobs
        /\ tsfn' = tsfn
        /\ \A i \in Jobs \ {j} : /\ count'[i] = count[i] /\ queue'[i] = queue[i]
                                 /\ answers'[i] = answers[i]
    BY <1>1, <1>3, <2>1, <2>2, CallEffect
  <2>4. \/ /\ tsfn[j] = "open" /\ queue'[j] = <<"err">> /\ answers'[j] = 1
           /\ count'[j] = 1 /\ staleCalls' = staleCalls /\ ~envGone
        \/ /\ tsfn[j] # "open" /\ queue'[j] = << >> /\ answers'[j] = 0 /\ envGone
    BY <1>1, <1>3, <2>1, <2>2, CallEffect
  <2>5. TypeOK'
    BY <1>1, <2>1, <2>3 DEF TypeOK
  <2>6. DeferredInv'
    <3> SUFFICES ASSUME NEW i \in Jobs
                 PROVE  (FutureInv(i) /\ FunctionInv(i) /\ AnswerInv(i))'
      BY DEF DeferredInv
    <3>1. CASE i # j
      BY <1>1, <2>1, <2>3, <3>1, JobFrame DEF TypeOK
    <3>2. CASE i = j
      <4>1. FutureInv(j)'
        BY <1>1, <1>3, <2>1, <2>2, <2>3 DEF DeferredInv, FutureInv, TypeOK
      <4>2. FunctionInv(j)'
        BY <1>1, <2>1, <2>2, <2>3, <2>4, QueueFacts DEF DeferredInv, FunctionInv, Settled
      <4>3. AnswerInv(j)'
        BY <1>1, <2>1, <2>2, <2>4, QueueFacts DEF DeferredInv, AnswerInv, Settled
      <4> QED
        BY <3>2, <4>1, <4>2, <4>3
    <3> QED
      BY <3>1, <3>2
  <2>7. StaleInv'
    BY <2>1, <2>4 DEF StaleInv, IndInv
  <2> QED
    BY <2>5, <2>6, <2>7
<1>4. CASE WatcherSees(j) /\ fut[j] # "panicked"
  BY <1>2, <1>4 DEF WatcherSees
<1>5. CASE StartWatcher(j) \/ WatcherDropped(j)
  BY <1>2, <1>5 DEF StartWatcher, WatcherDropped
<1> QED
  BY <1>3, <1>4, <1>5 DEF Watch

(* napi_resolve_deferred settles the promise, with what goes with it.      *)
LEMMA ResolveStep ==
    ASSUME IndInv, NEW j \in Jobs, Resolve(j)
    PROVE  TypeOK' /\ DeferredInv' /\ StaleInv'
<1>1. TypeOK /\ DeferredInv
  BY DEF IndInv, AwaitTypeOK
<1>2. PICK p \in {"fulfilled", "rejected"} :
         /\ Head(queue[j]) = "err" => p = "rejected"
         /\ promise' = [promise EXCEPT ![j] = p]
         /\ Finalized(j, p)
  BY DEF Resolve
<1>3. /\ UNCHANGED <<rt, shutdowns, doomed, starting, fut, watcher, outcome, tsfn,
                     answers, staleCalls, bareRuns, envGone>>
      /\ queue' = [queue EXCEPT ![j] = Tail(@)]
      /\ count' = [count EXCEPT ![j] = IF @ > 0 THEN @ - 1 ELSE 0]
      /\ tsfn[j] = "open" /\ queue[j] # << >> /\ ~envGone
      /\ resolver' = [resolver EXCEPT ![j] =
                        IF Head(queue[j]) = "ok" THEN "ran" ELSE @]
      /\ finalizer' = [finalizer EXCEPT ![j] = IF @ = "armed" THEN "ran" ELSE @]
  BY <1>2 DEF Resolve, RunResolver, Finalized, rtVars, taskVars
<1>4. /\ queue[j] = <<"ok">> \/ queue[j] = <<"err">>
      /\ answers[j] = 1 /\ ~Settled(j) /\ j \notin bareRuns /\ count[j] = 1
  BY <1>1, <1>3 DEF DeferredInv, FunctionInv
<1>5. /\ queue'[j] = << >> /\ count'[j] = 0 /\ queue' \in [Jobs -> Seq({"ok", "err"})]
      /\ count' \in [Jobs -> 0..1] /\ Settled(j)'
  <2>1. queue' \in [Jobs -> Seq({"ok", "err"})] /\ queue'[j] = << >>
    <3>1. Tail(queue[j]) = << >> /\ << >> \in Seq({"ok", "err"})
      <4>1. CASE queue[j] = <<"ok">>
        BY <4>1, QueueFacts
      <4>2. CASE queue[j] = <<"err">>
        BY <4>2, QueueFacts
      <4> QED
        BY <1>4, <4>1, <4>2
    <3> QED
      BY <1>1, <1>3, <3>1 DEF TypeOK
  <2>2. count' \in [Jobs -> 0..1] /\ count'[j] = 0
    BY <1>1, <1>3, <1>4 DEF TypeOK
  <2>3. Settled(j)'
    BY <1>1, <1>2 DEF TypeOK, Settled
  <2> QED
    BY <2>1, <2>2, <2>3
<1>6. \/ /\ queue[j] = <<"ok">> /\ resolver'[j] = "ran" /\ outcome[j] = "ok"
      \/ /\ queue[j] = <<"err">> /\ resolver'[j] = "lost" /\ outcome[j] # "ok"
         /\ promise'[j] = "rejected"
  BY <1>1, <1>2, <1>3, <1>4, QueueFacts DEF DeferredInv, AnswerInv, TypeOK
<1>7. TypeOK'
  <2>1. /\ promise' \in [Jobs -> {"none", "pending", "fulfilled", "rejected"}]
        /\ finalizer' \in [Jobs -> {"none", "armed", "ran"}]
        /\ resolver' \in [Jobs -> ResolverStates]
    BY <1>1, <1>2, <1>3 DEF TypeOK, ResolverStates
  <2> QED
    BY <1>1, <1>3, <1>5, <2>1 DEF TypeOK
<1>8. DeferredInv'
  <2> SUFFICES ASSUME NEW i \in Jobs
               PROVE  (FutureInv(i) /\ FunctionInv(i) /\ AnswerInv(i))'
    BY DEF DeferredInv
  <2>1. CASE i # j
    BY <1>1, <1>2, <1>3, <2>1, JobFrame DEF TypeOK
  <2>2. CASE i = j
    <3>1. fut[j] \notin {"none", "unspawned", "running"}
      BY <1>1, <1>3, <1>4 DEF DeferredInv, FutureInv
    <3>2. FutureInv(j)'
      BY <1>1, <1>3, <1>4, <1>5, <1>6, <3>1 DEF DeferredInv, FutureInv, Settled
    <3>3. FunctionInv(j)'
      BY <1>1, <1>3, <1>4, <1>5, QueueFacts DEF DeferredInv, FunctionInv
    <3>4. AnswerInv(j)'
      <4>1. finalizer'[j] # "armed" /\ promise'[j] \in {"fulfilled", "rejected"}
        BY <1>1, <1>2, <1>3 DEF TypeOK
      <4> QED
        BY <1>3, <1>5, <1>6, <4>1, QueueFacts DEF AnswerInv, Settled
    <3> QED
      BY <2>2, <3>2, <3>3, <3>4
  <2> QED
    BY <2>1, <2>2
<1> QED
  BY <1>3, <1>7, <1>8 DEF StaleInv, IndInv

(* The loop closes an unused function, and deletes a closing one: what is  *)
(* left in its queue is for an environment that has ended.                 *)
LEMMA CloseStep ==
    ASSUME IndInv, NEW j \in Jobs, CloseUnused(j) \/ Finalize(j)
    PROVE  TypeOK' /\ DeferredInv' /\ StaleInv'
<1>1. TypeOK /\ DeferredInv
  BY DEF IndInv, AwaitTypeOK
<1>2. ASSUME CloseUnused(j) PROVE TypeOK' /\ DeferredInv' /\ StaleInv'
  <2>1. /\ UNCHANGED <<rt, shutdowns, doomed, starting, fut, watcher, outcome, count,
                       queue, promise, finalizer, resolver, answers, staleCalls,
                       bareRuns, envGone>>
        /\ tsfn' = [tsfn EXCEPT ![j] = "closing"]
        /\ tsfn[j] = "open" /\ count[j] = 0 /\ starting = NoJob
    BY <1>2 DEF CloseUnused, JsFree, rtVars, taskVars
  <2>2. TypeOK'
    BY <1>1, <2>1 DEF TypeOK
  <2>3. DeferredInv'
    <3> SUFFICES ASSUME NEW i \in Jobs
                 PROVE  (FutureInv(i) /\ FunctionInv(i) /\ AnswerInv(i))'
      BY DEF DeferredInv
    <3>1. CASE i # j
      BY <1>1, <2>1, <3>1, JobFrame DEF TypeOK
    <3>2. CASE i = j
      BY <1>1, <2>1, <3>2, ConstantsAssumption
      DEF DeferredInv, FutureInv, FunctionInv, AnswerInv, Settled, TypeOK
    <3> QED
      BY <3>1, <3>2
  <2> QED
    BY <2>1, <2>2, <2>3 DEF StaleInv, IndInv
<1>3. ASSUME Finalize(j) PROVE TypeOK' /\ DeferredInv' /\ StaleInv'
  <2>1. /\ UNCHANGED <<rt, shutdowns, doomed, starting, fut, watcher, outcome,
                       promise, answers, staleCalls, envGone>>
        /\ tsfn' = [tsfn EXCEPT ![j] = "finalized"]
        /\ queue' = [queue EXCEPT ![j] = << >>]
        /\ tsfn[j] = "closing" /\ starting = NoJob
    BY <1>3 DEF Finalize, JsFree, rtVars, taskVars
  <2>2. tsfn' \in [Jobs -> {"none", "open", "closing", "finalized"}]
        /\ queue' \in [Jobs -> Seq({"ok", "err"})]
    BY <1>1, <2>1, QueueFacts DEF TypeOK
  <2>3. CASE queue[j] = << >>
    <3>1. UNCHANGED <<bareRuns, count, finalizer, resolver>>
      BY <1>3, <2>3 DEF Finalize
    <3>2. TypeOK'
      BY <1>1, <2>1, <2>2, <3>1 DEF TypeOK
    <3>3. DeferredInv'
      <4> SUFFICES ASSUME NEW i \in Jobs
                   PROVE  (FutureInv(i) /\ FunctionInv(i) /\ AnswerInv(i))'
        BY DEF DeferredInv
      <4>1. CASE i # j
        BY <1>1, <2>1, <3>1, <4>1, JobFrame DEF TypeOK
      <4>2. CASE i = j
        BY <1>1, <2>1, <2>3, <3>1, <4>2, QueueFacts, ConstantsAssumption
        DEF DeferredInv, FutureInv, FunctionInv, AnswerInv, Settled, TypeOK
      <4> QED
        BY <4>1, <4>2
    <3> QED
      BY <2>1, <3>2, <3>3 DEF StaleInv, IndInv
  <2>4. CASE queue[j] # << >>
    <3>1. /\ bareRuns' = bareRuns \cup {j} /\ count' = [count EXCEPT ![j] = 0]
          /\ finalizer' = [finalizer EXCEPT ![j] = IF @ = "armed" THEN "ran" ELSE @]
          /\ resolver' = [resolver EXCEPT ![j] =
                             IF Head(queue[j]) = "ok" THEN "ran" ELSE @]
      BY <1>3, <2>4 DEF Finalize, Finalized, RunResolver
    <3>2. /\ queue[j] = <<"ok">> \/ queue[j] = <<"err">>
          /\ answers[j] = 1 /\ ~Settled(j) /\ envGone
          /\ fut[j] \notin {"none", "unspawned", "running"}
      BY <1>1, <2>1, <2>4 DEF DeferredInv, FutureInv, FunctionInv
    <3>3. \/ resolver'[j] = "ran" /\ outcome[j] = "ok"
          \/ resolver'[j] = "lost" /\ outcome[j] # "ok"
      BY <1>1, <3>1, <3>2, QueueFacts DEF DeferredInv, AnswerInv, TypeOK
    <3>4. TypeOK'
      <4>1. /\ finalizer' \in [Jobs -> {"none", "armed", "ran"}]
            /\ resolver' \in [Jobs -> ResolverStates] /\ count' \in [Jobs -> 0..1]
            /\ bareRuns' \subseteq Jobs
        BY <1>1, <3>1 DEF TypeOK, ResolverStates
      <4> QED
        BY <1>1, <2>1, <2>2, <4>1 DEF TypeOK
    <3>5. DeferredInv'
      <4> SUFFICES ASSUME NEW i \in Jobs
                   PROVE  (FutureInv(i) /\ FunctionInv(i) /\ AnswerInv(i))'
        BY DEF DeferredInv
      <4>1. CASE i # j
        BY <1>1, <2>1, <3>1, <4>1, JobFrame DEF TypeOK
      <4>2. CASE i = j
        <5>1. FutureInv(j)'
          BY <1>1, <2>1, <3>2, <3>3, ConstantsAssumption
          DEF DeferredInv, FutureInv, TypeOK
        <5>2. FunctionInv(j)'
          BY <1>1, <2>1, <3>1, <3>2, QueueFacts
          DEF DeferredInv, FunctionInv, Settled, TypeOK
        <5>3. AnswerInv(j)'
          BY <1>1, <2>1, <3>1, <3>2, <3>3, QueueFacts
          DEF DeferredInv, AnswerInv, Settled, TypeOK
        <5> QED
          BY <4>2, <5>1, <5>2, <5>3
      <4> QED
        BY <4>1, <4>2
    <3> QED
      BY <2>1, <3>4, <3>5 DEF StaleInv, IndInv
  <2> QED
    BY <2>3, <2>4
<1> QED
  BY <1>2, <1>3

(* The environment ends: every open function closes.                       *)
LEMMA TeardownStep ==
    ASSUME IndInv, EnvTeardown
    PROVE  TypeOK' /\ DeferredInv' /\ StaleInv'
<1>1. TypeOK /\ DeferredInv
  BY DEF IndInv, AwaitTypeOK
<1>2. /\ UNCHANGED <<rt, shutdowns, doomed, starting, fut, watcher, outcome, count,
                     queue, promise, finalizer, resolver, answers, staleCalls,
                     bareRuns>>
      /\ envGone' = TRUE /\ starting = NoJob
      /\ tsfn' = [j \in Jobs |-> IF tsfn[j] = "open" THEN "closing" ELSE tsfn[j]]
  BY DEF EnvTeardown, JsFree, rtVars, taskVars
<1>3. TypeOK'
  BY <1>1, <1>2 DEF TypeOK
<1>4. DeferredInv'
  <2> SUFFICES ASSUME NEW j \in Jobs
               PROVE  (FutureInv(j) /\ FunctionInv(j) /\ AnswerInv(j))'
    BY DEF DeferredInv
  <2>1. FutureInv(j)' /\ AnswerInv(j)'
    BY <1>1, <1>2, ConstantsAssumption DEF DeferredInv, FutureInv, AnswerInv, Settled
  <2>2. FunctionInv(j)'
    BY <1>1, <1>2 DEF DeferredInv, FunctionInv, Settled
  <2> QED
    BY <2>1, <2>2
<1> QED
  BY <1>2, <1>3, <1>4 DEF StaleInv

(* What a future's task does leaves the callbacks of its promise alone.    *)
LEMMA CallbacksKept ==
    ASSUME AwaitInv, UNCHANGED awaitVars, envGone => envGone',
           \A j \in Jobs : fut'[j] = "none" => fut[j] = "none"
    PROVE  AwaitInv'
<1> QED
  BY DEF AwaitInv, CallbackInv, awaitVars

(* The callback c of job j is dropped: it was armed, and has been counted. *)
LEMMA DropEffect ==
    ASSUME AwaitTypeOK, AwaitInv, NEW j \in Jobs, NEW c \in Callbacks,
           NEW how \in {"taken", "freed"}, NEW sent \in {"none", "ok", "err"},
           box[j][c] = "armed", Drop(j, c, how, sent)
    PROVE  /\ box' \in [Jobs -> [Callbacks -> {"none", "armed", "taken", "freed"}]]
           /\ channel' \in [Jobs -> {"empty", "ok", "err", "canceled"}]
           /\ drops' \in [Jobs -> [Callbacks -> Nat]]
           /\ box'[j][c] = how /\ drops'[j][c] = 1
           /\ \A d \in Callbacks \ {c} : box'[j][d] = box[j][d] /\ drops'[j][d] = drops[j][d]
           /\ \A i \in Jobs \ {j} : /\ box'[i] = box[i] /\ drops'[i] = drops[i]
                                    /\ channel'[i] = channel[i]
           /\ channel[j] # "empty" => channel'[j] = channel[j]
           /\ channel[j] = "empty" /\ sent # "none" => channel'[j] = sent
           /\ sent # "none" => channel'[j] # "empty"
<1>1. drops[j][c] = 0
  BY DEF AwaitInv, CallbackInv
<1>2. /\ box' \in [Jobs -> [Callbacks -> {"none", "armed", "taken", "freed"}]]
      /\ box'[j][c] = how
      /\ \A d \in Callbacks \ {c} : box'[j][d] = box[j][d]
      /\ \A i \in Jobs \ {j} : box'[i] = box[i]
  BY DEF Drop, AwaitTypeOK
<1>3. /\ drops' \in [Jobs -> [Callbacks -> Nat]] /\ drops'[j][c] = 1
      /\ \A d \in Callbacks \ {c} : drops'[j][d] = drops[j][d]
      /\ \A i \in Jobs \ {j} : drops'[i] = drops[i]
  BY <1>1 DEF Drop, AwaitInv
<1>4. /\ channel' \in [Jobs -> {"empty", "ok", "err", "canceled"}]
      /\ \A i \in Jobs \ {j} : channel'[i] = channel[i]
      /\ channel[j] # "empty" => channel'[j] = channel[j]
      /\ channel[j] = "empty" /\ sent # "none" => channel'[j] = sent
  BY DEF Drop, AwaitTypeOK
<1> QED
  BY <1>2, <1>3, <1>4

(* A promise is chained to, settled, dropped, reacts or is collected: each *)
(* callback is dropped by its own reaction, or by its finalizer after.     *)
LEMMA AwaitStep ==
    ASSUME IndInv,
           \E j \in Jobs : \/ SourceMoves(j) \/ React(j)
                          \/ \E c \in Callbacks : Collect(j, c)
    PROVE  IndInv'
<1>1. AwaitTypeOK /\ AwaitInv
  BY DEF IndInv
<1>2. UNCHANGED vars
  BY DEF SourceMoves, React, ThenReacts, CatchReacts, Collect
<1>3. TypeOK' /\ DeferredInv' /\ StaleInv'
  BY <1>2 DEF IndInv, AwaitTypeOK, TypeOK, DeferredInv, FutureInv, FunctionInv,
     AnswerInv, Settled, StaleInv, vars, rtVars, taskVars, tsfnVars
<1>4. fut' = fut /\ envGone' = envGone
  BY <1>2 DEF vars, taskVars
<1>5. SUFFICES ASSUME NEW j \in Jobs,
                      SourceMoves(j) \/ React(j) \/ \E c \in Callbacks : Collect(j, c)
               PROVE  AwaitTypeOK' /\ AwaitInv'
  BY <1>3 DEF IndInv
<1>6. ASSUME NEW l \in {"fulfilled", "rejected", "collected"}, NEW c \in Callbacks,
             link' = [link EXCEPT ![j][c] = l], UNCHANGED source,
             link[j][c] # "none",
             \/ Keep \/ /\ box[j][c] = "armed"
                        /\ \E how \in {"taken", "freed"}, sent \in {"none", "ok", "err"} :
                              Drop(j, c, how, sent)
      PROVE  /\ AwaitTypeOK'
             /\ drops' \in [Jobs -> [Callbacks -> Nat]]
             /\ \A i \in Jobs \ {j} : CallbackInv(i)'
             /\ link'[j][c] = l
             /\ \A d \in Callbacks \ {c} :
                   /\ link'[j][d] = link[j][d] /\ box'[j][d] = box[j][d]
                   /\ drops'[j][d] = drops[j][d]
  <2>1. /\ link' \in [Jobs -> [Callbacks ->
                   {"none", "pending", "fulfilled", "rejected", "collected"}]]
        /\ link'[j][c] = l
        /\ \A d \in Callbacks \ {c} : link'[j][d] = link[j][d]
        /\ \A i \in Jobs \ {j} : link'[i] = link[i]
    BY <1>1, <1>6 DEF AwaitTypeOK
  <2>2. /\ box' \in [Jobs -> [Callbacks -> {"none", "armed", "taken", "freed"}]]
        /\ channel' \in [Jobs -> {"empty", "ok", "err", "canceled"}]
        /\ drops' \in [Jobs -> [Callbacks -> Nat]]
        /\ \A d \in Callbacks \ {c} :
              box'[j][d] = box[j][d] /\ drops'[j][d] = drops[j][d]
        /\ \A i \in Jobs \ {j} :
              box'[i] = box[i] /\ drops'[i] = drops[i] /\ channel'[i] = channel[i]
    <3>1. CASE Keep
      BY <1>1, <3>1 DEF Keep, AwaitTypeOK, AwaitInv
    <3>2. CASE box[j][c] = "armed" /\ \E how \in {"taken", "freed"},
                 sent \in {"none", "ok", "err"} : Drop(j, c, how, sent)
      BY <1>1, <3>2, DropEffect
    <3> QED
      BY <1>6, <3>1, <3>2
  <2>3. AwaitTypeOK'
    BY <1>1, <1>3, <1>6, <2>1, <2>2 DEF AwaitTypeOK
  <2>4. \A i \in Jobs \ {j} : CallbackInv(i)'
    <3> SUFFICES ASSUME NEW i \in Jobs \ {j} PROVE CallbackInv(i)'
      OBVIOUS
    <3>1. /\ link'[i] = link[i] /\ box'[i] = box[i] /\ drops'[i] = drops[i]
          /\ channel'[i] = channel[i] /\ source'[i] = source[i]
          /\ fut'[i] = fut[i] /\ envGone' = envGone
      BY <1>4, <1>6, <2>1, <2>2
    <3> QED
      BY <1>1, <3>1 DEF AwaitInv, CallbackInv
  <2> QED
    BY <2>1, <2>2, <2>3, <2>4
<1>7. ASSUME SourceMoves(j) PROVE AwaitTypeOK' /\ AwaitInv'
  <2>1. PICK r \in {"fulfilled", "rejected", "lost"} : source' = [source EXCEPT ![j] = r]
    BY <1>7 DEF SourceMoves
  <2>2. source[j] = "pending" /\ ~envGone /\ UNCHANGED <<link, box, channel, drops>>
    BY <1>7 DEF SourceMoves
  <2>3. source' \in [Jobs -> SourceStates] /\ source'[j] = r
        /\ \A i \in Jobs \ {j} : source'[i] = source[i]
    BY <1>1, <2>1 DEF AwaitTypeOK, SourceStates
  <2>4. AwaitTypeOK'
    BY <1>1, <1>3, <2>2, <2>3 DEF AwaitTypeOK
  <2>5. \A i \in Jobs : CallbackInv(i)'
    BY <1>1, <1>4, <2>2, <2>3 DEF AwaitInv, CallbackInv
  <2> QED
    BY <1>1, <2>2, <2>4, <2>5 DEF AwaitInv
<1>8. ASSUME ThenReacts(j) PROVE AwaitTypeOK' /\ AwaitInv'
  <2>1. /\ ~envGone /\ source[j] \in {"fulfilled", "rejected"} /\ source' = source
        /\ link[j]["then"] = "pending" /\ box[j]["then"] = "armed"
        /\ "then" \in Callbacks /\ "catch" \in Callbacks \ {"then"}
        /\ drops[j]["then"] = 0
    BY <1>1, <1>8 DEF ThenReacts, AwaitInv, CallbackInv, Callbacks
  <2>2. CASE link' = [link EXCEPT ![j]["then"] = "fulfilled"]
             /\ Drop(j, "then", "taken", "ok")
    <3>1. /\ AwaitTypeOK' /\ drops' \in [Jobs -> [Callbacks -> Nat]]
          /\ \A i \in Jobs \ {j} : CallbackInv(i)'
          /\ link'[j]["then"] = "fulfilled" /\ link'[j]["catch"] = link[j]["catch"]
          /\ box'[j]["catch"] = box[j]["catch"] /\ drops'[j]["catch"] = drops[j]["catch"]
      BY <1>6, <2>1, <2>2
    <3>2. /\ box'[j]["then"] = "taken" /\ drops'[j]["then"] = 1
          /\ channel[j] # "empty" => channel'[j] = channel[j]
          /\ channel[j] = "empty" => channel'[j] = "ok"
      BY <1>1, <2>1, <2>2, DropEffect
    <3>3. CallbackInv(j)'
      BY <1>1, <1>4, <2>1, <3>1, <3>2 DEF AwaitInv, CallbackInv, Callbacks
    <3> QED
      BY <3>1, <3>3 DEF AwaitInv
  <2>3. CASE link' = [link EXCEPT ![j]["then"] = "rejected"] /\ Keep
    <3>1. /\ AwaitTypeOK' /\ drops' \in [Jobs -> [Callbacks -> Nat]]
          /\ \A i \in Jobs \ {j} : CallbackInv(i)'
          /\ link'[j]["then"] = "rejected" /\ link'[j]["catch"] = link[j]["catch"]
      BY <1>6, <2>1, <2>3
    <3>2. UNCHANGED <<box, drops, channel>>
      BY <2>3 DEF Keep
    <3>3. CallbackInv(j)'
      BY <1>1, <1>4, <2>1, <3>1, <3>2 DEF AwaitInv, CallbackInv, Callbacks
    <3> QED
      BY <3>1, <3>3 DEF AwaitInv
  <2> QED
    BY <1>8, <2>2, <2>3 DEF ThenReacts
<1>9. ASSUME CatchReacts(j) PROVE AwaitTypeOK' /\ AwaitInv'
  <2>1. /\ ~envGone /\ link[j]["then"] \in {"fulfilled", "rejected"} /\ source' = source
        /\ link[j]["catch"] = "pending" /\ box[j]["catch"] = "armed"
        /\ link' = [link EXCEPT ![j]["catch"] = "fulfilled"]
        /\ "catch" \in Callbacks /\ "then" \in Callbacks \ {"catch"}
    BY <1>1, <1>9 DEF CatchReacts, AwaitInv, CallbackInv, Callbacks
  <2>2. CASE Drop(j, "catch", "taken", "err")
    <3>1. /\ AwaitTypeOK' /\ drops' \in [Jobs -> [Callbacks -> Nat]]
          /\ \A i \in Jobs \ {j} : CallbackInv(i)'
          /\ link'[j]["catch"] = "fulfilled" /\ link'[j]["then"] = link[j]["then"]
          /\ box'[j]["then"] = box[j]["then"] /\ drops'[j]["then"] = drops[j]["then"]
      BY <1>6, <2>1, <2>2
    <3>2. /\ box'[j]["catch"] = "taken" /\ drops'[j]["catch"] = 1
          /\ channel[j] # "empty" => channel'[j] = channel[j]
          /\ channel[j] = "empty" => channel'[j] = "err"
      BY <1>1, <2>1, <2>2, DropEffect
    <3>3. CallbackInv(j)'
      BY <1>1, <1>4, <2>1, <3>1, <3>2 DEF AwaitInv, CallbackInv, Callbacks
    <3> QED
      BY <3>1, <3>3 DEF AwaitInv
  <2>3. CASE link[j]["then"] = "fulfilled" /\ Keep
    <3>1. /\ AwaitTypeOK' /\ drops' \in [Jobs -> [Callbacks -> Nat]]
          /\ \A i \in Jobs \ {j} : CallbackInv(i)'
          /\ link'[j]["catch"] = "fulfilled" /\ link'[j]["then"] = link[j]["then"]
      BY <1>6, <2>1, <2>3
    <3>2. UNCHANGED <<box, drops, channel>> /\ channel[j] # "empty"
      BY <1>1, <2>3 DEF Keep, AwaitInv, CallbackInv
    <3>3. CallbackInv(j)'
      BY <1>1, <1>4, <2>1, <3>1, <3>2 DEF AwaitInv, CallbackInv, Callbacks
    <3> QED
      BY <3>1, <3>3 DEF AwaitInv
  <2> QED
    BY <1>9, <2>1, <2>2, <2>3 DEF CatchReacts
<1>10. ASSUME NEW c \in Callbacks, Collect(j, c) PROVE AwaitTypeOK' /\ AwaitInv'
  <2>1. /\ link[j][c] \notin {"none", "collected"} /\ Unreachable(j, c)
        /\ link' = [link EXCEPT ![j][c] = "collected"] /\ source' = source
    BY <1>10 DEF Collect
  <2>2. envGone \/ source[j] = "lost" \/ channel[j] # "empty"
    BY <1>1, <2>1 DEF Unreachable, AwaitInv, CallbackInv
  <2>3. CASE box[j][c] = "armed" /\ Drop(j, c, "freed", "none")
    <3>1. /\ AwaitTypeOK' /\ drops' \in [Jobs -> [Callbacks -> Nat]]
          /\ \A i \in Jobs \ {j} : CallbackInv(i)'
          /\ link'[j][c] = "collected"
          /\ \A d \in Callbacks \ {c} : /\ link'[j][d] = link[j][d]
                                        /\ box'[j][d] = box[j][d]
                                        /\ drops'[j][d] = drops[j][d]
      BY <1>6, <2>1, <2>3
    <3>2. /\ box'[j][c] = "freed" /\ drops'[j][c] = 1
          /\ channel[j] # "empty" => channel'[j] = channel[j]
          /\ channel'[j] \in {"empty", "ok", "err", "canceled"}
      BY <1>1, <2>3, DropEffect
    <3>3. CallbackInv(j)'
      BY <1>1, <1>4, <2>1, <2>2, <3>1, <3>2 DEF AwaitInv, CallbackInv, Callbacks
    <3> QED
      BY <3>1, <3>3 DEF AwaitInv
  <2>4. CASE box[j][c] # "armed" /\ Keep
    <3>1. /\ AwaitTypeOK' /\ drops' \in [Jobs -> [Callbacks -> Nat]]
          /\ \A i \in Jobs \ {j} : CallbackInv(i)'
          /\ link'[j][c] = "collected"
          /\ \A d \in Callbacks \ {c} : link'[j][d] = link[j][d]
      BY <1>6, <2>1, <2>4
    <3>2. UNCHANGED <<box, drops, channel>> /\ box[j][c] \in {"taken", "freed"}
      BY <1>1, <2>1, <2>4 DEF Keep, AwaitInv, CallbackInv, AwaitTypeOK
    <3>3. CallbackInv(j)'
      BY <1>1, <1>4, <2>1, <2>2, <3>1, <3>2 DEF AwaitInv, CallbackInv, Callbacks
    <3> QED
      BY <3>1, <3>3 DEF AwaitInv
  <2> QED
    BY <1>10, <2>3, <2>4 DEF Collect
<1> QED
  BY <1>5, <1>7, <1>8, <1>9, <1>10 DEF React

-----------------------------------------------------------------------------
(* The argument of a future is chained to, and the future is started.      *)
LEMMA StartAwaitingStep ==
    ASSUME IndInv, NEW j \in Jobs, StartAwaiting(j)
    PROVE  IndInv'
<1>1. AwaitTypeOK /\ AwaitInv
  BY DEF IndInv
<1>2. TypeOK' /\ DeferredInv' /\ StaleInv'
  BY StartStep DEF StartAwaiting
<1>3. /\ source' = [source EXCEPT ![j] = "pending"]
      /\ link' = [link EXCEPT ![j] = [c \in Callbacks |-> "pending"]]
      /\ box' = [box EXCEPT ![j] = [c \in Callbacks |-> "armed"]]
      /\ UNCHANGED <<channel, drops>>
  BY DEF StartAwaiting
<1>4. fut[j] = "none" /\ envGone' = envGone
  BY DEF StartAwaiting, Start
<1>5. \A i \in Jobs : fut'[i] = "none" => fut[i] = "none" /\ i # j
  <2>1. fut' \in {[fut EXCEPT ![j] = "running"], [fut EXCEPT ![j] = "unspawned"]}
    BY Zenon DEF StartAwaiting, Start, Spawn
  <2> QED
    BY <1>1, <2>1 DEF AwaitTypeOK, TypeOK
<1>6. AwaitTypeOK'
  <2>1. source' \in [Jobs -> SourceStates]
    BY <1>1, <1>3 DEF AwaitTypeOK, SourceStates
  <2>2. /\ link' \in [Jobs -> [Callbacks ->
                   {"none", "pending", "fulfilled", "rejected", "collected"}]]
        /\ box' \in [Jobs -> [Callbacks -> {"none", "armed", "taken", "freed"}]]
    BY <1>1, <1>3 DEF AwaitTypeOK
  <2> QED
    BY <1>1, <1>2, <1>3, <2>1, <2>2 DEF AwaitTypeOK
<1>7. AwaitInv'
  <2> SUFFICES ASSUME NEW i \in Jobs PROVE CallbackInv(i)'
    BY <1>1, <1>3 DEF AwaitInv
  <2>1. CASE i # j
    <3>1. /\ link'[i] = link[i] /\ box'[i] = box[i] /\ drops'[i] = drops[i]
          /\ channel'[i] = channel[i] /\ source'[i] = source[i]
      BY <1>1, <1>3, <2>1 DEF AwaitTypeOK
    <3> QED
      BY <1>1, <1>4, <1>5, <3>1 DEF AwaitInv, CallbackInv
  <2>2. CASE i = j
    <3>1. /\ source[j] = "none" /\ channel[j] = "empty"
          /\ \A c \in Callbacks : drops[j][c] = 0
      BY <1>1, <1>4 DEF AwaitInv, CallbackInv
    <3>2. /\ source'[j] = "pending" /\ channel'[j] = "empty"
          /\ \A c \in Callbacks : link'[j][c] = "pending" /\ box'[j][c] = "armed"
                                 /\ drops'[j][c] = 0
      BY <1>1, <1>3, <3>1 DEF AwaitTypeOK
    <3> QED
      BY <1>5, <2>2, <3>2 DEF CallbackInv, Callbacks
  <2> QED
    BY <2>1, <2>2
<1> QED
  BY <1>2, <1>6, <1>7 DEF IndInv

(* What the runtime, the loop and a future's tasks do.                     *)
LEMMA TokioStep ==
    ASSUME IndInv, UNCHANGED awaitVars,
           \/ Shutdown \/ StartRuntime \/ EnvTeardown
           \/ \E j \in Jobs : Start(j) \/ OnRuntime(j) \/ Watch(j) \/ OnLoop(j)
    PROVE  IndInv'
<1>1. TypeOK' /\ DeferredInv' /\ StaleInv'
  BY RuntimeStep, TeardownStep, StartStep, FutureStep, WatcherStep, ResolveStep,
     CloseStep DEF OnLoop
<1>2. envGone => envGone'
  BY DEF Shutdown, StartRuntime, EnvTeardown, Start, OnRuntime, FutureEnds,
     FuturePanics, FutureDropped, Watch, WatcherSees, WatcherDropped, OnLoop,
     StartWatcher, Resolve, CloseUnused, Finalize
<1>3. \A i \in Jobs : fut'[i] = "none" => fut[i] = "none"
  <2>1. ASSUME NEW j \in Jobs, Start(j)
        PROVE  fut' \in {[fut EXCEPT ![j] = "running"], [fut EXCEPT ![j] = "unspawned"]}
    BY <2>1, Zenon DEF Start, Spawn
  <2>2. ASSUME NEW j \in Jobs, OnRuntime(j)
        PROVE  \E f \in {"sent", "panicked", "cancelled"} : fut' = [fut EXCEPT ![j] = f]
    BY <2>2 DEF OnRuntime, FutureEnds, FuturePanics, FutureDropped
  <2>3. CASE \/ Shutdown \/ StartRuntime \/ EnvTeardown
             \/ \E j \in Jobs : Watch(j) \/ OnLoop(j)
    BY <2>3 DEF Shutdown, StartRuntime, EnvTeardown, Watch, WatcherSees,
       WatcherDropped, OnLoop, StartWatcher, Resolve, CloseUnused, Finalize, taskVars
  <2> QED
    BY <2>1, <2>2, <2>3 DEF IndInv, AwaitTypeOK, TypeOK
<1>4. AwaitInv'
  BY <1>2, <1>3, CallbacksKept DEF IndInv
<1>5. AwaitTypeOK'
  BY <1>1 DEF IndInv, AwaitTypeOK, awaitVars
<1> QED
  BY <1>1, <1>4, <1>5 DEF IndInv

(* Every step keeps the inductive invariant.                               *)
LEMMA NextIndInv == IndInv /\ [AwaitNext]_allVars => IndInv'
<1> SUFFICES ASSUME IndInv, [AwaitNext]_allVars PROVE IndInv'
  OBVIOUS
<1>1. CASE UNCHANGED allVars
  <2>1. UNCHANGED <<vars, awaitVars>>
    BY <1>1 DEF allVars
  <2>2. TypeOK' /\ DeferredInv' /\ StaleInv'
    BY <2>1 DEF IndInv, AwaitTypeOK, TypeOK, DeferredInv, FutureInv, FunctionInv,
       AnswerInv, Settled, StaleInv, vars, rtVars, taskVars, tsfnVars
  <2>3. AwaitTypeOK'
    BY <2>1, <2>2 DEF IndInv, AwaitTypeOK, awaitVars
  <2>4. AwaitInv'
    BY <2>1, CallbacksKept DEF IndInv, vars, taskVars
  <2> QED
    BY <2>2, <2>3, <2>4 DEF IndInv
<1>2. CASE Done /\ UNCHANGED awaitVars
  BY <1>1, <1>2 DEF Done, allVars
<1>3. CASE /\ UNCHANGED awaitVars
           /\ \/ Shutdown \/ StartRuntime \/ EnvTeardown
              \/ \E j \in Jobs : JobStep(j)
  BY <1>3, TokioStep DEF JobStep, OnRuntime
<1>4. CASE \E j \in Jobs : StartAwaiting(j)
  BY <1>4, StartAwaitingStep
<1>5. CASE \E j \in Jobs : \/ SourceMoves(j) \/ React(j)
                          \/ \E c \in Callbacks : Collect(j, c)
  BY <1>5, AwaitStep
<1> QED
  BY <1>1, <1>2, <1>3, <1>4, <1>5 DEF AwaitNext

(* The inductive invariant holds in every state of every behaviour.        *)
THEOREM Invariance == AwaitSpec => []IndInv
  BY InitIndInv, NextIndInv, PTL DEF AwaitSpec

(* The variables keep their types; a deferred's function never counts more *)
(* than one thread.                                                        *)
THEOREM TypeCorrect == AwaitSpec => []AwaitTypeOK
<1>1. IndInv => AwaitTypeOK
  BY DEF IndInv
<1> QED
  BY Invariance, <1>1, PTL

(* A deferred is answered at most once, by the future or by its watcher;   *)
(* its finalize callback and its resolver go the way of the answer; and a  *)
(* callback of an awaited promise is dropped once, by itself or by its     *)
(* finalizer, never both.                                                  *)
THEOREM SingleAnswers == AwaitSpec => []AnswersAreSingle
<1>1. ASSUME IndInv PROVE AnswersAreSingle
  <2>1. OneAnswer
    BY <1>1 DEF IndInv, DeferredInv, FunctionInv, StaleInv, OneAnswer
  <2>2. FinalizerWithSettlement
    BY <1>1 DEF IndInv, AwaitTypeOK, TypeOK, DeferredInv, FunctionInv, AnswerInv, Settled,
       FinalizerWithSettlement
  <2>3. ResolverGoesWithValue
    BY <1>1 DEF IndInv, DeferredInv, AnswerInv, Settled, ResolverGoesWithValue
  <2>4. CallbacksDroppedOnce
    <3> SUFFICES ASSUME NEW j \in Jobs
                 PROVE  /\ \A c \in Callbacks :
                              /\ drops[j][c] <= 1
                              /\ link[j][c] = "collected" => drops[j][c] = 1
                        /\ channel[j] = "canceled" =>
                              source[j] \notin {"fulfilled", "rejected"} \/ envGone
      BY DEF CallbacksDroppedOnce
    <3> QED
      BY <1>1 DEF IndInv, AwaitInv, CallbackInv
  <2> QED
    BY <2>1, <2>2, <2>3, <2>4 DEF AnswersAreSingle, AnsweredOnce
<1> QED
  BY Invariance, <1>1, PTL

-----------------------------------------------------------------------------
(* The promises of futures settle as Settlement says                       *)

(* A promise is made by the first spawn, and settled only by               *)
(* napi_resolve_deferred, where a value has been queued and no answer      *)
(* delivered yet.                                                          *)
LEMMA StepSimulation ==
    IndInv /\ [AwaitNext]_allVars => [Promised!Next]_(Promised!svars)
<1> SUFFICES ASSUME IndInv, [AwaitNext]_allVars
             PROVE  Promised!Next \/ UNCHANGED <<promise, outcome>>
  BY DEF Promised!svars
<1>1. ASSUME NEW j \in Jobs, Start(j)
      PROVE  Promised!Next \/ UNCHANGED <<promise, outcome>>
  <2>1. promise[j] = "none" /\ outcome' = outcome
    BY <1>1 DEF Start, IndInv, DeferredInv, FutureInv
  <2>2. promise' = promise \/ promise' = [promise EXCEPT ![j] = "pending"]
    BY <1>1, Zenon DEF Start, Spawn
  <2> QED
    BY <2>1, <2>2 DEF Promised!Next, Promised!Start
<1>2. ASSUME NEW j \in Jobs, OnRuntime(j)
      PROVE  Promised!Next \/ UNCHANGED <<promise, outcome>>
  <2>1. promise[j] # "none" /\ outcome[j] = "none" /\ promise' = promise
    BY <1>2 DEF OnRuntime, FutureEnds, FuturePanics, FutureDropped, IndInv,
       DeferredInv, FutureInv
  <2>2. outcome' = outcome \/ \E o \in {"ok", "err"} : outcome' = [outcome EXCEPT ![j] = o]
    BY <1>2 DEF OnRuntime, FutureEnds, FuturePanics, FutureDropped
  <2> QED
    BY <2>1, <2>2 DEF Promised!Next, Promised!Produce
<1>3. ASSUME NEW j \in Jobs, Resolve(j) PROVE Promised!Next
  <2>1. PICK p \in {"fulfilled", "rejected"} :
           /\ Head(queue[j]) = "err" => p = "rejected"
           /\ promise' = [promise EXCEPT ![j] = p]
    BY <1>3 DEF Resolve
  <2>2. /\ outcome' = outcome /\ queue[j] # << >>
        /\ queue[j] \in {<< >>, <<"ok">>, <<"err">>} /\ ~Settled(j)
        /\ fut[j] \notin {"none", "unspawned"}
    BY <1>3 DEF Resolve, taskVars, IndInv, DeferredInv, FutureInv, FunctionInv
  <2>3. promise[j] = "pending"
    BY <2>2 DEF IndInv, DeferredInv, FutureInv, AwaitTypeOK, TypeOK, Settled
  <2>4. p = "fulfilled" => outcome[j] # "none"
    BY <2>1, <2>2, QueueFacts DEF IndInv, DeferredInv, AnswerInv
  <2> QED
    BY <2>1, <2>2, <2>3, <2>4 DEF Promised!Next, Promised!Fulfil, Promised!Reject
<1>4. ASSUME \/ UNCHANGED allVars \/ Done \/ Shutdown \/ StartRuntime \/ EnvTeardown
             \/ \E j \in Jobs : \/ Watch(j) \/ StartWatcher(j) \/ CloseUnused(j)
                                \/ Finalize(j) \/ SourceMoves(j) \/ React(j)
                                \/ \E c \in Callbacks : Collect(j, c)
      PROVE  UNCHANGED <<promise, outcome>>
  BY <1>4 DEF allVars, vars, taskVars, Done, Shutdown, StartRuntime, EnvTeardown, Watch,
     WatcherSees, WatcherDropped, StartWatcher, CloseUnused, Finalize,
     SourceMoves, React, ThenReacts, CatchReacts, Collect
<1> QED
  BY <1>1, <1>2, <1>3, <1>4
  DEF AwaitNext, JobStep, OnRuntime, OnLoop, StartAwaiting

(* A future handed to JavaScript is a job in the sense of Settlement: its  *)
(* promise is settled at most once, and fulfilled only with the value of a *)
(* future that ended, whatever the runtime, the watcher and the awaited    *)
(* promise do.                                                             *)
THEOREM Settles == AwaitSpec => SettlesOnce
<1>1. AwaitInit => Promised!Init
  BY DEF AwaitInit, Init, Promised!Init
<1> QED
  BY <1>1, Invariance, StepSimulation, PTL
  DEF AwaitSpec, SettlesOnce, Promised!Spec

=============================================================================
