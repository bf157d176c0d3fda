---------------------------- MODULE TokioFuture ----------------------------
(***************************************************************************)
(* execute_tokio_future and execute_tokio_future_with_finalize_callback    *)
(* (crates/napi/src/tokio_runtime.rs) over JsDeferred                      *)
(* (crates/napi/src/js_values/deferred.rs).  A Rust future runs on the     *)
(* tokio runtime and its result goes back to the JS thread through a       *)
(* thread-safe function of its own, whose callback settles the promise and *)
(* releases that function.  A second task awaits the first and rejects the *)
(* promise when the first one panicked.                                    *)
(*                                                                         *)
(* The runtime itself (RT) can be shut down and started again; futures of  *)
(* a runtime that was shut down may run on for a while, and may be dropped *)
(* at any await.                                                           *)
(***************************************************************************)
EXTENDS Naturals, Sequences

CONSTANTS
    Jobs,         \* the futures handed to JS as promises
    NoJob,        \* no future is being started
    MaxShutdowns  \* bound: how often the runtime is shut down

ASSUME ConstantsAssumption == NoJob \notin Jobs /\ MaxShutdowns \in Nat

VARIABLES
    rt,          \* RT holds a runtime
    shutdowns,   \* how often it was shut down
    doomed,      \* futures spawned on a runtime that was shut down
    starting,    \* the job whose second task is about to be spawned
    fut,         \* the inner task of each job, see FutStates
    watcher,     \* the task that awaits it: "none" | "waiting" | "done"
    outcome,     \* what the future came to: "none" | "ok" | "err"
    tsfn,        \* thread-safe function: "none" | "open" | "closing" | "finalized"
    count,       \* its thread count
    queue,       \* the answers queued in it, "ok" or "err"
    promise,     \* "none" | "pending" | "fulfilled" | "rejected"
    finalizer,   \* the finalize callback: "none" | "armed" | "ran"
    resolver,    \* the SendableResolver of each job, see ResolverStates
    answers,     \* history: answers the deferred accepted
    staleCalls,  \* history: jobs that called their function after it was freed
    bareRuns,    \* history: jobs whose resolver ran without an environment
    envGone      \* the JS environment is being torn down

rtVars == <<rt, shutdowns, doomed>>
taskVars == <<fut, watcher, outcome>>
tsfnVars == <<tsfn, count, queue>>
vars == <<rtVars, starting, taskVars, tsfnVars, promise, finalizer, resolver,
          answers, staleCalls, bareRuns, envGone>>

(* "unspawned": the runtime was gone; "sent": it passed its answer on;     *)
(* "cancelled": the runtime dropped it.                                    *)
FutStates == {"none", "running", "unspawned", "sent", "panicked", "cancelled"}

(* It may own what only the JS thread may touch, and is Send all the same: *)
(* "held" by the future, "queued" with its answer, "ran" on the JS thread, *)
(* "unused" when it was dropped there, "lost" when it was dropped on the   *)
(* runtime, "leaked" with an answer nobody took.                           *)
ResolverStates ==
    {"none", "held", "queued", "ran", "unused", "lost", "leaked"}

Init ==
    /\ rt = TRUE /\ shutdowns = 0 /\ doomed = {}
    /\ starting = NoJob
    /\ fut = [j \in Jobs |-> "none"]
    /\ watcher = [j \in Jobs |-> "none"]
    /\ outcome = [j \in Jobs |-> "none"]
    /\ tsfn = [j \in Jobs |-> "none"]
    /\ count = [j \in Jobs |-> 0]
    /\ queue = [j \in Jobs |-> <<>>]
    /\ promise = [j \in Jobs |-> "none"]
    /\ finalizer = [j \in Jobs |-> "none"]
    /\ resolver = [j \in Jobs |-> "none"]
    /\ answers = [j \in Jobs |-> 0]
    /\ staleCalls = {} /\ bareRuns = {}
    /\ envGone = FALSE

JsFree == starting = NoJob

-----------------------------------------------------------------------------
(* The runtime                                                             *)

(* shutdown_async_runtime: tasks are dropped in the background.            *)
Shutdown ==
    /\ rt /\ shutdowns < MaxShutdowns
    /\ rt' = FALSE /\ shutdowns' = shutdowns + 1
    /\ doomed' = doomed \cup {j \in Jobs : fut[j] # "none"}
    /\ UNCHANGED <<starting, taskVars, tsfnVars, promise, finalizer, resolver,
                   answers, staleCalls, bareRuns, envGone>>

(* start_async_runtime *)
StartRuntime ==
    /\ ~rt /\ rt' = TRUE
    /\ UNCHANGED <<shutdowns, doomed, starting, taskVars, tsfnVars, promise,
                   finalizer, resolver, answers, staleCalls, bareRuns,
                   envGone>>

-----------------------------------------------------------------------------
(* execute_tokio_future on the JS thread                                   *)

(* JsDeferred::new: the function of the deferred, which counts one thread  *)
(* although the watcher's clone of the deferred shares it.                 *)
NewDeferred(j) ==
    /\ tsfn' = [tsfn EXCEPT ![j] = "open"]
    /\ count' = [count EXCEPT ![j] = 1]
    /\ UNCHANGED <<queue, answers, staleCalls>>

(* The first spawn, which panics without a runtime: the promise is lost    *)
(* with the deferred, and the function never released.                     *)
Spawn(j) ==
    IF rt THEN /\ fut' = [fut EXCEPT ![j] = "running"]
               /\ promise' = [promise EXCEPT ![j] = "pending"]
               /\ resolver' = [resolver EXCEPT ![j] = "held"]
               /\ starting' = j
          ELSE /\ fut' = [fut EXCEPT ![j] = "unspawned"]
               /\ resolver' = [resolver EXCEPT ![j] = "unused"]
               /\ UNCHANGED <<promise, starting>>

(* Mutant: the function counts a thread for each of the two tasks.         *)
Start_PerTask(j) ==
    /\ JsFree /\ ~envGone /\ rt /\ fut[j] = "none"
    /\ tsfn' = [tsfn EXCEPT ![j] = "open"]
    /\ count' = [count EXCEPT ![j] = 2]
    /\ Spawn(j)
    /\ UNCHANGED <<rtVars, watcher, outcome, queue, finalizer, answers,
                   staleCalls, bareRuns, envGone>>

(* A future is handed to the runtime, with a finalize callback or without; *)
(* or the deferred cannot be made, and future and resolver are dropped.    *)
Start(j) ==
    /\ JsFree /\ ~envGone /\ fut[j] = "none"
    /\ \/ /\ NewDeferred(j) /\ Spawn(j)
          /\ \E f \in {"none", "armed"} : finalizer' = [finalizer EXCEPT ![j] = f]
       \/ /\ fut' = [fut EXCEPT ![j] = "unspawned"]
          /\ resolver' = [resolver EXCEPT ![j] = "unused"]
          /\ UNCHANGED <<tsfnVars, promise, starting, finalizer, answers, staleCalls>>
    /\ UNCHANGED <<rtVars, watcher, outcome, bareRuns, envGone>>

(* The second spawn: without a runtime it panics, and nobody watches.      *)
StartWatcher(j) ==
    /\ starting = j
    /\ starting' = NoJob
    /\ watcher' = [watcher EXCEPT ![j] = IF rt THEN "waiting" ELSE "done"]
    /\ UNCHANGED <<rtVars, fut, outcome, tsfnVars, promise, finalizer,
                   resolver, answers, staleCalls, bareRuns, envGone>>

-----------------------------------------------------------------------------
(* The two tasks on the runtime                                            *)

(* JsDeferred::call_tsfn with answer a: an open function queues it, a      *)
(* closing one takes the caller off its count and the answer leaks.        *)
CallTsfn(j, a) ==
    /\ IF tsfn[j] = "open"
          THEN /\ queue' = [queue EXCEPT ![j] = Append(@, a)]
               /\ answers' = [answers EXCEPT ![j] = @ + 1]
               /\ UNCHANGED count
          ELSE /\ count' = [count EXCEPT ![j] = IF @ > 0 THEN @ - 1 ELSE 0]
               /\ UNCHANGED <<queue, answers>>
    /\ staleCalls' = IF tsfn[j] = "finalized" THEN staleCalls \cup {j}
                                              ELSE staleCalls
    /\ UNCHANGED tsfn

(* What becomes of the resolver of a future that came to o: it goes with a *)
(* value, and the task drops it when there is an error to pass on.         *)
HandOver(j, o) ==
    resolver' = [resolver EXCEPT ![j] =
                    IF o = "err" THEN "lost"
                    ELSE IF tsfn[j] = "open" THEN "queued" ELSE "leaked"]

(* The future ends and its task resolves or rejects the deferred.  When    *)
(* that call is refused a debug build asserts, so the task panics.         *)
FutureEnds(j) ==
    /\ fut[j] = "running"
    /\ \E o \in {"ok", "err"} :
          /\ outcome' = [outcome EXCEPT ![j] = o]
          /\ CallTsfn(j, o) /\ HandOver(j, o)
    /\ \E f \in {"sent"} \cup (IF tsfn[j] = "open" THEN {} ELSE {"panicked"}) :
          fut' = [fut EXCEPT ![j] = f]
    /\ UNCHANGED <<rtVars, starting, watcher, promise, finalizer, bareRuns,
                   envGone>>

FuturePanics(j) ==
    /\ fut[j] = "running"
    /\ fut' = [fut EXCEPT ![j] = "panicked"]
    /\ resolver' = [resolver EXCEPT ![j] = "lost"]
    /\ UNCHANGED <<rtVars, starting, watcher, outcome, tsfnVars, promise,
                   finalizer, answers, staleCalls, bareRuns, envGone>>

(* The runtime that was shut down drops a future, or its watcher.          *)
FutureDropped(j) ==
    /\ j \in doomed /\ fut[j] = "running"
    /\ fut' = [fut EXCEPT ![j] = "cancelled"]
    /\ resolver' = [resolver EXCEPT ![j] = "lost"]
    /\ UNCHANGED <<rtVars, starting, watcher, outcome, tsfnVars, promise,
                   finalizer, answers, staleCalls, bareRuns, envGone>>

WatcherDropped(j) ==
    /\ j \in doomed /\ watcher[j] = "waiting"
    /\ watcher' = [watcher EXCEPT ![j] = "done"]
    /\ UNCHANGED <<rtVars, starting, fut, outcome, tsfnVars, promise,
                   finalizer, resolver, answers, staleCalls, bareRuns,
                   envGone>>

(* Mutant: the watcher rejects whatever the first task came to.            *)
WatcherSees_Any(j) ==
    /\ watcher[j] = "waiting" /\ fut[j] \in {"sent", "panicked", "cancelled"}
    /\ watcher' = [watcher EXCEPT ![j] = "done"]
    /\ CallTsfn(j, "err")
    /\ UNCHANGED <<rtVars, starting, fut, outcome, promise, finalizer,
                   resolver, bareRuns, envGone>>

(* Mutant: a panic is not passed on.                                       *)
WatcherSees_Ignores(j) ==
    /\ watcher[j] = "waiting" /\ fut[j] \in {"sent", "panicked", "cancelled"}
    /\ watcher' = [watcher EXCEPT ![j] = "done"]
    /\ UNCHANGED <<rtVars, starting, fut, outcome, tsfnVars, promise,
                   finalizer, resolver, answers, staleCalls, bareRuns,
                   envGone>>

(* The first task is over: a panic rejects the promise, a cancellation is  *)
(* no panic and does nothing.                                              *)
WatcherSees(j) ==
    /\ watcher[j] = "waiting" /\ fut[j] \in {"sent", "panicked", "cancelled"}
    /\ watcher' = [watcher EXCEPT ![j] = "done"]
    /\ IF fut[j] = "panicked" THEN CallTsfn(j, "err")
                              ELSE UNCHANGED <<tsfnVars, answers, staleCalls>>
    /\ UNCHANGED <<rtVars, starting, fut, outcome, promise, finalizer,
                   resolver, bareRuns, envGone>>

-----------------------------------------------------------------------------
(* The JS thread's loop                                                    *)

(* Mutant: the finalize callback runs only on the path that resolves.      *)
Finalized_OnResolve(j, p) ==
    finalizer' = [finalizer EXCEPT ![j] =
                    IF @ = "armed" /\ p = "fulfilled" THEN "ran" ELSE @]

(* The finalize callback is taken out of its cell and runs at the end.     *)
Finalized(j, p) ==
    finalizer' = [finalizer EXCEPT ![j] = IF @ = "armed" THEN "ran" ELSE @]

(* The resolver runs, with the dispose of an AsyncBlockBuilder in it, when *)
(* the answer is a value.                                                  *)
RunResolver(j) ==
    resolver' = [resolver EXCEPT ![j] =
                    IF Head(queue[j]) = "ok" THEN "ran" ELSE @]

(* napi_resolve_deferred: run the resolver (it, the conversion or          *)
(* resolve_deferred may fail), release the function, settle the promise.   *)
Resolve(j) ==
    /\ JsFree /\ ~envGone
    /\ tsfn[j] = "open" /\ queue[j] # <<>>
    /\ queue' = [queue EXCEPT ![j] = Tail(@)]
    /\ count' = [count EXCEPT ![j] = IF @ > 0 THEN @ - 1 ELSE 0]
    /\ \E p \in {"fulfilled", "rejected"} :
          /\ Head(queue[j]) = "err" => p = "rejected"
          /\ promise' = [promise EXCEPT ![j] = p]
          /\ Finalized(j, p)
    /\ RunResolver(j)
    /\ UNCHANGED <<rtVars, starting, taskVars, tsfn, answers, staleCalls,
                   bareRuns, envGone>>

(* The loop closes a function no thread is counted on any more.            *)
CloseUnused(j) ==
    /\ JsFree
    /\ tsfn[j] = "open" /\ queue[j] = <<>> /\ count[j] = 0
    /\ tsfn' = [tsfn EXCEPT ![j] = "closing"]
    /\ UNCHANGED <<rtVars, starting, taskVars, count, queue, promise,
                   finalizer, resolver, answers, staleCalls, bareRuns,
                   envGone>>

EnvTeardown ==
    /\ JsFree /\ ~envGone
    /\ envGone' = TRUE
    /\ tsfn' = [j \in Jobs |-> IF tsfn[j] = "open" THEN "closing" ELSE tsfn[j]]
    /\ UNCHANGED <<rtVars, starting, taskVars, count, queue, promise,
                   finalizer, resolver, answers, staleCalls, bareRuns>>

(* A closing function is deleted.  What is left in its queue is passed to  *)
(* napi_resolve_deferred with a null environment, which it does not check: *)
(* resolver and finalize callback run, and the promise stays as it was.    *)
Finalize(j) ==
    /\ JsFree /\ tsfn[j] = "closing"
    /\ tsfn' = [tsfn EXCEPT ![j] = "finalized"]
    /\ queue' = [queue EXCEPT ![j] = <<>>]
    /\ IF queue[j] # <<>>
          THEN /\ bareRuns' = bareRuns \cup {j}
               /\ count' = [count EXCEPT ![j] = 0]
               /\ Finalized(j, "pending") /\ RunResolver(j)
          ELSE UNCHANGED <<bareRuns, count, finalizer, resolver>>
    /\ UNCHANGED <<rtVars, starting, taskVars, promise, answers, staleCalls,
                   envGone>>

-----------------------------------------------------------------------------
OnRuntime(j) == FutureEnds(j) \/ FuturePanics(j) \/ FutureDropped(j)

Watch(j) == WatcherSees(j) \/ WatcherDropped(j)

OnLoop(j) == StartWatcher(j) \/ Resolve(j) \/ CloseUnused(j) \/ Finalize(j)

Done ==
    /\ \A j \in Jobs : /\ fut[j] = "none" => envGone
                      /\ fut[j] # "running" /\ watcher[j] # "waiting"
    /\ UNCHANGED vars

Next ==
    \/ Shutdown \/ StartRuntime \/ EnvTeardown
    \/ \E j \in Jobs : Start(j) \/ OnRuntime(j) \/ Watch(j) \/ OnLoop(j)
    \/ Done

(* Futures do end; tokio runs both tasks, and the loop its functions.      *)
Fairness ==
    \A j \in Jobs : /\ WF_vars(OnRuntime(j))
                    /\ WF_vars(Watch(j))
                    /\ WF_vars(OnLoop(j))

Spec == Init /\ [][Next]_vars
FairSpec == Spec /\ Fairness

-----------------------------------------------------------------------------
TypeOK ==
    /\ rt \in BOOLEAN /\ shutdowns \in 0..MaxShutdowns /\ doomed \subseteq Jobs
    /\ starting \in Jobs \cup {NoJob}
    /\ fut \in [Jobs -> FutStates]
    /\ watcher \in [Jobs -> {"none", "waiting", "done"}]
    /\ outcome \in [Jobs -> {"none", "ok", "err"}]
    /\ tsfn \in [Jobs -> {"none", "open", "closing", "finalized"}]
    /\ count \in [Jobs -> 0..1]
    /\ queue \in [Jobs -> Seq({"ok", "err"})]
    /\ promise \in [Jobs -> {"none", "pending", "fulfilled", "rejected"}]
    /\ finalizer \in [Jobs -> {"none", "armed", "ran"}]
    /\ resolver \in [Jobs -> ResolverStates]
    /\ answers \in [Jobs -> Nat]
    /\ staleCalls \subseteq Jobs /\ bareRuns \subseteq Jobs
    /\ envGone \in BOOLEAN

(* Of the two holders of a deferred (the future's task and the clone the   *)
(* panic handler keeps) only one ever answers, for the first answer        *)
(* releases the function: while the environment lives nobody calls it      *)
(* after it was deleted.                                                   *)
OneAnswer ==
    /\ \A j \in Jobs : answers[j] <= 1
    /\ ~envGone => staleCalls = {}

(* The finalize callback has run exactly when the promise is settled, or   *)
(* when its function was emptied at the end of the environment.  A settled *)
(* promise lets go of its function, which would keep the loop alive.       *)
FinalizerWithSettlement ==
    \A j \in Jobs :
        LET settled == promise[j] \in {"fulfilled", "rejected"}
        IN /\ finalizer[j] # "none" =>
                 (finalizer[j] = "ran" <=> settled \/ j \in bareRuns)
           /\ settled => count[j] = 0

(* The resolver of a future, and the dispose in it, gets to the JS thread  *)
(* with the value it is for: a promise is fulfilled only by it, and it is  *)
(* lost on the runtime only when no value came, and leaked only with the   *)
(* environment.                                                            *)
ResolverGoesWithValue ==
    \A j \in Jobs :
        /\ promise[j] \in {"fulfilled", "rejected"} =>
              resolver[j] = IF outcome[j] = "ok" THEN "ran" ELSE "lost"
        /\ promise[j] = "fulfilled" => outcome[j] = "ok"
        /\ resolver[j] = "lost" => outcome[j] # "ok"
        /\ resolver[j] = "leaked" => envGone

(* A deferred is answered once, and what its answer must bring about       *)
(* happens with it.                                                        *)
AnsweredOnce == OneAnswer /\ FinalizerWithSettlement /\ ResolverGoesWithValue

(* Promises are settled at most once, with a value only when the future    *)
(* ended (the abstract specification Settlement).                          *)
Promised == INSTANCE Settlement

SettlesOnce == Promised!Spec

=============================================================================
