------------------------------ MODULE AsyncTask ------------------------------
(***************************************************************************)
(* AsyncTask and AsyncWork (crates/napi/src/async_work.rs and              *)
(* crates/napi/src/bindgen_runtime/js_values/task.rs): a task computes on  *)
(* the thread pool, and its completion on the JS thread settles a promise. *)
(* An AbortSignal shares a status cell with every task it was given to:    *)
(* 0 not completed, 1 completed, 2 canceled.                               *)
(*                                                                         *)
(* Task::resolve (or reject) and the conversion of its value are user code *)
(* that may run JavaScript in the middle of complete_impl, so a completion *)
(* takes several steps; everything else on the JS thread is one step.      *)
(* napi_cancel_async_work may fail even for work still in the queue, as    *)
(* the comment in on_abort_impl warns; the OHOS build, where on_abort_impl *)
(* does not call it, is the case where it always does.                     *)
(***************************************************************************)
EXTENDS Naturals, Sequences, Functions

CONSTANTS
    Tasks,
    Signals,
    None        \* no signal, and no task being completed

ASSUME NoneAssumption == None \notin Tasks \cup Signals

VARIABLES
    work,       \* the async work of each task, see WorkStates
    value,      \* AsyncWork.value: "uninit", or what compute returned
    status,     \* the status cell shared by a task and its abort signal
    promise,    \* the promise handed to JS; "aborted" is an AbortError
    finals,     \* how often Task::finally ran
    signalOf,   \* the signal each task was given
    stack,      \* per signal, the AbortSignalStack wrapped in the JS object
    fired,      \* the signals that have fired
    completing, \* the task whose resolve or conversion runs on the JS thread
    step,       \* which of the two it is
    envFailing, \* N-API calls may fail: the environment is shutting down
    staleCancel,\* tasks whose deleted async work was cancelled
    due,        \* history: tasks unfinished when their signal fired
    skipped,    \* history: those of them on_abort_impl did not get to
    raced       \* history: tasks aborted while their resolve ran

taskVars == <<work, value, promise, finals>>
signalVars == <<signalOf, stack, fired, due, skipped>>
jsVars == <<completing, step>>
vars == <<taskVars, status, signalVars, jsVars, envFailing, staleCancel, raced>>

(* "cancelled" has been cancelled in the queue; "done" is deleted; and     *)
(* "leaked" is never deleted because complete_impl returned early.         *)
WorkStates == {"none", "queued", "running", "executed", "cancelled", "done",
               "leaked"}

PromiseStates == {"none", "pending", "fulfilled", "rejected", "aborted"}

Init ==
    /\ work = [t \in Tasks |-> "none"]
    /\ value = [t \in Tasks |-> "uninit"]
    /\ status = [t \in Tasks |-> 0]
    /\ promise = [t \in Tasks |-> "none"]
    /\ finals = [t \in Tasks |-> 0]
    /\ signalOf = [t \in Tasks |-> None]
    /\ stack = [s \in Signals |-> <<>>]
    /\ fired = {}
    /\ completing = None /\ step = "resolve"
    /\ envFailing = FALSE
    /\ staleCancel = {}
    /\ due = {} /\ skipped = {} /\ raced = {}

-----------------------------------------------------------------------------
(* JS and user code: at top level or inside the resolve of some task       *)

(* AbortSignal::from_napi_value, for the argument of the function that     *)
(* makes t: a new entry, with its own status, on the stack of the signal.  *)
TakeSignal(t, s) ==
    /\ work[t] = "none" /\ signalOf[t] = None
    /\ signalOf' = [signalOf EXCEPT ![t] = s]
    /\ stack' = [stack EXCEPT ![s] = Append(@, t)]
    /\ UNCHANGED <<taskVars, status, fired, due, skipped, jsVars, envFailing,
                   staleCancel, raced>>

(* AsyncTask::to_napi_value and async_work::run (or Env::spawn).           *)
Run(t) ==
    /\ work[t] = "none"
    /\ work' = [work EXCEPT ![t] = "queued"]
    /\ promise' = [promise EXCEPT ![t] = "pending"]
    /\ UNCHANGED <<value, status, finals, signalVars, jsVars, envFailing,
                   staleCancel, raced>>

(* run fails after boxing the work: the box leaks, and JS gets an          *)
(* exception in place of the promise.                                      *)
RunFails(t) ==
    /\ envFailing /\ work[t] = "none"
    /\ work' = [work EXCEPT ![t] = "leaked"]
    /\ UNCHANGED <<value, promise, finals, status, signalVars, jsVars,
                   envFailing, staleCancel, raced>>

(* napi_cancel_async_work on the work of the tasks in T: it takes only     *)
(* queued work off the pool, and may fail to.  Called on deleted work it   *)
(* uses a dangling pointer.                                                *)
NapiCancel(T) ==
    /\ \E C \in SUBSET {t \in T : work[t] = "queued"} :
          work' = [t \in Tasks |-> IF t \in C THEN "cancelled" ELSE work[t]]
    /\ staleCancel' = staleCancel \cup {t \in T : work[t] = "done"}

(* AsyncWorkPromise::cancel, for a task spawned without a signal.          *)
Cancel(t) ==
    /\ promise[t] # "none" /\ signalOf[t] = None
    /\ status' = [status EXCEPT ![t] = 2]
    /\ NapiCancel({t})
    /\ raced' = IF completing = t /\ step = "resolve" THEN raced \cup {t}
                                                      ELSE raced
    /\ UNCHANGED <<value, promise, finals, signalVars, jsVars, envFailing>>

(* The entries of s in front of the first completed one.                   *)
Reached(s) ==
    {stack[s][i] : i \in {j \in DOMAIN stack[s] :
                             \A k \in 1..j : status[stack[s][k]] # 1}}

Unfinished(t) == promise[t] = "pending" /\ ~(completing = t /\ step = "convert")

(* Mutant: the promise is rejected on the spot.                            *)
OnAbort_RejectsNow(s) ==
    /\ s \notin fired
    /\ fired' = fired \cup {s}
    /\ LET hit == Reached(s) IN
          /\ status' = [t \in Tasks |-> IF t \in hit THEN 2 ELSE status[t]]
          /\ promise' = [t \in Tasks |-> IF t \in hit /\ promise[t] = "pending"
                                          THEN "aborted" ELSE promise[t]]
          /\ NapiCancel({t \in hit : work[t] # "none"})
    /\ UNCHANGED <<value, finals, signalOf, stack, jsVars, envFailing, due,
                   skipped, raced>>

(* The signal fires once; on_abort_impl walks the stack of its entries and *)
(* returns at the first completed one.                                     *)
OnAbort(s) ==
    /\ s \notin fired
    /\ fired' = fired \cup {s}
    /\ LET hit == Reached(s) IN
          /\ status' = [t \in Tasks |-> IF t \in hit THEN 2 ELSE status[t]]
          /\ NapiCancel({t \in hit : work[t] # "none"})
          /\ due' = due \cup {t \in Range(stack[s]) : Unfinished(t)}
          /\ skipped' = skipped \cup {t \in Range(stack[s]) \ hit : Unfinished(t)}
          /\ raced' = IF completing \in hit /\ step = "resolve"
                         THEN raced \cup {completing} ELSE raced
    /\ UNCHANGED <<value, promise, finals, signalOf, stack, jsVars, envFailing>>

-----------------------------------------------------------------------------
(* The thread pool                                                         *)

ExecuteBegin(t) ==
    /\ work[t] = "queued"
    /\ work' = [work EXCEPT ![t] = "running"]
    /\ UNCHANGED <<value, promise, finals, status, signalVars, jsVars,
                   envFailing, staleCancel, raced>>

(* execute: Task::compute returned, and its result is written.             *)
ExecuteEnd(t) ==
    /\ work[t] = "running"
    /\ work' = [work EXCEPT ![t] = "executed"]
    /\ \E r \in {"ok", "err"} : value' = [value EXCEPT ![t] = r]
    /\ UNCHANGED <<promise, finals, status, signalVars, jsVars, envFailing,
                   staleCancel, raced>>

-----------------------------------------------------------------------------
(* complete_impl, on the JS thread                                         *)

(* Mutant: finally also runs in the branch that settled the promise.       *)
Finally_Twice(t) ==
    /\ finals' = [finals EXCEPT ![t] = @ + 2]
    /\ \E w \in {"done", "leaked"} : work' = [work EXCEPT ![t] = w]

(* Its tail: Task::finally, then the work is deleted, unless finally       *)
(* returned an error.                                                      *)
Finally(t) ==
    /\ finals' = [finals EXCEPT ![t] = @ + 1]
    /\ \E w \in {"done", "leaked"} : work' = [work EXCEPT ![t] = w]

(* The loop delivers the end of t's work while no other completion runs.   *)
Ended(t) == completing = None /\ work[t] \in {"executed", "cancelled"}

(* Mutant: nothing is checked before the value is read.                    *)
IsAborted_Never(t) == FALSE

(* canceled_before_execute, or canceled_by_signal.                         *)
IsAborted(t) == work[t] = "cancelled" \/ status[t] = 2

CompleteAborted(t) ==
    /\ Ended(t) /\ IsAborted(t)
    /\ promise' = [promise EXCEPT ![t] = "aborted"]
    /\ Finally(t)
    /\ UNCHANGED <<value, status, signalVars, jsVars, envFailing, staleCancel,
                   raced>>

(* The computed value is taken out and resolve or reject is entered.       *)
ResolveBegin(t) ==
    /\ Ended(t) /\ ~IsAborted(t)
    /\ completing' = t /\ step' = "resolve"
    /\ UNCHANGED <<taskVars, status, signalVars, envFailing, staleCancel, raced>>

(* Mutant: the status is never set to completed.                           *)
CompleteEnd_StatusUnset(t, p) ==
    /\ promise' = [promise EXCEPT ![t] = p]
    /\ Finally(t)
    /\ completing' = None /\ step' = "resolve"
    /\ UNCHANGED <<value, status, signalVars, envFailing, staleCancel, raced>>

(* The completion of t is over, with its promise in state p.               *)
CompleteEnd(t, p) ==
    /\ promise' = [promise EXCEPT ![t] = p]
    /\ status' = [status EXCEPT ![t] = 1]
    /\ Finally(t)
    /\ completing' = None /\ step' = "resolve"
    /\ UNCHANGED <<value, signalVars, envFailing, staleCancel, raced>>

(* Mutant: a task whose resolve fails is not settled.                      *)
ResolveEnd_ErrIgnored(t) ==
    /\ completing = t /\ step = "resolve"
    /\ \/ CompleteEnd(t, promise[t])
       \/ /\ status[t] # 2
          /\ step' = "convert"
          /\ UNCHANGED <<taskVars, status, signalVars, completing, envFailing,
                         staleCancel, raced>>

(* Mutant: the status is not looked at again after resolve.                *)
ResolveEnd_Unchecked(t) ==
    /\ completing = t /\ step = "resolve"
    /\ \/ CompleteEnd(t, "rejected")
       \/ /\ step' = "convert"
          /\ UNCHANGED <<taskVars, status, signalVars, completing, envFailing,
                         staleCancel, raced>>

(* resolve or reject came back.  If the task was canceled meanwhile the    *)
(* promise is left as it is; an error rejects it; a value is converted.    *)
ResolveEnd(t) ==
    /\ completing = t /\ step = "resolve"
    /\ \/ status[t] = 2 /\ CompleteEnd(t, promise[t])
       \/ status[t] # 2 /\ CompleteEnd(t, "rejected")
       \/ /\ status[t] # 2
          /\ step' = "convert"
          /\ UNCHANGED <<taskVars, status, signalVars, completing, envFailing,
                         staleCancel, raced>>

ConvertEnd(t) ==
    /\ completing = t /\ step = "convert"
    /\ \E p \in {"fulfilled", "rejected"} : CompleteEnd(t, p)

(* An N-API call of complete_impl fails: it returns at once.               *)
CompleteFails(t) ==
    /\ envFailing
    /\ (Ended(t) /\ IsAborted(t)) \/ (completing = t /\ step = "convert")
    /\ work' = [work EXCEPT ![t] = "leaked"]
    /\ completing' = None /\ step' = "resolve"
    /\ UNCHANGED <<value, promise, finals, status, signalVars, envFailing,
                   staleCancel, raced>>

EnvFails ==
    /\ ~envFailing /\ completing = None
    /\ envFailing' = TRUE
    /\ UNCHANGED <<taskVars, status, signalVars, jsVars, staleCancel, raced>>

-----------------------------------------------------------------------------
Execute(t) == ExecuteBegin(t) \/ ExecuteEnd(t)

Complete(t) ==
    CompleteAborted(t) \/ ResolveBegin(t) \/ ResolveEnd(t) \/ ConvertEnd(t)
    \/ CompleteFails(t)

User(t) == (\E s \in Signals : TakeSignal(t, s)) \/ Run(t) \/ RunFails(t) \/ Cancel(t)

Done ==
    /\ \A t \in Tasks : work[t] \in {"done", "leaked"}
    /\ UNCHANGED vars

Next ==
    \/ \E t \in Tasks : User(t) \/ Execute(t) \/ Complete(t)
    \/ \E s \in Signals : OnAbort(s)
    \/ EnvFails
    \/ Done

(* The pool runs what it was given, compute and resolve return, and the    *)
(* loop delivers completions.                                              *)
Fairness == \A t \in Tasks : WF_vars(Execute(t)) /\ WF_vars(Complete(t))

Spec == Init /\ [][Next]_vars
FairSpec == Spec /\ Fairness

-----------------------------------------------------------------------------
(* Types; complete_impl assumes the value initialised only after execute   *)
(* wrote it: a task cancelled in the queue never gets to assume_init.      *)
TypeOK ==
    /\ work \in [Tasks -> WorkStates]
    /\ value \in [Tasks -> {"uninit", "ok", "err"}]
    /\ status \in [Tasks -> 0..2]
    /\ promise \in [Tasks -> PromiseStates]
    /\ finals \in [Tasks -> 0..1]
    /\ signalOf \in [Tasks -> Signals \cup {None}]
    /\ stack \in [Signals -> Seq(Tasks)]
    /\ fired \subseteq Signals
    /\ completing \in Tasks \cup {None}
    /\ step \in {"resolve", "convert"}
    /\ envFailing \in BOOLEAN
    /\ staleCancel \subseteq Tasks
    /\ due \subseteq Tasks /\ skipped \subseteq due /\ raced \subseteq Tasks
    /\ completing # None => value[completing] # "uninit"

(* on_abort_impl never cancels async work that complete_impl has deleted:  *)
(* the status says completed first.  (AsyncWorkPromise::cancel can.)       *)
AbortCancelsLiveWork == \A t \in staleCancel : signalOf[t] = None

(* A task that on_abort_impl got to before its resolve or reject returned  *)
(* never yields a value or an error of its own, wherever it was: queued,   *)
(* computing, or running JavaScript on its way to the promise.             *)
AbortRejects ==
    \A t \in due \ skipped : promise[t] \in {"pending", "aborted"}

(* When the work is deleted Task::finally has run once, and the promise is *)
(* settled unless an abort came in during resolve.                         *)
CompletedIsSettled ==
    \A t \in Tasks : work[t] = "done" =>
        finals[t] = 1 /\ (promise[t] # "pending" \/ t \in raced)

(* The outcome of a task is the right one, aborted or not.                 *)
OutcomeIsRight == AbortCancelsLiveWork /\ AbortRejects /\ CompletedIsSettled

(* Every promise handed out is settled at most once, and fulfilled only    *)
(* after compute returned (the abstract specification Settlement).         *)
AbstractPromise ==
    [t \in Tasks |-> IF promise[t] = "aborted" THEN "rejected" ELSE promise[t]]

AbstractOutcome ==
    [t \in Tasks |-> IF value[t] = "uninit" THEN "none" ELSE value[t]]

Promised == INSTANCE Settlement WITH Jobs <- Tasks,
                promise <- AbstractPromise, outcome <- AbstractOutcome

SettlesOnce == Promised!Spec

(* A task that is run settles its promise, unless it was canceled while    *)
(* its resolve ran or the environment fails under it.                      *)
RunSettles ==
    \A t \in Tasks : promise[t] = "pending" ~>
        (promise[t] # "pending" \/ t \in raced \/ envFailing)

=============================================================================
