------------------------- MODULE ThreadsafeFunction -------------------------
(***************************************************************************)
(* ThreadsafeFunction<T, .., CalleeHandled, Weak, MaxQueueSize> of         *)
(* crates/napi/src/threadsafe_function.rs: native threads call a JS        *)
(* function through the queue of an N-API thread-safe function.            *)
(*                                                                         *)
(* The Rust object has no Clone: threads that share it hold an Arc of it.  *)
(* Its handle has the raw pointer and `aborted: RwLock<bool>`; the         *)
(* finalizer reaches it through a Weak.  A call borrows the object and runs *)
(* wholly under the read lock; abort(), which takes the object by value,   *)
(* and thread_finalize_cb take the write lock; dropping the object         *)
(* releases the raw function.                                              *)
(*                                                                         *)
(* The raw function (its thread count, bounded queue and closing flag) is  *)
(* not in this repository: it is modelled from the statuses the code       *)
(* handles, and its definitions are marked external in PROJECT.json.       *)
(***************************************************************************)
EXTENDS Integers, Sequences, Functions

CONSTANTS
    Threads,         \* native threads that can share the function
    Js,              \* the JS thread: it may share it too, and runs the loop
    Variants,        \* what is called, a subset of CallVariants
    Modes,           \* how `call` and `call_with_return_value` wait
    Callers,         \* who makes calls
    Aborters,        \* who may call the deprecated abort()
    MaxQueueSize,    \* 0: the queue is unbounded
    CalleeHandled,   \* TRUE: errors are passed to the JS callback
    WriterPreferring,\* TRUE: a waiting writer keeps new readers out
    MaxCalls         \* bound: calls made by each caller

Procs == Threads \cup {Js}

(* `call` (and call_with_priority), `call_with_return_value`, `call_async` *)
CallVariants == {"direct", "callback", "async"}

CallModes == {"blocking", "nonblocking"}

ASSUME ConstantsAssumption ==
    /\ Js \notin Threads
    /\ Variants \subseteq CallVariants
    /\ Modes \subseteq CallModes
    /\ Callers \subseteq Procs
    /\ Aborters \subseteq Procs
    /\ MaxQueueSize \in Nat
    /\ CalleeHandled \in BOOLEAN
    /\ WriterPreferring \in BOOLEAN
    /\ MaxCalls \in Nat

VARIABLES
    tsfn,        \* raw function: "none" | "open" | "closing" | "finalized"
    threadCount, \* its count of threads still expected to release it
    queue,       \* its queue of payloads not yet given to call_js_cb
    aborted,     \* the flag behind the RwLock
    owners,      \* processes that share the function: an Arc, or a borrow
    pc,          \* where each process is in the code of the handle
    req,         \* the arguments of the call each process is making
    calls,       \* number of calls each process has begun
    result,      \* what the last call of each process came to
    js,          \* the JS thread's loop: "loop" | "finalizing" | "draining"
    contextFreed,\* the boxed callback R has been dropped
    envGone,     \* the JS environment is being torn down
    delivered,   \* payloads handed to call_js_cb with a live environment
    uncaught,    \* calls whose failure was raised as an uncaught exception
    dropStatus   \* what the release in Handle::drop returned

napiVars == <<tsfn, threadCount, queue>>
handleVars == <<aborted, owners>>
procVars == <<pc, req, calls, result>>
jsVars == <<js, contextFreed, envGone, delivered, uncaught>>
vars == <<napiVars, handleVars, procVars, jsVars, dropStatus>>

Requests == [variant : CallVariants, mode : CallModes, ok : BOOLEAN]

NoRequest == [variant |-> "direct", mode |-> "nonblocking", ok |-> TRUE]

Payloads ==
    [from : Procs, seq : 1..MaxCalls, variant : CallVariants, ok : BOOLEAN]

Results == {"none", "ok", "closing", "queue_full", "invalid_arg",
            "value", "error", "canceled"}

Locations == {"idle", "wantRead", "inCall", "awaiting", "wantWrite",
              "dropSelf", "releasing", "gone"}

-----------------------------------------------------------------------------
(* The RwLock: who holds it for reading, who waits for it, and the Arc.    *)

Readers == {p \in Procs : pc[p] = "inCall"}

WriterWaits == (\E p \in Procs : pc[p] = "wantWrite") \/ js = "finalizing"

(* The finalizer's upgraded Weak keeps the handle alive while it waits.    *)
LastStrongRef(p) == owners = {p} /\ js # "finalizing"

(* A process that is inside a synchronous operation on the JS thread keeps *)
(* the loop from running.                                                  *)
JsIdle == js = "loop" /\ pc[Js] \in {"idle", "awaiting", "gone"}

(* p can start an operation: it has the function, and JS code does not run *)
(* in the middle of a finalizer or after the environment is gone.          *)
CanStart(p) ==
    /\ pc[p] = "idle"
    /\ p \in owners
    /\ p = Js => js = "loop" /\ ~envGone

-----------------------------------------------------------------------------
Init ==
    /\ tsfn = "none" /\ threadCount = 0 /\ queue = <<>>
    /\ aborted = FALSE /\ owners = {}
    /\ pc = [p \in Procs |-> "idle"]
    /\ req = [p \in Procs |-> NoRequest]
    /\ calls = [p \in Procs |-> 0]
    /\ result = [p \in Procs |-> "none"]
    /\ js = "loop" /\ contextFreed = FALSE /\ envGone = FALSE
    /\ delivered = <<>> /\ uncaught = {}
    /\ dropStatus = "none"

(* create: the raw function starts with a thread count of one, owned by    *)
(* the handle.  In Weak mode a failing unref returns early, which drops    *)
(* the handle: its Drop then releases the raw function.                    *)
Create ==
    /\ tsfn = "none" /\ pc[Js] = "idle"
    /\ tsfn' = "open" /\ threadCount' = 1
    /\ \/ pc' = pc /\ owners' = {Js}
       \/ pc' = [pc EXCEPT ![Js] = "releasing"] /\ owners' = {}
    /\ UNCHANGED <<queue, aborted, req, calls, result, jsVars, dropStatus>>

(* The raw create failed: the handle's raw pointer stays null, so its Drop *)
(* releases nothing.                                                       *)
CreateFailed ==
    /\ tsfn = "none" /\ pc[Js] = "idle"
    /\ pc' = [p \in Procs |-> "gone"]
    /\ dropStatus' = "null"
    /\ UNCHANGED <<napiVars, handleVars, req, calls, result, jsVars>>

(* A clone of the Arc<ThreadsafeFunction> moves to a thread.               *)
Clone(p, q) ==
    /\ CanStart(p)
    /\ pc[q] = "idle" /\ q \notin owners
    /\ owners' = owners \cup {q}
    /\ UNCHANGED <<napiVars, aborted, procVars, jsVars, dropStatus>>

-----------------------------------------------------------------------------
(* call, call_with_return_value, call_async, call_with_priority            *)

(* The caller builds its value and asks for the read lock.  Only a         *)
(* CalleeHandled function takes a Result, so only it can be given an Err.  *)
(* The JS thread does not block on a bounded queue that only it empties:   *)
(* N-API itself forbids that.                                              *)
CallBegin(p) ==
    /\ p \in Callers /\ CanStart(p) /\ calls[p] < MaxCalls
    /\ calls' = [calls EXCEPT ![p] = @ + 1]
    /\ \E v \in Variants, m \in Modes, ok \in BOOLEAN :
          /\ v = "async" => m = "nonblocking"
          /\ p = Js /\ MaxQueueSize > 0 => m = "nonblocking"
          /\ ~CalleeHandled => ok
          /\ req' = [req EXCEPT ![p] = [variant |-> v, mode |-> m, ok |-> ok]]
    /\ result' = [result EXCEPT ![p] = "none"]
    /\ pc' = [pc EXCEPT ![p] = "wantRead"]
    /\ UNCHANGED <<napiVars, handleVars, jsVars, dropStatus>>

(* The call comes back with s, and no longer holds the lock if it did.     *)
CallReturns(p, s) ==
    /\ pc' = [pc EXCEPT ![p] = "idle"]
    /\ result' = [result EXCEPT ![p] = s]
    /\ req' = [req EXCEPT ![p] = NoRequest]

(* with_read_aborted: the lock is taken, and an aborted handle answers     *)
(* Status::Closing without touching the raw function.                      *)
CallEnter(p) ==
    /\ pc[p] = "wantRead"
    /\ ~(WriterPreferring /\ WriterWaits)
    /\ IF aborted
          THEN CallReturns(p, "closing")
          ELSE /\ pc' = [pc EXCEPT ![p] = "inCall"]
               /\ UNCHANGED <<req, result>>
    /\ UNCHANGED <<napiVars, handleVars, calls, jsVars, dropStatus>>

QueueFull == MaxQueueSize > 0 /\ Len(queue) >= MaxQueueSize

(* napi_call_threadsafe_function accepts the payload.  call_async goes on  *)
(* to await its channel; when it was given an Err the sender was dropped   *)
(* with the closure that `Result::map` never used.                         *)
NapiAccept(p) ==
    /\ pc[p] = "inCall"
    /\ tsfn = "open" /\ ~QueueFull
    /\ queue' = Append(queue, [from |-> p, seq |-> calls[p],
                               variant |-> req[p].variant, ok |-> req[p].ok])
    /\ IF req[p].variant # "async" THEN CallReturns(p, "ok")
       ELSE IF req[p].ok
            THEN pc' = [pc EXCEPT ![p] = "awaiting"] /\ UNCHANGED <<req, result>>
            ELSE CallReturns(p, "canceled")
    /\ UNCHANGED <<tsfn, threadCount, handleVars, calls, jsVars, dropStatus>>

(* A full queue refuses a non-blocking call (a blocking one waits, with    *)
(* the read lock held).  The payload stays leaked.                         *)
NapiRefuse(p) ==
    /\ pc[p] = "inCall"
    /\ tsfn = "open" /\ QueueFull
    /\ req[p].mode = "nonblocking"
    /\ CallReturns(p, "queue_full")
    /\ UNCHANGED <<napiVars, handleVars, calls, jsVars, dropStatus>>

(* Mutant: a closing function queues the payload it answers Closing for.   *)
NapiClosing_Queues(p) ==
    /\ pc[p] = "inCall" /\ tsfn # "open"
    /\ queue' = Append(queue, [from |-> p, seq |-> calls[p],
                               variant |-> req[p].variant, ok |-> req[p].ok])
    /\ CallReturns(p, "closing")
    /\ UNCHANGED <<tsfn, threadCount, handleVars, calls, jsVars, dropStatus>>

(* A closing function turns the call away and takes the caller's thread    *)
(* off the count.  The payload stays leaked.                               *)
NapiClosing(p) ==
    /\ pc[p] = "inCall"
    /\ tsfn # "open"
    /\ threadCount' = IF threadCount > 0 THEN threadCount - 1 ELSE 0
    /\ CallReturns(p, IF threadCount > 0 THEN "closing" ELSE "invalid_arg")
    /\ UNCHANGED <<tsfn, queue, handleVars, calls, jsVars, dropStatus>>

(* The future of call_async is dropped before its answer came: sending to  *)
(* it later fails, which the code ignores.                                 *)
DropFuture(p) ==
    /\ pc[p] = "awaiting"
    /\ CallReturns(p, "none")
    /\ UNCHANGED <<napiVars, handleVars, calls, jsVars, dropStatus>>

-----------------------------------------------------------------------------
(* abort and Drop                                                          *)

(* abort takes the function itself, which nobody else may then have.       *)
AbortBegin(p) ==
    /\ p \in Aborters /\ CanStart(p)
    /\ owners = {p}
    /\ pc' = [pc EXCEPT ![p] = "wantWrite"]
    /\ UNCHANGED <<napiVars, handleVars, req, calls, result, jsVars, dropStatus>>

(* Mutant: abort() does not set the flag.                                  *)
AbortLocked_FlagUnset(p) ==
    /\ pc[p] = "wantWrite" /\ Readers = {}
    /\ IF ~aborted /\ threadCount > 0
          THEN /\ threadCount' = threadCount - 1
               /\ tsfn' = IF tsfn = "open" THEN "closing" ELSE tsfn
          ELSE UNCHANGED <<threadCount, tsfn>>
    /\ pc' = [pc EXCEPT ![p] = "dropSelf"]
    /\ UNCHANGED <<queue, aborted, owners, req, calls, result, jsVars, dropStatus>>

(* with_write_aborted: the raw function is released in abort mode unless   *)
(* that was done before; a release that fails leaves the flag alone.       *)
AbortLocked(p) ==
    /\ pc[p] = "wantWrite" /\ Readers = {}
    /\ IF ~aborted /\ threadCount > 0
          THEN /\ threadCount' = threadCount - 1
               /\ tsfn' = IF tsfn = "open" THEN "closing" ELSE tsfn
               /\ aborted' = TRUE
          ELSE UNCHANGED <<threadCount, tsfn, aborted>>
    /\ pc' = [pc EXCEPT ![p] = "dropSelf"]
    /\ UNCHANGED <<queue, owners, req, calls, result, jsVars, dropStatus>>

(* One that shares the function drops its part, or abort, which took       *)
(* `self`, the whole.  The drop of the last part runs Handle::drop.        *)
DropClone(p) ==
    /\ CanStart(p) \/ pc[p] = "dropSelf"
    /\ owners' = owners \ {p}
    /\ pc' = [pc EXCEPT ![p] = IF LastStrongRef(p) THEN "releasing" ELSE "gone"]
    /\ UNCHANGED <<napiVars, aborted, req, calls, result, jsVars, dropStatus>>

(* Mutant: Handle::drop releases an aborted function again.                *)
DropHandle_Aborted(p) ==
    /\ pc[p] = "releasing"
    /\ pc' = [pc EXCEPT ![p] = "gone"]
    /\ threadCount' = threadCount - 1
    /\ UNCHANGED <<tsfn, queue, handleVars, req, calls, result, jsVars, dropStatus>>

(* Mutant: Handle::drop forgets the release.                               *)
DropHandle_NoRelease(p) ==
    /\ pc[p] = "releasing"
    /\ pc' = [pc EXCEPT ![p] = "gone"]
    /\ UNCHANGED <<napiVars, handleVars, req, calls, result, jsVars, dropStatus>>

(* Handle::drop: release the raw function unless it was aborted, and       *)
(* assert that the release succeeded.  "freed" is a release that reaches   *)
(* a raw function already deleted.                                         *)
DropHandle(p) ==
    /\ pc[p] = "releasing"
    /\ pc' = [pc EXCEPT ![p] = "gone"]
    /\ IF aborted
          THEN dropStatus' = "aborted" /\ UNCHANGED threadCount
          ELSE IF tsfn # "finalized" /\ threadCount > 0
               THEN dropStatus' = "ok" /\ threadCount' = threadCount - 1
               ELSE /\ dropStatus' = IF tsfn = "finalized" THEN "freed"
                                                           ELSE "invalid_arg"
                    /\ UNCHANGED threadCount
    /\ UNCHANGED <<tsfn, queue, handleVars, req, calls, result, jsVars>>

-----------------------------------------------------------------------------
(* The JS thread: call_js_cb and thread_finalize_cb                        *)

Id(m) == <<m.from, m.seq>>

(* call_js_cb took the branch that calls the JS function with values: the  *)
(* payload was no Err and the boxed callback R made the arguments.         *)
Called(m, argsOk) == m.ok /\ argsOk

(* What call_js_cb reports as an uncaught exception: an error nobody takes *)
(* (no CalleeHandled), a throw with no callback to pass it to, or an Err   *)
(* returned by that callback (for call_async, the error it cannot send).   *)
Uncaught(m, argsOk, threw, convOk, cbOk) ==
    \/ ~Called(m, argsOk) /\ (CalleeHandled => threw)
    \/ Called(m, argsOk) /\ m.variant = "direct" /\ threw
    \/ Called(m, argsOk) /\ m.variant = "callback" /\ ~cbOk
    \/ /\ Called(m, argsOk) /\ m.variant = "async"
       /\ ~CalleeHandled /\ (threw \/ ~convOk)

(* What the channel of call_async yields.                                  *)
Settlement(m, argsOk, threw, convOk) ==
    IF Called(m, argsOk) /\ ~threw /\ convOk THEN "value"
    ELSE IF Called(m, argsOk) /\ CalleeHandled THEN "error"
    ELSE "canceled"

(* m is the call its thread is still awaiting *)
Awaited(m) == /\ m.variant = "async" /\ pc[m.from] = "awaiting"
              /\ calls[m.from] = m.seq

(* Mutant: a throwing JS function returns before the payload's callback.   *)
Deliver_ThrowSkipsCallback ==
    /\ JsIdle /\ ~envGone
    /\ tsfn = "open" /\ queue # <<>>
    /\ queue' = Tail(queue)
    /\ delivered' = Append(delivered, Head(queue))
    /\ uncaught' = uncaught \cup {Id(Head(queue))}
    /\ UNCHANGED <<tsfn, threadCount, handleVars, procVars, js, contextFreed,
                   envGone, dropStatus>>

(* Mutant: call_js_cb takes the write lock.                                *)
Deliver_UnderWriteLock ==
    /\ JsIdle /\ ~envGone /\ Readers = {}
    /\ tsfn = "open" /\ queue # <<>>
    /\ queue' = Tail(queue)
    /\ delivered' = Append(delivered, Head(queue))
    /\ IF Awaited(Head(queue)) THEN CallReturns(Head(queue).from, "value")
                               ELSE UNCHANGED <<pc, req, result>>
    /\ UNCHANGED <<tsfn, threadCount, handleVars, calls, js, contextFreed,
                   envGone, uncaught, dropStatus>>

(* The loop pops one payload and runs call_js_cb: R, the JS function, the  *)
(* conversion of what it returned, and the payload's own callback.         *)
Deliver ==
    /\ JsIdle /\ ~envGone
    /\ tsfn = "open" /\ queue # <<>>
    /\ queue' = Tail(queue)
    /\ LET m == Head(queue) IN
       \E argsOk, threw, convOk, cbOk \in BOOLEAN :
          /\ delivered' = Append(delivered, m)
          /\ uncaught' = IF Uncaught(m, argsOk, threw, convOk, cbOk)
                            THEN uncaught \cup {Id(m)} ELSE uncaught
          /\ IF Awaited(m)
                THEN CallReturns(m.from, Settlement(m, argsOk, threw, convOk))
                ELSE UNCHANGED <<pc, req, result>>
    /\ UNCHANGED <<tsfn, threadCount, handleVars, calls, js, contextFreed,
                   envGone, dropStatus>>

(* The loop finds the queue empty and no thread left: it closes the raw    *)
(* function.                                                               *)
CloseUnused ==
    /\ JsIdle
    /\ tsfn = "open" /\ queue = <<>> /\ threadCount = 0
    /\ tsfn' = "closing"
    /\ UNCHANGED <<threadCount, queue, handleVars, procVars, jsVars, dropStatus>>

(* The environment is torn down: every thread-safe function starts closing *)
(* and blocked callers wake up, but nobody has set `aborted` yet.          *)
EnvTeardown ==
    /\ JsIdle /\ ~envGone /\ tsfn # "none"
    /\ envGone' = TRUE
    /\ tsfn' = IF tsfn = "open" THEN "closing" ELSE tsfn
    /\ UNCHANGED <<threadCount, queue, handleVars, procVars, js, contextFreed,
                   delivered, uncaught, dropStatus>>

(* thread_finalize_cb: while somebody has the function, wait for the write *)
(* lock; without one the flag is left alone.  Then drop the boxed callback. *)
FinalizeBegin ==
    /\ JsIdle /\ tsfn = "closing"
    /\ IF owners # {}
          THEN js' = "finalizing" /\ UNCHANGED contextFreed
          ELSE js' = "draining" /\ contextFreed' = TRUE
    /\ UNCHANGED <<napiVars, handleVars, procVars, envGone, delivered, uncaught,
                   dropStatus>>

(* Mutant: the finalizer sets the flag without waiting for the readers.    *)
FinalizeLocked_Unlocked ==
    /\ js = "finalizing"
    /\ aborted' = TRUE
    /\ contextFreed' = TRUE
    /\ js' = "draining"
    /\ UNCHANGED <<napiVars, owners, procVars, envGone, delivered, uncaught,
                   dropStatus>>

FinalizeLocked ==
    /\ js = "finalizing" /\ Readers = {}
    /\ aborted' = TRUE
    /\ contextFreed' = TRUE
    /\ js' = "draining"
    /\ UNCHANGED <<napiVars, owners, procVars, envGone, delivered, uncaught,
                   dropStatus>>

(* The raw function hands what is left to call_js_cb with a null           *)
(* environment, which returns at once (payload and sender leak), and is    *)
(* deleted.                                                                *)
EmptyQueueAndDelete ==
    /\ js = "draining"
    /\ queue' = <<>>
    /\ tsfn' = "finalized"
    /\ js' = "loop"
    /\ UNCHANGED <<threadCount, handleVars, procVars, contextFreed, envGone,
                   delivered, uncaught, dropStatus>>

-----------------------------------------------------------------------------
Finish(p) ==
    \/ CallEnter(p) \/ NapiAccept(p) \/ NapiRefuse(p) \/ NapiClosing(p)
    \/ AbortLocked(p) \/ DropHandle(p)
    \/ pc[p] = "dropSelf" /\ DropClone(p)

Start(p) ==
    \/ \E q \in Threads : Clone(p, q)
    \/ CallBegin(p) \/ DropFuture(p) \/ AbortBegin(p)
    \/ pc[p] = "idle" /\ DropClone(p)

JsLoop ==
    Deliver \/ CloseUnused \/ FinalizeBegin \/ FinalizeLocked
    \/ EmptyQueueAndDelete

(* Everything has been released: nothing is left to do.                    *)
Done ==
    /\ \A p \in Procs : pc[p] \in {"idle", "awaiting", "gone"}
    /\ tsfn = "finalized" \/ dropStatus = "null"
    /\ UNCHANGED vars

Next ==
    \/ Create \/ CreateFailed
    \/ \E p \in Procs : Start(p) \/ Finish(p)
    \/ JsLoop
    \/ EnvTeardown
    \/ Done

(* A thread inside an operation keeps running, and so does the event loop; *)
(* nobody has to begin an operation, drop a part or tear anything down.    *)
Fairness == (\A p \in Procs : WF_vars(Finish(p))) /\ WF_vars(JsLoop)

Spec == Init /\ [][Next]_vars
FairSpec == Spec /\ Fairness

-----------------------------------------------------------------------------
TypeOK ==
    /\ tsfn \in {"none", "open", "closing", "finalized"}
    /\ threadCount \in 0..1
    /\ queue \in Seq(Payloads)
    /\ aborted \in BOOLEAN
    /\ owners \subseteq Procs
    /\ pc \in [Procs -> Locations]
    /\ req \in [Procs -> Requests]
    /\ calls \in [Procs -> 0..MaxCalls]
    /\ result \in [Procs -> Results]
    /\ js \in {"loop", "finalizing", "draining"}
    /\ contextFreed \in BOOLEAN
    /\ envGone \in BOOLEAN
    /\ delivered \in Seq(Payloads)
    /\ uncaught \subseteq Procs \X (1..MaxCalls)
    /\ dropStatus \in {"none", "null", "aborted", "ok", "invalid_arg", "freed"}

(* No call is inside the raw function when that function is deleted: the   *)
(* finalizer takes the write lock, and a call keeps the function borrowed  *)
(* (with_read_aborted in every call, thread_finalize_cb).                  *)
NoCallAfterFinalize == tsfn = "finalized" => Readers = {}

(* A handle that says `aborted` never lets another payload through: the    *)
(* raw function was told to close before the flag was set.                 *)
AbortedIsClosed == aborted => tsfn # "open"

(* The assertion in Handle::drop: the release succeeds.                    *)
ReleaseSucceeds == dropStatus \notin {"invalid_arg", "freed"}

(* That assertion holds as long as the environment lives: the handle owns  *)
(* the one thread of the raw function until it is dropped or aborted.      *)
ReleaseSucceedsInLiveEnv == ~envGone => ReleaseSucceeds

(* The status of a call is the truth about its payload: a refused payload  *)
(* never reaches JS, an accepted one is queued or delivered, and is lost   *)
(* only with the raw function.  Without CalleeHandled call_async can only  *)
(* say that its channel was dropped: the error itself is raised as an      *)
(* uncaught exception.                                                     *)
StatusIsHonest ==
    \A p \in Procs :
        LET call == <<p, calls[p]>>
            passed == \E m \in Range(queue) \cup Range(delivered) : Id(m) = call
        IN /\ result[p] \in {"closing", "queue_full", "invalid_arg"} => ~passed
           /\ result[p] = "ok" /\ tsfn # "finalized" => passed
           /\ result[p] = "canceled" /\ ~CalleeHandled => call \in uncaught

(* A future of call_async that still waits has its payload, and so its     *)
(* sender, in the queue, unless the function was finalized before it was   *)
(* delivered.                                                              *)
AsyncNotStranded ==
    \A p \in Procs : pc[p] = "awaiting" =>
        \/ \E m \in Range(queue) : Awaited(m) /\ m.from = p
        \/ tsfn = "finalized"

(* Whoever called is told what became of the call.                         *)
CallersAreTold == StatusIsHonest /\ AsyncNotStranded

(* The invariant that carries the proofs (ThreadsafeFunction_proof): the   *)
(* handle cannot go away under a process that uses it, the write lock      *)
(* keeps calls and the aborted flag apart, and in a live environment the   *)
(* handle owns the one thread of the raw function until its release.       *)
Using(p) == pc[p] \in {"wantRead", "inCall", "awaiting", "wantWrite", "dropSelf"}

Held == owners # {} \/ \E p \in Procs : pc[p] = "releasing"

HandleInv ==
    /\ tsfn = "none" => ~Held /\ ~aborted /\ js = "loop" /\ ~envGone
    /\ AbortedIsClosed
    /\ \A p \in Procs : Using(p) => p \in owners
    /\ \A p \in Procs : pc[p] = "inCall" => ~aborted
    /\ \A p \in Procs : pc[p] \in {"wantRead", "inCall"} => calls[p] > 0
    /\ \A p \in Procs : pc[p] = "releasing" =>
           owners = {} /\ \A q \in Procs : pc[q] = "releasing" => q = p
    /\ js # "loop" => tsfn = "closing"
    /\ js = "draining" \/ tsfn = "finalized" => aborted \/ owners = {}
    /\ ~envGone /\ ~aborted /\ Held => tsfn = "open" /\ threadCount = 1

(* The two are inductive together: a payload is well typed because its     *)
(* caller has begun a call.                                                *)
IndInv == TypeOK /\ HandleInv

-----------------------------------------------------------------------------
(* Liveness                                                                *)

(* A call comes back, from its wait for the lock and from a full queue,    *)
(* whatever the finalizer and the other callers do.                        *)
CallsReturn ==
    \A p \in Procs : pc[p] \in {"wantRead", "inCall"}
                         ~> pc[p] \notin {"wantRead", "inCall"}

(* A future of call_async is settled unless the function closes.           *)
AsyncSettles ==
    \A p \in Procs : pc[p] = "awaiting" ~> (pc[p] # "awaiting" \/ tsfn # "open")

(* Once nobody has the function, the raw one and the boxed callback are    *)
(* freed, after what was queued has been delivered.                        *)
DroppedIsFreed == (tsfn = "open" /\ owners = {}) ~> (tsfn = "finalized" /\ contextFreed)

=============================================================================
