--------------------------- MODULE PromiseFuture ---------------------------
(***************************************************************************)
(* A future of TokioFuture that awaits a JavaScript Promise                *)
(* (js_values/promise.rs over PromiseRaw::then and catch in                *)
(* js_values/promise_raw.rs).  from_napi_value puts a then callback on the *)
(* promise and a catch callback on what then returned.  They share the     *)
(* sender of a oneshot channel whose receiver the future polls.  Each      *)
(* callback is a Box that it takes itself when it runs, or that the        *)
(* finalizer of the promise it was chained to frees when it never did.     *)
(***************************************************************************)
EXTENDS TokioFuture

VARIABLES
    source,    \* the promise a job's future awaits, see SourceStates
    link,      \* what then and catch returned: "none", "pending", "fulfilled",
               \* "rejected" or "collected"
    box,       \* their callbacks: "none", "armed", "taken" or "freed"
    channel,   \* what the receiver gets: "empty", "ok", "err" or "canceled"
    drops      \* history: how often each callback was taken or freed

awaitVars == <<source, link, box, channel, drops>>
allVars == <<vars, awaitVars>>

(* "none": it awaits none; "lost": it is pending and JavaScript has        *)
(* dropped it.                                                             *)
SourceStates == {"none", "pending", "fulfilled", "rejected", "lost"}

Callbacks == {"then", "catch"}
Each(x) == [j \in Jobs |-> [c \in Callbacks |-> x]]

AwaitInit ==
    /\ Init
    /\ source = [j \in Jobs |-> "none"]
    /\ link = Each("none") /\ box = Each("none") /\ drops = Each(0)
    /\ channel = [j \in Jobs |-> "empty"]

(* The callback of c is gone, and the sender with the last of the two.     *)
Drop(j, c, how, sent) ==
    /\ box' = [box EXCEPT ![j][c] = how]
    /\ drops' = [drops EXCEPT ![j][c] = @ + 1]
    /\ channel' = [channel EXCEPT ![j] =
                      IF @ # "empty" THEN @
                      ELSE IF sent # "none" THEN sent
                      ELSE IF \A d \in Callbacks \ {c} : box[j][d] # "armed"
                      THEN "canceled" ELSE @]

Keep == UNCHANGED <<box, drops, channel>>

-----------------------------------------------------------------------------
(* The argument is converted, and the future that gets it is started.      *)
StartAwaiting(j) ==
    /\ Start(j)
    /\ source' = [source EXCEPT ![j] = "pending"]
    /\ link' = [link EXCEPT ![j] = [c \in Callbacks |-> "pending"]]
    /\ box' = [box EXCEPT ![j] = [c \in Callbacks |-> "armed"]]
    /\ UNCHANGED <<channel, drops>>

(* JavaScript settles its promise, or drops it.                            *)
SourceMoves(j) ==
    /\ JsFree /\ ~envGone /\ source[j] = "pending"
    /\ \E s \in {"fulfilled", "rejected", "lost"} :
          source' = [source EXCEPT ![j] = s]
    /\ UNCHANGED <<vars, link, box, channel, drops>>

(* The reaction of the promise: the then callback, which throws before it  *)
(* takes its box when the value does not convert; a rejection is passed on.*)
ThenReacts(j) ==
    /\ JsFree /\ ~envGone
    /\ source[j] \in {"fulfilled", "rejected"} /\ link[j]["then"] = "pending"
    /\ \/ /\ source[j] = "fulfilled"
          /\ link' = [link EXCEPT ![j]["then"] = "fulfilled"]
          /\ Drop(j, "then", "taken", "ok")
       \/ link' = [link EXCEPT ![j]["then"] = "rejected"] /\ Keep
    /\ UNCHANGED <<vars, source>>

(* Mutant: catch is put on the promise itself and not on what then         *)
(* returned.                                                               *)
CatchReacts_OnSource(j) ==
    /\ JsFree /\ ~envGone
    /\ link[j]["then"] \in {"fulfilled", "rejected"}
    /\ link[j]["catch"] = "pending"
    /\ link' = [link EXCEPT ![j]["catch"] = "fulfilled"]
    /\ IF source[j] = "rejected" THEN Drop(j, "catch", "taken", "err") ELSE Keep
    /\ UNCHANGED <<vars, source>>

(* The reaction of the promise that then returned                          *)
CatchReacts(j) ==
    /\ JsFree /\ ~envGone
    /\ link[j]["then"] \in {"fulfilled", "rejected"}
    /\ link[j]["catch"] = "pending"
    /\ link' = [link EXCEPT ![j]["catch"] = "fulfilled"]
    /\ IF link[j]["then"] = "rejected" THEN Drop(j, "catch", "taken", "err")
                                       ELSE Keep
    /\ UNCHANGED <<vars, source>>

(* A promise that has a reaction to come is kept by the one before it.     *)
Unreachable(j, c) ==
    \/ envGone \/ source[j] = "lost"
    \/ link[j]["catch"] = "fulfilled" /\ c = "catch"
    \/ link[j]["catch"] \in {"fulfilled", "collected"} /\ c = "then"

(* Mutant: the finalizer does not look at the executed flag.               *)
Collect_Always(j, c) ==
    /\ JsFree
    /\ link[j][c] \notin {"none", "collected"} /\ Unreachable(j, c)
    /\ link' = [link EXCEPT ![j][c] = "collected"]
    /\ Drop(j, c, "freed", "none")
    /\ UNCHANGED <<vars, source>>

(* promise_callback_finalizer frees the callback that never ran.           *)
Collect(j, c) ==
    /\ JsFree
    /\ link[j][c] \notin {"none", "collected"} /\ Unreachable(j, c)
    /\ link' = [link EXCEPT ![j][c] = "collected"]
    /\ IF box[j][c] = "armed" THEN Drop(j, c, "freed", "none") ELSE Keep
    /\ UNCHANGED <<vars, source>>

-----------------------------------------------------------------------------
(* The receiver is ready, or there is none.                                *)
Answered(j) == source[j] = "none" \/ channel[j] # "empty"

React(j) == ThenReacts(j) \/ CatchReacts(j)

JobStep(j) ==
    \/ Start(j)
    \/ Answered(j) /\ FutureEnds(j)
    \/ FuturePanics(j) \/ FutureDropped(j)
    \/ Watch(j) \/ OnLoop(j)

AwaitNext ==
    \/ /\ \/ Shutdown \/ StartRuntime \/ EnvTeardown \/ Done
          \/ \E j \in Jobs : JobStep(j)
       /\ UNCHANGED awaitVars
    \/ \E j \in Jobs :
          \/ StartAwaiting(j) \/ SourceMoves(j) \/ React(j)
          \/ \E c \in Callbacks : Collect(j, c)

(* A future that awaits nothing more ends, or panics; the loop runs the    *)
(* reactions of settled promises.  Nothing makes JavaScript settle one, or *)
(* the collector run.                                                      *)
AwaitFairness ==
    \A j \in Jobs :
        /\ WF_allVars(Answered(j) /\ OnRuntime(j) /\ UNCHANGED awaitVars)
        /\ WF_allVars(Watch(j) /\ UNCHANGED awaitVars)
        /\ WF_allVars(OnLoop(j) /\ UNCHANGED awaitVars)
        /\ WF_allVars(React(j))

AwaitSpec == AwaitInit /\ [][AwaitNext]_allVars /\ AwaitFairness

-----------------------------------------------------------------------------
AwaitTypeOK ==
    /\ TypeOK
    /\ source \in [Jobs -> SourceStates]
    /\ link \in [Jobs -> [Callbacks ->
                   {"none", "pending", "fulfilled", "rejected", "collected"}]]
    /\ box \in [Jobs -> [Callbacks -> {"none", "armed", "taken", "freed"}]]
    /\ channel \in [Jobs -> {"empty", "ok", "err", "canceled"}]

(* The callback of then, and of catch, is dropped once: by itself when it  *)
(* runs, by the finalizer of the promise it belongs to when it never did,  *)
(* and a future is told that nobody answers only when both are gone.       *)
CallbacksDroppedOnce ==
    \A j \in Jobs :
        /\ \A c \in Callbacks :
              /\ drops[j][c] <= 1
              /\ link[j][c] = "collected" => drops[j][c] = 1
        /\ channel[j] = "canceled" =>
              source[j] \notin {"fulfilled", "rejected"} \/ envGone

(* A deferred answers, and a callback of a promise is dropped, once.       *)
AnswersAreSingle == AnsweredOnce /\ CallbacksDroppedOnce

(* A future that ends, or panics, settles its promise, and one that awaits *)
(* a promise of JavaScript does when that is settled, whether its value    *)
(* converts or not; unless its runtime was shut down or the environment    *)
(* ended.                                                                  *)
FutureSettles ==
    \A j \in Jobs : promise[j] = "pending" ~>
        \/ promise[j] # "pending" \/ j \in doomed \/ ~rt \/ envGone
        \/ source[j] \in {"pending", "lost"}

=============================================================================
