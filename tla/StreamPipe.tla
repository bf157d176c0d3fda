------------------------------ MODULE StreamPipe ------------------------------
(***************************************************************************)
(* A Rust stream read by Rust through JavaScript: StreamSource behind the  *)
(* ReadableStream "src", StreamReader on the same stream or, if piped, on  *)
(* "out", the readable end of an identity TransformStream through which    *)
(* pipeThrough pumps "src" (index.ets).  JavaScript cancels either stream  *)
(* at any time, and the environment may end.  Three threads meet: the      *)
(* runtime runs the futures of the source, the JS thread all callbacks,    *)
(* and any thread polls the reader.                                        *)
(***************************************************************************)
EXTENDS StreamSource, StreamReader, Functions

VARIABLES
    piped,    \* the reader reads "out"
    pump,     \* where pipeTo is, see PumpStates
    stopped,  \* history: the streams that JavaScript cancelled
    gone      \* the environment has ended

vars == <<js, srcVars, readerVars, piped, pump, stopped, gone>>

Streams == {"src", "out"}

(* "reading": about to call read(); "waiting": for its result; "failing":  *)
(* pipeTo has rejected; "closing": flush was called, close follows.        *)
PumpStates == {"none", "reading", "waiting", "closing", "failing", "ended"}

Target == IF piped THEN "out" ELSE "src"

Init ==
    /\ js = [s \in Streams |-> NewStream]
    /\ SrcInit /\ ReaderInit
    /\ piped \in BOOLEAN
    /\ pump = IF piped THEN "reading" ELSE "none"
    /\ stopped = {} /\ gone = FALSE

-----------------------------------------------------------------------------
(* pipeThrough and pipeTo, on the JS thread                                *)

PumpRead ==
    /\ pump = "reading"
    /\ Read("src")
    /\ pump' = "waiting"
    /\ UNCHANGED <<readerVars, piped, stopped, gone>>

(* The result of the read: a chunk is written to the transform, which      *)
(* enqueues it on "out"; that throws, and the write rejects, once "out" is *)
(* closed.                                                                 *)
PumpWrites(r) ==
    IF IsReadable(js["out"])
       THEN /\ pump' = "reading"
            /\ js' = [js EXCEPT !["src"].settled = Tail(@),
                                !["out"] = Enqueued(@, r.n)]
       ELSE /\ pump' = "failing"
            /\ js' = [js EXCEPT !["src"].settled = Tail(@)]

PumpResult ==
    /\ pump = "waiting" /\ js["src"].settled # <<>>
    /\ LET r == Head(js["src"].settled)
       IN \/ r.kind = "chunk" /\ PumpWrites(r)
          \/ /\ r.kind # "chunk"
             /\ pump' = IF r.kind = "done" THEN "closing" ELSE "failing"
             /\ js' = [js EXCEPT !["src"].settled = Tail(@)]
    /\ UNCHANGED <<srcVars, readerVars, piped, stopped, gone>>

(* The close of the transform closes "out"; the catch of pipeThrough       *)
(* cancels it.                                                             *)
PumpEnds ==
    /\ pump \in {"closing", "failing"}
    /\ js' = [js EXCEPT !["out"] = IF pump = "closing" THEN Closed(@)
                                                       ELSE Cancelled(@)]
    /\ pump' = "ended"
    /\ UNCHANGED <<srcVars, readerVars, piped, stopped, gone>>

-----------------------------------------------------------------------------
(* The reader                                                              *)

Poll ==
    /\ PollBegin(~gone) \/ PollEnd
    /\ UNCHANGED <<js, srcVars, piped, pump, stopped, gone>>

(* call_js_cb calls read() and puts the callbacks on its promise.          *)
ReadCalled ==
    /\ calls > 0
    /\ calls' = calls - 1
    /\ Read(Target)
    /\ UNCHANGED <<rpc, slot, done, wakers, woken, spurious, delivered, outcome,
                   overwritten, piped, pump, stopped, gone>>

ResultArrives ==
    /\ js[Target].settled # <<>>
    /\ Store(Head(js[Target].settled))
    /\ js' = [js EXCEPT ![Target].settled = Tail(@)]
    /\ UNCHANGED <<srcVars, piped, pump, stopped, gone>>

WakeReader ==
    /\ Wake
    /\ UNCHANGED <<js, srcVars, piped, pump, stopped, gone>>

-----------------------------------------------------------------------------
(* The source, and what JavaScript does on its own                         *)

(* The future of a pull, on the runtime                                    *)
Future ==
    /\ PullLocks \/ Answer
    /\ UNCHANGED <<readerVars, piped, pump, stopped, gone>>

PullPromise ==
    /\ Resolve \/ PullReacts
    /\ UNCHANGED <<readerVars, piped, pump, stopped, gone>>

Cancel(s) ==
    /\ s \notin stopped
    /\ stopped' = stopped \cup {s}
    /\ \/ s = "src" /\ CancelSource
       \/ /\ s = "out" /\ piped
          /\ js' = [js EXCEPT !["out"] = Cancelled(@)]
          /\ UNCHANGED srcVars
    /\ UNCHANGED <<readerVars, piped, pump, gone>>

EnvEnds ==
    /\ gone' = TRUE
    /\ UNCHANGED <<js, srcVars, readerVars, piped, pump, stopped>>

-----------------------------------------------------------------------------
(* The JS thread, as long as there is one.                                 *)
Loop ==
    /\ ~gone
    /\ \/ PumpRead \/ PumpResult \/ PumpEnds
       \/ ReadCalled \/ ResultArrives \/ WakeReader
       \/ PullPromise

(* The reader has ended, or waits in an environment that has.              *)
Done ==
    /\ rpc = "ended" \/ gone
    /\ UNCHANGED vars

Next ==
    \/ Loop
    \/ Future
    \/ Poll
    \/ ~gone /\ \E s \in Streams : Cancel(s)
    \/ ~gone /\ EnvEnds
    \/ Done

(* The loop runs its callbacks, the runtime its futures, and a consumer    *)
(* reads on when it has an item or is woken.                               *)
PollWanted == (rpc # "parked" \/ woken) /\ Poll

Fairness == WF_vars(Loop) /\ WF_vars(Future) /\ WF_vars(PollWanted)

Spec == Init /\ [][Next]_vars /\ Fairness

-----------------------------------------------------------------------------
TypeOK ==
    /\ \A s \in Streams :
          /\ js[s].queue \in Seq(1..MaxChunks)
          /\ js[s].requests \in Nat
          /\ \A i \in DOMAIN js[s].settled :
                js[s].settled[i] \in {EndResult, ErrorResult}
                                        \cup {Chunk(n) : n \in 1..MaxChunks}
          /\ js[s].closeRequested \in BOOLEAN /\ js[s].errored \in BOOLEAN
          /\ js[s].pulling \in BOOLEAN
    /\ js["src"].pulling = (pull # "none")
    /\ pull \in PullStates /\ cancelled \in BOOLEAN /\ inner \in BOOLEAN
    /\ produced \in 0..MaxChunks
    /\ rpc \in ReaderStates /\ Len(slot) <= 1 /\ done \in BOOLEAN
    /\ calls \in Nat /\ wakers \in Nat /\ woken \in BOOLEAN
    /\ spurious \in 0..MaxSpurious
    /\ pump \in PumpStates /\ stopped \subseteq Streams

ChunksOf(results) == {r.n : r \in {x \in Range(results) : x.kind = "chunk"}}

(* The chunks of a sequence of results, and those of a queue, in order.    *)
ChunksIncrease(results) ==
    \A i, j \in DOMAIN results :
        i < j /\ results[i].kind = "chunk" /\ results[j].kind = "chunk"
           => results[i].n < results[j].n
Increasing(queue) == \A i, j \in DOMAIN queue : i < j => queue[i] < queue[j]

(* Where the chunks are, from the consumer back to the source.             *)
Places ==
    <<Range(delivered), ChunksOf(slot),
      ChunksOf(js["out"].settled), Range(js["out"].queue),
      ChunksOf(js["src"].settled), Range(js["src"].queue), ChunksOf(<<answer>>)>>

(* "Re-check cancelled flag ... to prevent enqueueing": a resolver never   *)
(* calls enqueue on a stream that throws.                                  *)
NoLateEnqueue == ~threw

(* Chunks stay in the order the Rust stream yielded them, from the answer  *)
(* of a pull to the consumer, and none is in two places at once, whatever  *)
(* reads overlap.                                                          *)
ChunksInOrder ==
    /\ \A s, t \in DOMAIN Places : s < t =>
          \A m \in Places[s], n \in Places[t] : m < n
    /\ Increasing(delivered)
    /\ \A s \in Streams :
          Increasing(js[s].queue) /\ ChunksIncrease(js[s].settled)

(* When the reader reports the end of the stream, the Rust stream ended    *)
(* without an error and the consumer was given every item, but those that  *)
(* a later answer overwrote in the slot.  A cancelled stream, or a pipe    *)
(* whose source failed, ends early.                                        *)
EndIsComplete ==
    outcome = "end" /\ stopped = {} /\ ~(piped /\ failed) =>
        /\ ~failed /\ ~inner
        /\ 1..produced \subseteq Range(delivered) \cup overwritten

(* Polls that overlap lose chunks in the slot, but only to later ones: the *)
(* newest chunk that came to the reader is delivered or still in the slot, *)
(* unless the stream failed.                                               *)
NewestIsKept ==
    \/ overwritten = {} \/ failed
    \/ \E m \in Range(delivered) \cup ChunksOf(slot) :
          \A n \in overwritten : n < m

(* Every chunk comes to where it should, in order, and only while it may.  *)
ChunksArrive ==
    ChunksInOrder /\ NoLateEnqueue /\ EndIsComplete /\ NewestIsKept

(* "If we can't get the lock (pull is in progress), that's fine - pull     *)
(* will see the cancelled flag and handle cleanup": a cancelled source     *)
(* whose pull is over has let go of its Rust stream.                       *)
CancelFreesStream == cancelled /\ pull = "none" => ~inner

(* A consumer that reads on comes to the end of the stream, or to its      *)
(* error: no poll is left parked without a wake-up while the environment   *)
(* lives.                                                                  *)
ReaderEnds == <>(rpc = "ended" \/ gone)

=============================================================================
