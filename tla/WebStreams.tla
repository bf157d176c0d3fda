------------------------------ MODULE WebStreams ------------------------------
(***************************************************************************)
(* The ReadableStream that the streams package installs where the runtime  *)
(* has none (src/third_party/streams/package/index.ets).  A stream is a    *)
(* record and each method a function from stream to stream.  A stream has  *)
(* one reader, so that its pending reads are a number, and the results of  *)
(* the settled ones wait for the reader's callbacks in the order they were *)
(* settled.  Queuing strategies are left out: nothing waits for            *)
(* desiredSize.                                                            *)
(***************************************************************************)
EXTENDS Naturals, Sequences

Chunk(n) == [kind |-> "chunk", n |-> n]
EndResult == [kind |-> "done", n |-> 0]
ErrorResult == [kind |-> "error", n |-> 0]

NewStream ==
    [queue |-> <<>>, requests |-> 0, settled |-> <<>>,
     closeRequested |-> FALSE, errored |-> FALSE, pulling |-> FALSE]

Settle(st, r) == [st EXCEPT !.settled = Append(@, r)]

(* All pending reads are given the same result.                            *)
SettleAll(st, r) ==
    [st EXCEPT !.settled = @ \o [i \in 1..st.requests |-> r], !.requests = 0]

(* read(), without the pull it may start                                   *)
ReadFrom(st) ==
    CASE st.errored -> Settle(st, ErrorResult)
      [] ~st.errored /\ st.queue # <<>> ->
            Settle([st EXCEPT !.queue = Tail(@)], Chunk(Head(st.queue)))
      [] ~st.errored /\ st.queue = <<>> /\ st.closeRequested ->
            Settle(st, EndResult)
      [] OTHER -> [st EXCEPT !.requests = @ + 1]

(* What enqueue tests before it throws.                                    *)
IsReadable(st) == ~st.closeRequested /\ ~st.errored

(* enqueue(n) of a readable stream                                         *)
Enqueued(st, n) ==
    IF st.requests > 0 THEN Settle([st EXCEPT !.requests = @ - 1], Chunk(n))
                       ELSE [st EXCEPT !.queue = Append(@, n)]

(* closeReadable()                                                         *)
Closed(st) ==
    IF st.closeRequested
       THEN st ELSE SettleAll([st EXCEPT !.closeRequested = TRUE], EndResult)

(* errorReadable()                                                         *)
Errored(st) ==
    IF st.errored
       THEN st ELSE SettleAll([st EXCEPT !.errored = TRUE], ErrorResult)

(* cancel() and abort(), without the call of the source                    *)
Cancelled(st) ==
    IF st.closeRequested THEN st ELSE Closed([st EXCEPT !.queue = <<>>])

(* pullIfNeeded() calls the source.                                        *)
NeedsPull(st) == ~st.pulling /\ IsReadable(st)

=============================================================================
