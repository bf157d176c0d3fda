----------------------------- MODULE StreamSource -----------------------------
(***************************************************************************)
(* The source behind ReadableStream::new and ::create_with_stream_bytes    *)
(* (js_values/stream/read.rs): a Rust stream in a Mutex with a cancelled   *)
(* flag.  pull spawns a future that holds the Mutex while it awaits the    *)
(* next item; its resolver, on the JS thread, looks at the flag again and  *)
(* enqueues, or closes.  cancel sets the flag and takes the inner stream   *)
(* if the Mutex is free.  stream "src" is the ReadableStream made of it.   *)
(***************************************************************************)
EXTENDS WebStreams

CONSTANT
    MaxChunks   \* the inner stream has at most that many items

ASSUME ChunksAssumption == MaxChunks \in Nat

VARIABLES
    js,         \* the ReadableStreams, a function from their names
    cancelled,  \* StreamState.cancelled
    inner,      \* StreamState.stream still holds the Rust stream
    pull,       \* the pull in flight, see PullStates
    answer,     \* what its future resolved to
    produced,   \* history: the items that came out of the inner stream
    failed,     \* history: the inner stream ended in an error
    threw       \* history: a resolver called enqueue and it threw

srcVars == <<cancelled, inner, pull, answer, produced, failed, threw>>

(* "spawned": the future waits for the Mutex; "awaiting": it holds it;     *)
(* "answered": the answer is on its way to the JS thread; "fulfilled" and  *)
(* "rejected": the reactions of the promise are to run.                    *)
PullStates ==
    {"none", "spawned", "awaiting", "answered", "fulfilled", "rejected"}

SrcInit ==
    /\ cancelled = FALSE /\ inner = TRUE
    /\ pull = "none" /\ answer = EndResult
    /\ produced = 0 /\ failed = FALSE /\ threw = FALSE

-----------------------------------------------------------------------------
(* pullIfNeeded: pull_callback_impl spawns a future, or returns undefined. *)
PullIfNeeded(st) ==
    IF NeedsPull(st) /\ ~cancelled
       THEN /\ pull' = "spawned"
            /\ js' = [js EXCEPT !["src"] = [st EXCEPT !.pulling = TRUE]]
       ELSE /\ js' = [js EXCEPT !["src"] = st]
            /\ UNCHANGED pull

(* read() of stream s; only "src" has a source with a pull.                *)
Read(s) ==
    /\ IF s = "src"
          THEN PullIfNeeded(ReadFrom(js[s]))
          ELSE /\ js' = [js EXCEPT ![s] = ReadFrom(@)]
               /\ UNCHANGED pull
    /\ UNCHANGED <<cancelled, inner, answer, produced, failed, threw>>

(* The future gets the Mutex.  A stream that was taken has no next item.   *)
PullLocks ==
    /\ pull = "spawned"
    /\ IF inner THEN pull' = "awaiting" /\ UNCHANGED answer
                ELSE pull' = "answered" /\ answer' = EndResult
    /\ UNCHANGED <<js, cancelled, inner, produced, failed, threw>>

(* next().await returns, and the Mutex is free again.                      *)
Answer ==
    /\ pull = "awaiting"
    /\ pull' = "answered"
    /\ \/ /\ produced < MaxChunks
          /\ produced' = produced + 1
          /\ answer' = Chunk(produced + 1)
          /\ UNCHANGED failed
       \/ answer' = EndResult /\ UNCHANGED <<produced, failed>>
       \/ answer' = ErrorResult /\ failed' = TRUE /\ UNCHANGED produced
    /\ UNCHANGED <<js, cancelled, inner, threw>>

(* Mutant: the flag is not looked at again.                                *)
Resolve_Unchecked ==
    /\ pull = "answered"
    /\ CASE answer.kind = "error" ->
              pull' = "rejected" /\ UNCHANGED <<js, inner, threw>>
         [] answer.kind = "chunk" ->
              IF IsReadable(js["src"])
                 THEN /\ js' = [js EXCEPT !["src"] = Enqueued(@, answer.n)]
                      /\ pull' = "fulfilled"
                      /\ UNCHANGED <<inner, threw>>
                 ELSE /\ threw' = TRUE /\ pull' = "rejected"
                      /\ UNCHANGED <<js, inner>>
         [] OTHER ->
              /\ js' = [js EXCEPT !["src"] = Closed(@)]
              /\ inner' = FALSE /\ pull' = "fulfilled"
              /\ UNCHANGED threw
    /\ answer' = EndResult
    /\ UNCHANGED <<cancelled, produced, failed>>

(* The resolver, or the rejection of a failed future: enqueue throws on a  *)
(* stream that is not readable, close frees the inner stream early.        *)
Resolve ==
    /\ pull = "answered"
    /\ \/ /\ answer.kind = "error"
          /\ pull' = "rejected"
          /\ UNCHANGED <<js, inner, threw>>
       \/ /\ answer.kind # "error" /\ cancelled
          /\ pull' = "fulfilled"
          /\ UNCHANGED <<js, inner, threw>>
       \/ /\ answer.kind = "chunk" /\ ~cancelled
          /\ threw' = ~IsReadable(js["src"])
          /\ pull' = IF threw' THEN "rejected" ELSE "fulfilled"
          /\ js' = IF threw' THEN js
                             ELSE [js EXCEPT !["src"] = Enqueued(@, answer.n)]
          /\ UNCHANGED inner
       \/ /\ answer.kind = "done" /\ ~cancelled
          /\ js' = [js EXCEPT !["src"] = Closed(@)]
          /\ inner' = FALSE
          /\ pull' = "fulfilled"
          /\ UNCHANGED threw
    /\ answer' = EndResult
    /\ UNCHANGED <<cancelled, produced, failed>>

(* Mutant: finally clears pulling after the next pull began.               *)
PullReacts_ClearsLate ==
    /\ pull \in {"fulfilled", "rejected"}
    /\ LET st == IF pull = "rejected" THEN Errored(js["src"]) ELSE js["src"]
       IN /\ pull' = IF st.requests > 0 /\ st.queue = <<>> /\ IsReadable(st)
                         /\ ~cancelled THEN "spawned" ELSE "none"
          /\ js' = [js EXCEPT !["src"] = [st EXCEPT !.pulling = FALSE]]
    /\ UNCHANGED <<cancelled, inner, answer, produced, failed, threw>>

(* The catch and finally of pullIfNeeded, which pulls again for the reads  *)
(* that came in meanwhile.                                                 *)
PullReacts ==
    /\ pull \in {"fulfilled", "rejected"}
    /\ LET caught == IF pull = "rejected" THEN Errored(js["src"]) ELSE js["src"]
           st == [caught EXCEPT !.pulling = FALSE]
       IN IF st.requests > 0 /\ st.queue = <<>> /\ NeedsPull(st) /\ ~cancelled
             THEN /\ pull' = "spawned"
                  /\ js' = [js EXCEPT !["src"] = [st EXCEPT !.pulling = TRUE]]
             ELSE /\ pull' = "none"
                  /\ js' = [js EXCEPT !["src"] = st]
    /\ UNCHANGED <<cancelled, inner, answer, produced, failed, threw>>

(* cancel() or abort() of "src": cancel_callback follows the close, unless *)
(* the stream was closed before.                                           *)
CancelSource ==
    /\ js' = [js EXCEPT !["src"] = Cancelled(@)]
    /\ IF js["src"].closeRequested
          THEN UNCHANGED <<cancelled, inner>>
          ELSE /\ cancelled' = TRUE
               /\ inner' = (inner /\ pull = "awaiting")
    /\ UNCHANGED <<pull, answer, produced, failed, threw>>

=============================================================================
