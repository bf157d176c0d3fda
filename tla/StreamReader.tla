----------------------------- MODULE StreamReader -----------------------------
(***************************************************************************)
(* Reader, which Rust gets from ReadableStream::read                       *)
(* (js_values/stream/read.rs), polled as a futures Stream on any thread.   *)
(* A poll calls read() through a weak thread-safe function and looks into  *)
(* the one slot of the reader; the callbacks on the promise store the      *)
(* result in the slot and wake the task.  The consumer polls again when it *)
(* wants another item or was woken, now and then for no reason, and stops  *)
(* at the end of the stream or at the first error.                         *)
(***************************************************************************)
EXTENDS WebStreams

CONSTANT
    MaxSpurious   \* the consumer polls that often without being woken

ASSUME SpuriousAssumption == MaxSpurious \in Nat

VARIABLES
    rpc,        \* where the consumer is, see ReaderStates
    slot,       \* state.0 of the reader: empty, or one result
    done,       \* state.1: a result said done
    calls,      \* calls of read() in the queue of the thread-safe function
    wakers,     \* promises whose finally is to run
    woken,      \* the task was woken since its last poll began
    spurious,   \* polls without being woken so far
    delivered,  \* history: the chunks the consumer was given
    outcome,    \* history: how the stream ended for the consumer
    overwritten \* history: chunks overwritten in the slot

readerVars == <<rpc, slot, done, calls, wakers, woken, spurious, delivered,
                outcome, overwritten>>

(* "polling" is between the call and the look into the slot.               *)
ReaderStates == {"idle", "polling", "parked", "ended"}

ReaderInit ==
    /\ rpc = "idle"
    /\ slot = <<>> /\ done = FALSE
    /\ calls = 0 /\ wakers = 0 /\ woken = FALSE /\ spurious = 0
    /\ delivered = <<>> /\ outcome = "none" /\ overwritten = {}

(* poll_next is Ready with what was in the slot, or with the end.          *)
Ready(s) ==
    /\ slot' = <<>>
    /\ IF s = <<>>
          THEN /\ rpc' = "ended" /\ outcome' = "end"
               /\ UNCHANGED delivered
          ELSE IF Head(s).kind = "error"
          THEN /\ rpc' = "ended" /\ outcome' = "error"
               /\ UNCHANGED delivered
          ELSE /\ rpc' = "idle"
               /\ delivered' = Append(delivered, Head(s).n)
               /\ UNCHANGED outcome

(* A poll begins.  "open": the thread-safe function still takes calls.     *)
PollBegin(open) ==
    /\ \/ rpc = "idle" /\ UNCHANGED spurious
       \/ rpc = "parked" /\ woken /\ UNCHANGED spurious
       \/ /\ rpc = "parked" /\ ~woken /\ spurious < MaxSpurious
          /\ spurious' = spurious + 1
    /\ woken' = FALSE
    /\ IF done
          THEN Ready(slot) /\ UNCHANGED calls
          ELSE /\ rpc' = "polling"
               /\ calls' = IF open THEN calls + 1 ELSE calls
               /\ UNCHANGED <<slot, delivered, outcome>>
    /\ UNCHANGED <<done, wakers, overwritten>>

PollEnd ==
    /\ rpc = "polling"
    /\ IF slot = <<>>
          THEN /\ rpc' = "parked"
               /\ UNCHANGED <<slot, delivered, outcome>>
          ELSE Ready(slot)
    /\ UNCHANGED <<done, calls, wakers, woken, spurious, overwritten>>

(* Mutant: the end of the stream clears what was not yet collected.        *)
Store_Clears(r) ==
    /\ done' = (done \/ r.kind = "done")
    /\ slot' = IF r.kind = "done" THEN <<>> ELSE <<r>>
    /\ overwritten' = IF slot # <<>> /\ r.kind # "done"
                         THEN overwritten \cup {Head(slot).n} ELSE overwritten
    /\ wakers' = wakers + 1
    /\ UNCHANGED <<rpc, calls, woken, spurious, delivered, outcome>>

(* The then or the catch callback: the last result before the end stays in *)
(* the slot, any other overwrites what is there.                           *)
Store(r) ==
    /\ IF r.kind = "done"
          THEN done' = TRUE /\ UNCHANGED <<slot, overwritten>>
          ELSE /\ slot' = <<r>>
               /\ overwritten' = overwritten
                      \cup {s.n : s \in {slot[i] : i \in DOMAIN slot}}
               /\ UNCHANGED done
    /\ wakers' = wakers + 1
    /\ UNCHANGED <<rpc, calls, woken, spurious, delivered, outcome>>

(* Mutant: only a result with a value wakes the task.                      *)
Wake_NotAtEnd ==
    /\ wakers > 0
    /\ wakers' = wakers - 1
    /\ woken' = (woken \/ ~done)
    /\ UNCHANGED <<rpc, slot, done, calls, spurious, delivered, outcome,
                   overwritten>>

(* The finally callback.                                                   *)
Wake ==
    /\ wakers > 0
    /\ wakers' = wakers - 1
    /\ woken' = TRUE
    /\ UNCHANGED <<rpc, slot, done, calls, spurious, delivered, outcome,
                   overwritten>>

=============================================================================
