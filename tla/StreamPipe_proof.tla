-------------------------- MODULE StreamPipe_proof --------------------------
(***************************************************************************)
(* Chunks come to the consumer complete and in order, for any number of    *)
(* them.  The invariant sees a pipe as a line of seven places, Places of   *)
(* StreamPipe, where each chunk of a place is before those of the next     *)
(* ones: a step takes the first chunk of a place to the end of an earlier  *)
(* one with none in between, adds the newest at the last place, or loses   *)
(* some where Whole says that it may.  What the reader may conclude from   *)
(* the end of its stream is what Finished says of the streams behind it.   *)
(* Where NoLateEnqueue comes from is SourceInv: a stream is closed by its  *)
(* own last pull or by cancel, which sets the flag the resolver looks at.  *)
(* Being in line is also why what is overwritten in the slot is older than *)
(* what replaces it (KeptInv).                                             *)
(***************************************************************************)
EXTENDS StreamPipe, SequenceTheorems, TLAPS

-----------------------------------------------------------------------------
(* The invariant                                                           *)

Results == {EndResult, ErrorResult} \cup {Chunk(n) : n \in 1..MaxChunks}

StreamRecords ==
    [queue : Seq(1..MaxChunks), requests : Nat, settled : Seq(Results),
     closeRequested : BOOLEAN, errored : BOOLEAN, pulling : BOOLEAN]

Has(results, kind) == \E i \in DOMAIN results : results[i].kind = kind

Types ==
    /\ js \in [Streams -> StreamRecords]
    /\ cancelled \in BOOLEAN /\ inner \in BOOLEAN /\ pull \in PullStates
    /\ answer \in Results /\ produced \in 0..MaxChunks
    /\ failed \in BOOLEAN /\ threw \in BOOLEAN
    /\ rpc \in ReaderStates
    /\ slot \in Seq(Results) /\ Len(slot) <= 1 /\ ~Has(slot, "done")
    /\ done \in BOOLEAN /\ calls \in Nat /\ wakers \in Nat
    /\ woken \in BOOLEAN /\ spurious \in 0..MaxSpurious
    /\ delivered \in Seq(1..MaxChunks)
    /\ outcome \in {"none", "end", "error"}
    /\ piped \in BOOLEAN /\ pump \in PumpStates
    /\ stopped \subseteq Streams /\ gone \in BOOLEAN

EndIsLast(results) ==
    \A i, j \in DOMAIN results :
        i < j /\ results[i].kind = "done" => results[j].kind # "chunk"

(* Reads wait only while nothing is queued.  The end is told only once     *)
(* the queue is empty and nothing will be enqueued, and no chunk follows.  *)
StreamInv(st) ==
    /\ Increasing(st.queue)
    /\ ChunksIncrease(st.settled) /\ EndIsLast(st.settled)
    /\ st.requests > 0 => st.queue = <<>>
    /\ Has(st.settled, "done") => st.closeRequested /\ st.queue = <<>>
    /\ Has(st.settled, "error") => st.errored

(* All chunks of a stream were read, and there will be no others.          *)
Finished(st) ==
    st.closeRequested /\ st.queue = <<>> /\ ~Has(st.settled, "chunk")

(* One pull is in flight at most.  An error comes from the Rust stream     *)
(* alone; what JavaScript did not cancel is closed with the Rust stream    *)
(* only, and no pull is in flight then.                                    *)
SourceInv ==
    /\ js["src"].pulling = (pull # "none")
    /\ ~threw
    /\ answer.kind = "chunk" => pull = "answered"
    /\ js["src"].closeRequested => cancelled \/ pull \in {"none", "fulfilled"}
    /\ js["src"].errored => pull = "none"
    /\ js["src"].errored \/ pull = "rejected" \/ answer.kind = "error"
          => failed
    /\ failed => \/ js["src"].errored \/ pull = "rejected"
                 \/ pull = "answered" /\ answer.kind = "error"
    /\ cancelled => "src" \in stopped
    /\ "src" \notin stopped =>
          /\ js["src"].closeRequested <=> ~inner
          /\ js["src"].closeRequested => ~failed

(* Nothing was dropped on the way.                                         *)
Whole == stopped = {} /\ ~(piped /\ failed)

PumpInv ==
    /\ ~js["out"].errored
    /\ IF piped THEN pump # "none" ELSE pump = "none" /\ js["out"] = NewStream
    /\ stopped = {} /\ js["out"].closeRequested => pump = "ended"
    /\ Whole => pump # "failing"
    /\ Whole /\ pump \in {"closing", "ended"} => Finished(js["src"])

(* The reader knows of the end only once all chunks are delivered or in    *)
(* its slot.                                                               *)
ReaderInv ==
    Whole =>
        /\ done => Finished(js["src"]) /\ Finished(js[Target])
        /\ outcome = "end" => done /\ ~Has(slot, "chunk")

InLine(places) ==
    \A s, t \in 1..7 : s < t => \A m \in places[s], n \in places[t] : m < n

ChunksInv ==
    /\ InLine(Places) /\ Increasing(delivered)
    /\ \A s \in 1..7 : Places[s] \subseteq 1..produced
    /\ Whole => \A n \in 1..produced :
                   n \in overwritten \/ \E s \in 1..7 : n \in Places[s]

PipeInv ==
    /\ Types /\ SourceInv /\ PumpInv /\ ReaderInv /\ ChunksInv
    /\ StreamInv(js["src"]) /\ StreamInv(js["out"])

-----------------------------------------------------------------------------
(* Results, queues and their chunks                                        *)

(* A result is a chunk with its number, or the end, or an error.           *)
LEMMA ResultKinds ==
  /\ \A n : Chunk(n).kind = "chunk" /\ Chunk(n).n = n
  /\ EndResult.kind = "done" /\ ErrorResult.kind = "error"
  /\ EndResult \in Results /\ ErrorResult \in Results
  /\ \A n \in 1..MaxChunks : Chunk(n) \in Results
  /\ \A r \in Results :
        /\ r.kind \in {"chunk", "done", "error"}
        /\ r.kind = "chunk" => r.n \in 1..MaxChunks /\ r = Chunk(r.n)
        /\ r.kind = "done" => r = EndResult
<1>1. /\ \A n : Chunk(n).kind = "chunk" /\ Chunk(n).n = n
      /\ EndResult.kind = "done" /\ ErrorResult.kind = "error"
      /\ EndResult \in Results /\ ErrorResult \in Results
      /\ \A n \in 1..MaxChunks : Chunk(n) \in Results
  BY DEF Results, Chunk, EndResult, ErrorResult
<1>2. ASSUME NEW r \in Results
      PROVE  /\ r.kind \in {"chunk", "done", "error"}
             /\ r.kind = "chunk" => r.n \in 1..MaxChunks /\ r = Chunk(r.n)
             /\ r.kind = "done" => r = EndResult
  <2>1. CASE r \in {EndResult, ErrorResult}
    BY <1>1, <2>1
  <2>2. ASSUME NEW n \in 1..MaxChunks, r = Chunk(n)
        PROVE  r.kind = "chunk" /\ r.n \in 1..MaxChunks /\ r = Chunk(r.n)
    BY <1>1, <2>2
  <2> QED
    BY <2>1, <2>2 DEF Results
<1> QED
  BY <1>1, <1>2

(* The chunks among results, position by position.                         *)
LEMMA ChunksAt ==
  ASSUME NEW q \in Seq(Results)
  PROVE  /\ \A n : n \in ChunksOf(q) <=>
                \E i \in 1..Len(q) : q[i].kind = "chunk" /\ q[i].n = n
         /\ Has(q, "chunk") <=> ChunksOf(q) # {}
         /\ ChunksOf(q) \subseteq 1..MaxChunks
<1>1. DOMAIN q = 1..Len(q) /\ \A i \in 1..Len(q) : q[i] \in Results
  OBVIOUS
<1>2. \A n : n \in ChunksOf(q) <=>
                \E i \in 1..Len(q) : q[i].kind = "chunk" /\ q[i].n = n
  BY <1>1 DEF ChunksOf, Range
<1>3. Has(q, "chunk") <=> ChunksOf(q) # {}
  <2>1. ASSUME Has(q, "chunk") PROVE ChunksOf(q) # {}
    <3>1. PICK i \in 1..Len(q) : q[i].kind = "chunk"
      BY <1>1, <2>1 DEF Has
    <3>2. q[i].n \in ChunksOf(q)
      BY <1>2, <3>1
    <3> QED
      BY <3>2
  <2>2. ASSUME NEW n \in ChunksOf(q) PROVE Has(q, "chunk")
    BY <1>1, <1>2 DEF Has
  <2> QED
    BY <2>1, <2>2
<1>4. ASSUME NEW n \in ChunksOf(q) PROVE n \in 1..MaxChunks
  <2>1. PICK i \in 1..Len(q) : q[i].kind = "chunk" /\ q[i].n = n
    BY <1>2
  <2>2. q[i] \in Results
    BY <1>1
  <2> QED
    BY <2>1, <2>2, ResultKinds
<1> QED
  BY <1>2, <1>3, <1>4

(* Nothing is in the empty sequence.                                       *)
LEMMA NoChunks == ChunksOf(<<>>) = {} /\ Range(<<>>) = {}
BY DEF ChunksOf, Range

(* The first result is taken off.                                          *)
LEMMA ChunksTail ==
  ASSUME NEW q \in Seq(Results), q # <<>>
  PROVE  /\ Tail(q) \in Seq(Results) /\ Head(q) \in Results
         /\ ChunksOf(Tail(q)) \subseteq ChunksOf(q)
         /\ Head(q).kind = "chunk" =>
               /\ Head(q).n \in ChunksOf(q)
               /\ ChunksOf(q) = ChunksOf(Tail(q)) \cup {Head(q).n}
         /\ Head(q).kind # "chunk" => ChunksOf(q) = ChunksOf(Tail(q))
         /\ ChunksIncrease(q) =>
               /\ ChunksIncrease(Tail(q))
               /\ Head(q).kind = "chunk" =>
                     \A n \in ChunksOf(Tail(q)) : Head(q).n < n
<1>1. /\ Tail(q) \in Seq(Results) /\ Len(Tail(q)) = Len(q) - 1
      /\ Len(q) \in Nat
      /\ Len(q) > 0 /\ Head(q) = q[1] /\ q[1] \in Results
      /\ \A i \in 1..Len(Tail(q)) : Tail(q)[i] = q[i + 1]
  OBVIOUS
<1>2. /\ \A n : n \in ChunksOf(q) <=>
                \E i \in 1..Len(q) : q[i].kind = "chunk" /\ q[i].n = n
      /\ \A n : n \in ChunksOf(Tail(q)) <=>
                \E i \in 1..Len(Tail(q)) :
                   Tail(q)[i].kind = "chunk" /\ Tail(q)[i].n = n
  BY <1>1, ChunksAt
<1>3. ASSUME NEW n PROVE n \in ChunksOf(Tail(q)) <=>
         \E i \in 2..Len(q) : q[i].kind = "chunk" /\ q[i].n = n
  <2>1. ASSUME NEW i \in 1..Len(Tail(q)), Tail(q)[i].kind = "chunk",
               Tail(q)[i].n = n
        PROVE  \E j \in 2..Len(q) : q[j].kind = "chunk" /\ q[j].n = n
    <3>1. i + 1 \in 2..Len(q) /\ Tail(q)[i] = q[i + 1]
      BY <1>1
    <3> QED
      BY <2>1, <3>1
  <2>2. ASSUME NEW j \in 2..Len(q), q[j].kind = "chunk", q[j].n = n
        PROVE  \E i \in 1..Len(Tail(q)) :
                  Tail(q)[i].kind = "chunk" /\ Tail(q)[i].n = n
    <3>1. j - 1 \in 1..Len(Tail(q)) /\ Tail(q)[j - 1] = q[(j - 1) + 1]
      BY <1>1
    <3>2. (j - 1) + 1 = j
      OBVIOUS
    <3> QED
      BY <2>2, <3>1, <3>2
  <2> QED
    BY <1>2, <2>1, <2>2
<1>4. 1 \in 1..Len(q) /\ 1..Len(q) = {1} \cup 2..Len(q)
  BY <1>1
<1>5. ChunksIncrease(q) => ChunksIncrease(Tail(q))
  <2>1. DOMAIN Tail(q) = 1..Len(Tail(q)) /\ DOMAIN q = 1..Len(q)
    BY <1>1
  <2> SUFFICES ASSUME ChunksIncrease(q), NEW i \in 1..Len(Tail(q)),
                      NEW j \in 1..Len(Tail(q)), i < j,
                      Tail(q)[i].kind = "chunk", Tail(q)[j].kind = "chunk"
               PROVE  Tail(q)[i].n < Tail(q)[j].n
    BY <2>1 DEF ChunksIncrease
  <2>2. /\ i + 1 \in 1..Len(q) /\ j + 1 \in 1..Len(q) /\ i + 1 < j + 1
        /\ Tail(q)[i] = q[i + 1] /\ Tail(q)[j] = q[j + 1]
    BY <1>1
  <2> QED
    BY <2>1, <2>2 DEF ChunksIncrease
<1>6. ASSUME ChunksIncrease(q), Head(q).kind = "chunk",
             NEW n \in ChunksOf(Tail(q))
      PROVE  Head(q).n < n
  <2>1. PICK i \in 2..Len(q) : q[i].kind = "chunk" /\ q[i].n = n
    BY <1>3
  <2>2. i \in DOMAIN q /\ 1 \in DOMAIN q /\ 1 < i
    BY <1>1
  <2> QED
    BY <1>1, <1>6, <2>1, <2>2 DEF ChunksIncrease
<1>7. ChunksOf(Tail(q)) \subseteq ChunksOf(q)
  BY <1>2, <1>3, <1>4
<1>8. ASSUME NEW n
      PROVE  n \in ChunksOf(q) <=>
                \/ n \in ChunksOf(Tail(q))
                \/ Head(q).kind = "chunk" /\ n = Head(q).n
  BY <1>1, <1>2, <1>3, <1>4
<1>9. Head(q).kind = "chunk" =>
         ChunksOf(q) = ChunksOf(Tail(q)) \cup {Head(q).n}
  BY <1>8
<1>10. Head(q).kind # "chunk" => ChunksOf(q) = ChunksOf(Tail(q))
  BY <1>8
<1> QED
  BY <1>1, <1>5, <1>6, <1>7, <1>9, <1>10

(* A result is added.                                                      *)
LEMMA ChunksAppend ==
  ASSUME NEW q \in Seq(Results), NEW r \in Results
  PROVE  /\ Append(q, r) \in Seq(Results)
         /\ ChunksOf(Append(q, r)) =
               ChunksOf(q) \cup (IF r.kind = "chunk" THEN {r.n} ELSE {})
         /\ ChunksIncrease(q)
            /\ (r.kind = "chunk" => \A n \in ChunksOf(q) : n < r.n)
               => ChunksIncrease(Append(q, r))
<1>1. /\ Append(q, r) \in Seq(Results) /\ Len(q) \in Nat
      /\ Len(Append(q, r)) = Len(q) + 1
      /\ \A i \in 1..Len(q) : Append(q, r)[i] = q[i]
      /\ Append(q, r)[Len(q) + 1] = r
      /\ 1..(Len(q) + 1) = 1..Len(q) \cup {Len(q) + 1}
  OBVIOUS
<1>2. /\ \A n : n \in ChunksOf(q) <=>
                \E i \in 1..Len(q) : q[i].kind = "chunk" /\ q[i].n = n
      /\ \A n : n \in ChunksOf(Append(q, r)) <=>
                \E i \in 1..Len(Append(q, r)) :
                   Append(q, r)[i].kind = "chunk" /\ Append(q, r)[i].n = n
  BY <1>1, ChunksAt
<1>3. ChunksOf(Append(q, r)) =
         ChunksOf(q) \cup (IF r.kind = "chunk" THEN {r.n} ELSE {})
  <2>1. ASSUME NEW n
        PROVE  n \in ChunksOf(Append(q, r)) <=>
                  n \in ChunksOf(q) \/ (r.kind = "chunk" /\ n = r.n)
    BY <1>1, <1>2
  <2> QED
    BY <2>1
<1>4. ASSUME ChunksIncrease(q),
             r.kind = "chunk" => \A n \in ChunksOf(q) : n < r.n
      PROVE  ChunksIncrease(Append(q, r))
  <2>1. /\ DOMAIN Append(q, r) = 1..(Len(q) + 1) /\ DOMAIN q = 1..Len(q)
    BY <1>1
  <2> SUFFICES ASSUME NEW i \in 1..(Len(q) + 1), NEW j \in 1..(Len(q) + 1),
                      i < j,
                      Append(q, r)[i].kind = "chunk",
                      Append(q, r)[j].kind = "chunk"
               PROVE  Append(q, r)[i].n < Append(q, r)[j].n
    BY <2>1 DEF ChunksIncrease
  <2>2. i \in 1..Len(q) /\ Append(q, r)[i] = q[i] /\ q[i].n \in ChunksOf(q)
    BY <1>1, <1>2
  <2>3. CASE j = Len(q) + 1
    BY <1>1, <1>4, <2>2, <2>3
  <2>4. CASE j \in 1..Len(q)
    BY <1>1, <1>4, <2>1, <2>2, <2>4 DEF ChunksIncrease
  <2> QED
    BY <2>3, <2>4
<1> QED
  BY <1>1, <1>3, <1>4

(* The same for queues.                                                    *)
LEMMA QueueTail ==
  ASSUME NEW q \in Seq(1..MaxChunks), q # <<>>, Increasing(q)
  PROVE  /\ Tail(q) \in Seq(1..MaxChunks) /\ Head(q) \in 1..MaxChunks
         /\ Increasing(Tail(q))
         /\ Range(q) = Range(Tail(q)) \cup {Head(q)}
         /\ \A n \in Range(Tail(q)) : Head(q) < n
<1>1. /\ Tail(q) \in Seq(1..MaxChunks) /\ Len(Tail(q)) = Len(q) - 1
      /\ Len(q) \in Nat /\ Len(q) > 0
      /\ Head(q) = q[1] /\ q[1] \in 1..MaxChunks
      /\ \A i \in 1..Len(Tail(q)) : Tail(q)[i] = q[i + 1]
      /\ DOMAIN Tail(q) = 1..Len(Tail(q)) /\ DOMAIN q = 1..Len(q)
  <2>1. /\ Tail(q) \in Seq(1..MaxChunks) /\ Len(Tail(q)) = Len(q) - 1
        /\ \A i \in 1..Len(Tail(q)) : Tail(q)[i] = q[i + 1]
        /\ Head(q) \in 1..MaxChunks
    BY HeadTailProperties
  <2>2. Len(q) \in Nat \ {0}
    BY EmptySeq
  <2>3. DOMAIN Tail(q) = 1..Len(Tail(q)) /\ DOMAIN q = 1..Len(q)
    BY <2>1, LenProperties
  <2>4. Head(q) = q[1]
    OBVIOUS
  <2> QED
    BY <2>1, <2>2, <2>3, <2>4
<1>2. Increasing(Tail(q))
  <2> SUFFICES ASSUME NEW i \in 1..Len(Tail(q)), NEW j \in 1..Len(Tail(q)),
                      i < j
               PROVE  Tail(q)[i] < Tail(q)[j]
    BY <1>1 DEF Increasing
  <2>1. i + 1 \in DOMAIN q /\ j + 1 \in DOMAIN q /\ i + 1 < j + 1
    BY <1>1
  <2> QED
    BY <1>1, <2>1 DEF Increasing
<1>3. ASSUME NEW n PROVE n \in Range(Tail(q)) <=> \E i \in 2..Len(q) : q[i] = n
  <2>1. ASSUME NEW i \in 1..Len(Tail(q)), Tail(q)[i] = n
        PROVE  \E j \in 2..Len(q) : q[j] = n
    <3>1. i + 1 \in 2..Len(q) /\ Tail(q)[i] = q[i + 1]
      BY <1>1
    <3> QED
      BY <2>1, <3>1
  <2>2. ASSUME NEW j \in 2..Len(q), q[j] = n
        PROVE  \E i \in 1..Len(Tail(q)) : Tail(q)[i] = n
    <3>1. j - 1 \in 1..Len(Tail(q)) /\ Tail(q)[j - 1] = q[(j - 1) + 1]
      BY <1>1
    <3>2. (j - 1) + 1 = j
      OBVIOUS
    <3> QED
      BY <2>2, <3>1, <3>2
  <2> QED
    BY <1>1, <2>1, <2>2 DEF Range
<1>4. 1 \in 1..Len(q) /\ 1..Len(q) = {1} \cup 2..Len(q)
  BY <1>1
<1>5. Range(q) = Range(Tail(q)) \cup {Head(q)}
  <2>1. ASSUME NEW n
        PROVE  n \in Range(q) <=> n \in Range(Tail(q)) \/ n = Head(q)
    BY <1>1, <1>3, <1>4 DEF Range
  <2> QED
    BY <2>1
<1>6. ASSUME NEW n \in Range(Tail(q)) PROVE Head(q) < n
  <2>1. PICK i \in 2..Len(q) : q[i] = n
    BY <1>3
  <2>2. i \in DOMAIN q /\ 1 \in DOMAIN q /\ 1 < i
    BY <1>1
  <2> QED
    BY <1>1, <2>1, <2>2 DEF Increasing
<1> QED
  BY <1>1, <1>2, <1>5, <1>6

(* ... and added.                                                          *)
LEMMA QueueAppend ==
  ASSUME NEW q \in Seq(1..MaxChunks), NEW n \in 1..MaxChunks, Increasing(q),
         \A m \in Range(q) : m < n
  PROVE  /\ Append(q, n) \in Seq(1..MaxChunks) /\ Append(q, n) # <<>>
         /\ Increasing(Append(q, n))
         /\ Range(Append(q, n)) = Range(q) \cup {n}
<1>1. /\ Append(q, n) \in Seq(1..MaxChunks) /\ Len(q) \in Nat
      /\ Len(Append(q, n)) = Len(q) + 1
      /\ \A i \in 1..Len(q) : Append(q, n)[i] = q[i]
      /\ Append(q, n)[Len(q) + 1] = n
      /\ 1..(Len(q) + 1) = 1..Len(q) \cup {Len(q) + 1}
      /\ DOMAIN Append(q, n) = 1..(Len(q) + 1) /\ DOMAIN q = 1..Len(q)
  OBVIOUS
<1>2. Range(Append(q, n)) = Range(q) \cup {n}
  BY <1>1 DEF Range
<1>3. Increasing(Append(q, n))
  <2> SUFFICES ASSUME NEW i \in 1..(Len(q) + 1), NEW j \in 1..(Len(q) + 1),
                      i < j
               PROVE  Append(q, n)[i] < Append(q, n)[j]
    BY <1>1 DEF Increasing
  <2>2. i \in 1..Len(q) /\ Append(q, n)[i] = q[i] /\ q[i] \in Range(q)
    BY <1>1 DEF Range
  <2>3. CASE j = Len(q) + 1
    BY <1>1, <2>2, <2>3
  <2>4. CASE j \in 1..Len(q)
    BY <1>1, <2>2, <2>4 DEF Increasing
  <2> QED
    BY <2>3, <2>4
<1>4. Append(q, n) # <<>>
  BY <1>1
<1> QED
  BY <1>1, <1>2, <1>3, <1>4

(* What kinds of results there are, when one is taken off or added.        *)
LEMMA KindsTail ==
  ASSUME NEW q \in Seq(Results), q # <<>>
  PROVE  /\ \A k : Has(Tail(q), k) => Has(q, k)
         /\ Has(q, Head(q).kind)
         /\ EndIsLast(q) => /\ EndIsLast(Tail(q))
                            /\ Head(q).kind = "done" => ~Has(Tail(q), "chunk")
<1>1. /\ Tail(q) \in Seq(Results) /\ Len(Tail(q)) = Len(q) - 1
      /\ Len(q) \in Nat
      /\ Len(q) > 0 /\ Head(q) = q[1]
      /\ \A i \in 1..Len(Tail(q)) : Tail(q)[i] = q[i + 1]
      /\ DOMAIN Tail(q) = 1..Len(Tail(q)) /\ DOMAIN q = 1..Len(q)
  OBVIOUS
<1>2. \A i \in DOMAIN Tail(q) : i + 1 \in DOMAIN q /\ 1 < i + 1
  BY <1>1
<1>3. \A k : Has(Tail(q), k) => Has(q, k)
  BY <1>1, <1>2 DEF Has
<1>4. 1 \in DOMAIN q
  BY <1>1
<1>5. ASSUME EndIsLast(q), NEW i \in DOMAIN Tail(q), NEW j \in DOMAIN Tail(q),
             i < j, Tail(q)[i].kind = "done"
      PROVE  Tail(q)[j].kind # "chunk"
  <2>1. i + 1 < j + 1 /\ q[i + 1].kind = "done" /\ Tail(q)[j] = q[j + 1]
    BY <1>1, <1>5
  <2> QED
    BY <1>2, <1>5, <2>1 DEF EndIsLast
<1>6. ASSUME EndIsLast(q), q[1].kind = "done", NEW i \in DOMAIN Tail(q)
      PROVE  Tail(q)[i].kind # "chunk"
  <2>1. i + 1 \in DOMAIN q /\ 1 < i + 1 /\ Tail(q)[i] = q[i + 1]
    BY <1>1, <1>2
  <2> QED
    BY <1>4, <1>6, <2>1 DEF EndIsLast
<1> QED
  BY <1>1, <1>3, <1>4, <1>5, <1>6 DEF EndIsLast, Has

(* ... and added.                                                          *)
LEMMA KindsAppend ==
  ASSUME NEW q \in Seq(Results), NEW r \in Results
  PROVE  /\ \A k : Has(Append(q, r), k) <=> Has(q, k) \/ r.kind = k
         /\ EndIsLast(q) /\ (r.kind = "chunk" => ~Has(q, "done"))
               => EndIsLast(Append(q, r))
<1>1. /\ Append(q, r) \in Seq(Results) /\ Len(q) \in Nat
      /\ Len(Append(q, r)) = Len(q) + 1
      /\ \A i \in 1..Len(q) : Append(q, r)[i] = q[i]
      /\ Append(q, r)[Len(q) + 1] = r
      /\ DOMAIN Append(q, r) = 1..Len(q) \cup {Len(q) + 1}
      /\ DOMAIN q = 1..Len(q)
  OBVIOUS
<1>2. \A k : Has(Append(q, r), k) <=> Has(q, k) \/ r.kind = k
  BY <1>1 DEF Has
<1>3. ASSUME EndIsLast(q), r.kind = "chunk" => ~Has(q, "done"),
             NEW i \in DOMAIN Append(q, r), NEW j \in DOMAIN Append(q, r),
             i < j, Append(q, r)[i].kind = "done"
      PROVE  Append(q, r)[j].kind # "chunk"
  <2>1. i \in 1..Len(q) /\ q[i].kind = "done" /\ Has(q, "done")
    BY <1>1, <1>3 DEF Has
  <2>2. CASE j = Len(q) + 1
    BY <1>1, <1>3, <2>1, <2>2
  <2>3. CASE j \in 1..Len(q)
    BY <1>1, <1>3, <2>1, <2>3 DEF EndIsLast
  <2> QED
    BY <1>1, <2>2, <2>3
<1> QED
  BY <1>2, <1>3 DEF EndIsLast

(* All waiting reads are told that there is no chunk for them.             *)
LEMMA ManyAppended ==
  ASSUME NEW q \in Seq(Results), NEW r \in {EndResult, ErrorResult},
         NEW a \in Seq({r})
  PROVE  /\ q \o a \in Seq(Results) /\ ChunksOf(q \o a) = ChunksOf(q)
         /\ ChunksIncrease(q) => ChunksIncrease(q \o a)
         /\ EndIsLast(q) => EndIsLast(q \o a)
         /\ \A k : Has(q \o a, k) => Has(q, k) \/ (r.kind = k /\ a # <<>>)
<1> DEFINE q2 == q \o a
<1>1. r \in Results /\ r.kind # "chunk"
  BY ResultKinds
<1>2. /\ a \in Seq(Results) /\ Len(a) \in Nat
      /\ \A i \in 1..Len(a) : a[i] = r
      /\ Len(a) > 0 => a # <<>>
  BY <1>1
<1>3. /\ q2 \in Seq(Results) /\ Len(q2) = Len(q) + Len(a) /\ Len(q) \in Nat
      /\ \A i \in 1..Len(q) : q2[i] = q[i]
      /\ \A i \in 1..Len(q2) : i > Len(q) => q2[i] = r
  BY <1>2, ConcatProperties
<1> HIDE DEF q2
<1>4. DOMAIN q2 = 1..Len(q2) /\ DOMAIN q = 1..Len(q)
  BY <1>3
<1>5. \A i \in 1..Len(q2) : i \in 1..Len(q) \/ (q2[i] = r /\ a # <<>>)
  BY <1>2, <1>3
<1>6. \A i \in 1..Len(q) : i \in 1..Len(q2)
  BY <1>3
<1>7. ChunksOf(q2) = ChunksOf(q)
  <2>1. \A n : n \in ChunksOf(q) <=>
                \E i \in 1..Len(q) : q[i].kind = "chunk" /\ q[i].n = n
    BY ChunksAt
  <2>2. \A n : n \in ChunksOf(q2) <=>
                \E i \in 1..Len(q2) : q2[i].kind = "chunk" /\ q2[i].n = n
    BY <1>3, ChunksAt
  <2>3. ASSUME NEW n PROVE n \in ChunksOf(q2) <=> n \in ChunksOf(q)
    <3>1. ASSUME NEW i \in 1..Len(q2), q2[i].kind = "chunk", q2[i].n = n
          PROVE  n \in ChunksOf(q)
      <4>1. i \in 1..Len(q) /\ q2[i] = q[i]
        BY <1>1, <1>3, <1>5, <3>1
      <4> QED
        BY <2>1, <3>1, <4>1
    <3>2. ASSUME NEW i \in 1..Len(q), q[i].kind = "chunk", q[i].n = n
          PROVE  n \in ChunksOf(q2)
      BY <1>3, <1>6, <2>2, <3>2
    <3> QED
      BY <2>1, <2>2, <3>1, <3>2
  <2> QED
    BY <2>3
<1>8. ChunksIncrease(q) => ChunksIncrease(q2)
  BY <1>1, <1>3, <1>4, <1>5 DEF ChunksIncrease
<1>9. EndIsLast(q) => EndIsLast(q2)
  <2> SUFFICES ASSUME EndIsLast(q), NEW i \in 1..Len(q2), NEW j \in 1..Len(q2),
                      i < j, q2[i].kind = "done"
               PROVE  q2[j].kind # "chunk"
    BY <1>4 DEF EndIsLast
  <2>1. CASE q2[j] = r
    BY <1>1, <2>1
  <2>2. CASE j \in 1..Len(q)
    <3>1. i \in 1..Len(q)
      BY <1>3, <2>2
    <3> QED
      BY <1>3, <1>4, <2>2, <3>1 DEF EndIsLast
  <2> QED
    BY <1>5, <2>1, <2>2
<1>10. \A k : Has(q2, k) => Has(q, k) \/ (r.kind = k /\ a # <<>>)
  BY <1>3, <1>4, <1>5 DEF Has
<1> QED
  BY <1>3, <1>7, <1>8, <1>9, <1>10 DEF q2

-----------------------------------------------------------------------------
(* What the methods of a stream do                                         *)

SameChunks(st, s2) ==
    /\ ChunksOf(s2.settled) = ChunksOf(st.settled)
    /\ Range(s2.queue) = Range(st.queue)

SameFlags(st, s2) ==
    /\ s2.closeRequested = st.closeRequested
    /\ s2.errored = st.errored /\ s2.pulling = st.pulling

(* A stream stays as it should be, and finished if it is.                  *)
Fine(st, s2) ==
    s2 \in StreamRecords /\ StreamInv(s2) /\ (Finished(st) => Finished(s2))

(* The fields of a stream.                                                 *)
LEMMA Fields ==
  ASSUME NEW st \in StreamRecords
  PROVE  /\ st.queue \in Seq(1..MaxChunks) /\ st.requests \in Nat
         /\ st.settled \in Seq(Results)
         /\ st.closeRequested \in BOOLEAN /\ st.errored \in BOOLEAN
         /\ st.pulling \in BOOLEAN
BY DEF StreamRecords

(* One more read is answered, with a chunk                                 *)
LEMMA SettleChunk ==
  ASSUME NEW st \in StreamRecords, StreamInv(st), NEW n \in 1..MaxChunks,
         \A m \in ChunksOf(st.settled) : m < n, ~Has(st.settled, "done"),
         NEW s2, s2 = Settle(st, Chunk(n))
  PROVE  /\ s2 \in StreamRecords /\ StreamInv(s2)
         /\ s2.queue = st.queue /\ SameFlags(st, s2)
         /\ ChunksOf(s2.settled) = ChunksOf(st.settled) \cup {n}
<1> DEFINE q2 == Append(st.settled, Chunk(n))
<1>1. /\ s2.queue = st.queue /\ s2.requests = st.requests
      /\ s2.closeRequested = st.closeRequested
      /\ s2.errored = st.errored /\ s2.pulling = st.pulling
      /\ s2.settled = q2
  BY DEF Settle, StreamRecords
<1>2. /\ st.settled \in Seq(Results) /\ Chunk(n) \in Results
      /\ Chunk(n).kind = "chunk" /\ Chunk(n).n = n
  BY Fields, ResultKinds
<1>3. /\ q2 \in Seq(Results) /\ ChunksOf(q2) = ChunksOf(st.settled) \cup {n}
      /\ ChunksIncrease(q2)
  BY <1>2, ChunksAppend DEF StreamInv
<1>4. /\ \A k : Has(q2, k) <=> Has(st.settled, k) \/ "chunk" = k
      /\ EndIsLast(q2)
  BY <1>2, KindsAppend DEF StreamInv
<1>5. s2 \in StreamRecords
  BY <1>3 DEF Settle, StreamRecords
<1> HIDE DEF q2
<1>6. StreamInv(s2)
  BY <1>1, <1>3, <1>4 DEF StreamInv
<1> QED
  BY <1>1, <1>3, <1>5, <1>6 DEF SameFlags

(* ... or without one.                                                     *)
LEMMA SettleNone ==
  ASSUME NEW st \in StreamRecords, StreamInv(st),
         NEW r \in {EndResult, ErrorResult},
         r.kind = "done" => st.closeRequested /\ st.queue = <<>>,
         r.kind = "error" => st.errored,
         NEW s2, s2 = Settle(st, r)
  PROVE  Fine(st, s2) /\ SameFlags(st, s2) /\ SameChunks(st, s2)
<1> DEFINE q2 == Append(st.settled, r)
<1>1. /\ s2.queue = st.queue /\ s2.requests = st.requests
      /\ s2.closeRequested = st.closeRequested
      /\ s2.errored = st.errored /\ s2.pulling = st.pulling
      /\ s2.settled = q2
  BY DEF Settle, StreamRecords
<1>2. st.settled \in Seq(Results) /\ r \in Results /\ r.kind # "chunk"
  BY Fields, ResultKinds
<1>3. /\ q2 \in Seq(Results) /\ ChunksOf(q2) = ChunksOf(st.settled)
      /\ ChunksIncrease(q2)
  BY <1>2, ChunksAppend DEF StreamInv
<1>4. /\ \A k : Has(q2, k) <=> Has(st.settled, k) \/ r.kind = k
      /\ EndIsLast(q2)
  BY <1>2, KindsAppend DEF StreamInv
<1>5. s2 \in StreamRecords
  BY <1>3 DEF Settle, StreamRecords
<1> HIDE DEF q2
<1>6. StreamInv(s2)
  BY <1>1, <1>3, <1>4 DEF StreamInv
<1>7. Finished(st) => Finished(s2)
  BY <1>1, <1>2, <1>4 DEF Finished
<1> QED
  BY <1>1, <1>3, <1>5, <1>6, <1>7 DEF SameFlags, SameChunks, Fine

(* All waiting reads are answered, with the end or an error.               *)
LEMMA SettleAllDoes ==
  ASSUME NEW st \in StreamRecords, StreamInv(st),
         NEW r \in {EndResult, ErrorResult},
         r.kind = "done" => st.closeRequested,
         r.kind = "error" => st.errored,
         NEW s2, s2 = SettleAll(st, r)
  PROVE  /\ s2 \in StreamRecords /\ StreamInv(s2)
         /\ s2.queue = st.queue /\ s2.requests = 0 /\ SameFlags(st, s2)
         /\ ChunksOf(s2.settled) = ChunksOf(st.settled)
         /\ Finished(st) => Finished(s2)
<1> DEFINE a == [i \in 1..st.requests |-> r]
           q2 == st.settled \o a
<1>1. /\ s2.queue = st.queue /\ s2.requests = 0
      /\ s2.closeRequested = st.closeRequested
      /\ s2.errored = st.errored /\ s2.pulling = st.pulling
      /\ s2.settled = q2
  BY DEF SettleAll, StreamRecords
<1>2. st.settled \in Seq(Results) /\ st.requests \in Nat
  BY Fields
<1>3. /\ q2 \in Seq(Results) /\ ChunksOf(q2) = ChunksOf(st.settled)
      /\ ChunksIncrease(q2) /\ EndIsLast(q2)
      /\ \A k : Has(q2, k) =>
                   Has(st.settled, k) \/ (r.kind = k /\ st.requests > 0)
  <2>1. a \in Seq({r}) /\ (a # <<>> => st.requests > 0)
    BY <1>2
  <2> HIDE DEF a
  <2>2. /\ q2 \in Seq(Results) /\ ChunksOf(q2) = ChunksOf(st.settled)
        /\ ChunksIncrease(st.settled) => ChunksIncrease(q2)
        /\ EndIsLast(st.settled) => EndIsLast(q2)
        /\ \A k : Has(q2, k) => Has(st.settled, k) \/ (r.kind = k /\ a # <<>>)
    <3>1. st.settled \in Seq(Results) /\ a \in Seq({r})
      BY <1>2, <2>1
    <3>2. ASSUME NEW q \in Seq(Results)
          PROVE  /\ q \o a \in Seq(Results) /\ ChunksOf(q \o a) = ChunksOf(q)
                 /\ ChunksIncrease(q) => ChunksIncrease(q \o a)
                 /\ EndIsLast(q) => EndIsLast(q \o a)
                 /\ \A k : Has(q \o a, k) =>
                              Has(q, k) \/ (r.kind = k /\ a # <<>>)
      BY <3>1, ManyAppended
    <3> QED
      BY <3>1, <3>2
  <2> QED
    BY <2>1, <2>2 DEF StreamInv
<1>4. s2 \in StreamRecords
  <2> HIDE DEF q2
  <2> QED
    BY <1>3 DEF SettleAll, StreamRecords, q2
<1> HIDE DEF q2
<1>5. StreamInv(s2)
  BY <1>1, <1>2, <1>3 DEF StreamInv
<1>6. Finished(st) => Finished(s2)
  BY <1>1, <1>3, ResultKinds DEF Finished
<1> QED
  BY <1>1, <1>3, <1>4, <1>5, <1>6 DEF SameFlags

(* read(): a chunk moves from the queue to the answered reads, or none.    *)
LEMMA ReadFromDoes ==
  ASSUME NEW st \in StreamRecords, StreamInv(st),
         \A m \in ChunksOf(st.settled), n \in Range(st.queue) : m < n,
         NEW s2, s2 = ReadFrom(st)
  PROVE  /\ Fine(st, s2) /\ SameFlags(st, s2)
         /\ \/ SameChunks(st, s2)
            \/ \E n \in Range(st.queue) :
                  /\ ChunksOf(s2.settled) = ChunksOf(st.settled) \cup {n}
                  /\ Range(st.queue) = Range(s2.queue) \cup {n}
                  /\ \A m \in Range(s2.queue) : n < m
<1>1. /\ st.queue \in Seq(1..MaxChunks) /\ st.requests \in Nat
      /\ st.settled \in Seq(Results)
  BY Fields
<1>2. CASE st.errored
  <2>1. s2 = Settle(st, ErrorResult)
    BY <1>2 DEF ReadFrom
  <2> QED
    BY <1>2, <2>1, SettleNone, ResultKinds
<1>3. CASE ~st.errored /\ st.queue # <<>>
  <2> DEFINE s1 == [st EXCEPT !.queue = Tail(@)]
             n == Head(st.queue)
  <2>1. s2 = Settle(s1, Chunk(n))
    BY <1>3 DEF ReadFrom
  <2>2. /\ Tail(st.queue) \in Seq(1..MaxChunks)
        /\ Head(st.queue) \in 1..MaxChunks
        /\ Increasing(Tail(st.queue))
        /\ Range(st.queue) = Range(Tail(st.queue)) \cup {Head(st.queue)}
        /\ \A m \in Range(Tail(st.queue)) : Head(st.queue) < m
    BY <1>1, <1>3, QueueTail DEF StreamInv
  <2>3. /\ s1 \in StreamRecords /\ s1.queue = Tail(st.queue)
        /\ s1.requests = st.requests /\ s1.settled = st.settled
        /\ SameFlags(st, s1)
    BY <2>2 DEF StreamRecords, SameFlags
  <2>4. st.requests = 0 /\ ~Has(st.settled, "done")
    BY <1>1, <1>3 DEF StreamInv
  <2>5. StreamInv(s1)
    BY <2>2, <2>3, <2>4 DEF StreamInv, SameFlags
  <2>6. /\ n \in 1..MaxChunks /\ n \in Range(st.queue)
        /\ \A m \in ChunksOf(s1.settled) : m < n
    BY <2>2, <2>3
  <2> HIDE DEF s1, n
  <2>7. /\ s2 \in StreamRecords /\ StreamInv(s2) /\ s2.queue = s1.queue
        /\ SameFlags(s1, s2)
        /\ ChunksOf(s2.settled) = ChunksOf(s1.settled) \cup {n}
    BY <2>1, <2>3, <2>4, <2>5, <2>6, SettleChunk
  <2>8. ~Finished(st)
    BY <1>3 DEF Finished
  <2>9. SameFlags(st, s2)
    BY <2>3, <2>7 DEF SameFlags
  <2> QED
    BY <2>2, <2>3, <2>6, <2>7, <2>8, <2>9 DEF Fine, n
<1>4. CASE ~st.errored /\ st.queue = <<>> /\ st.closeRequested
  <2>1. s2 = Settle(st, EndResult)
    BY <1>4 DEF ReadFrom
  <2> QED
    BY <1>4, <2>1, SettleNone, ResultKinds
<1>5. CASE ~st.errored /\ st.queue = <<>> /\ ~st.closeRequested
  <2>1. s2 = [st EXCEPT !.requests = @ + 1]
    BY <1>5 DEF ReadFrom
  <2>2. /\ s2 \in StreamRecords /\ s2.queue = st.queue
        /\ s2.settled = st.settled
        /\ SameFlags(st, s2)
    BY <1>1, <2>1 DEF StreamRecords, SameFlags
  <2>3. StreamInv(s2)
    BY <1>5, <2>2 DEF StreamInv, SameFlags
  <2>4. ~Finished(st)
    BY <1>5 DEF Finished
  <2> QED
    BY <2>2, <2>3, <2>4 DEF Fine, SameChunks
<1> QED
  BY <1>2, <1>3, <1>4, <1>5

(* enqueue(): the chunk answers a read that waits, or is queued.           *)
LEMMA EnqueuedDoes ==
  ASSUME NEW st \in StreamRecords, StreamInv(st), IsReadable(st),
         NEW n \in 1..MaxChunks,
         \A m \in ChunksOf(st.settled) : m < n,
         \A m \in Range(st.queue) : m < n,
         NEW s2, s2 = Enqueued(st, n)
  PROVE  /\ Fine(st, s2) /\ SameFlags(st, s2)
         /\ \/ /\ Range(st.queue) = {} /\ Range(s2.queue) = {}
               /\ ChunksOf(s2.settled) = ChunksOf(st.settled) \cup {n}
            \/ /\ ChunksOf(s2.settled) = ChunksOf(st.settled)
               /\ Range(s2.queue) = Range(st.queue) \cup {n}
<1>1. /\ st.queue \in Seq(1..MaxChunks) /\ st.requests \in Nat
      /\ st.settled \in Seq(Results)
  BY Fields
<1>2. ~Has(st.settled, "done") /\ ~Finished(st)
  BY DEF IsReadable, StreamInv, Finished
<1>3. CASE st.requests > 0
  <2> DEFINE s1 == [st EXCEPT !.requests = @ - 1]
  <2>1. s2 = Settle(s1, Chunk(n))
    BY <1>3 DEF Enqueued
  <2>2. st.queue = <<>>
    BY <1>3 DEF StreamInv
  <2>3. /\ s1 \in StreamRecords /\ s1.queue = st.queue
        /\ s1.requests = st.requests - 1 /\ s1.settled = st.settled
        /\ SameFlags(st, s1)
    BY <1>1, <1>3 DEF StreamRecords, SameFlags
  <2>4. StreamInv(s1)
    BY <2>2, <2>3 DEF StreamInv, SameFlags
  <2> HIDE DEF s1
  <2>5. /\ s2 \in StreamRecords /\ StreamInv(s2) /\ s2.queue = s1.queue
        /\ SameFlags(s1, s2)
        /\ ChunksOf(s2.settled) = ChunksOf(s1.settled) \cup {n}
    BY <1>2, <2>1, <2>3, <2>4, SettleChunk
  <2>6. SameFlags(st, s2)
    BY <2>3, <2>5 DEF SameFlags
  <2> QED
    BY <1>2, <2>2, <2>3, <2>5, <2>6, NoChunks DEF Fine
<1>4. CASE ~(st.requests > 0)
  <2>1. s2 = [st EXCEPT !.queue = Append(@, n)]
    BY <1>4 DEF Enqueued
  <2>2. /\ Append(st.queue, n) \in Seq(1..MaxChunks)
        /\ Increasing(Append(st.queue, n))
        /\ Range(Append(st.queue, n)) = Range(st.queue) \cup {n}
    BY <1>1, QueueAppend DEF StreamInv
  <2>3. /\ s2 \in StreamRecords /\ s2.queue = Append(st.queue, n)
        /\ s2.requests = st.requests /\ s2.settled = st.settled
        /\ SameFlags(st, s2)
    BY <2>1, <2>2 DEF StreamRecords, SameFlags
  <2>4. StreamInv(s2)
    BY <1>2, <1>4, <2>2, <2>3 DEF StreamInv, SameFlags
  <2> QED
    BY <1>2, <2>2, <2>3, <2>4 DEF Fine
<1> QED
  BY <1>3, <1>4

(* close(): no chunk moves.                                                *)
LEMMA ClosedDoes ==
  ASSUME NEW st \in StreamRecords, StreamInv(st), NEW s2, s2 = Closed(st)
  PROVE  /\ Fine(st, s2) /\ SameChunks(st, s2) /\ s2.closeRequested = TRUE
         /\ s2.errored = st.errored /\ s2.pulling = st.pulling
         /\ s2.queue = st.queue /\ (st.closeRequested => s2 = st)
<1>1. CASE st.closeRequested
  <2>1. s2 = st /\ st.closeRequested = TRUE
    BY <1>1, Fields DEF Closed
  <2> QED
    BY <1>1, <2>1 DEF Fine, SameChunks
<1>2. CASE ~st.closeRequested
  <2> DEFINE s1 == [st EXCEPT !.closeRequested = TRUE]
  <2>1. s2 = SettleAll(s1, EndResult)
    BY <1>2 DEF Closed
  <2>2. /\ s1 \in StreamRecords /\ s1.queue = st.queue
        /\ s1.requests = st.requests /\ s1.settled = st.settled
        /\ s1.closeRequested = TRUE
        /\ s1.errored = st.errored /\ s1.pulling = st.pulling
    BY DEF StreamRecords
  <2>3. StreamInv(s1) /\ ~Finished(st)
    BY <1>2, <2>2 DEF StreamInv, Finished
  <2> HIDE DEF s1
  <2>4. /\ s2 \in StreamRecords /\ StreamInv(s2) /\ s2.queue = s1.queue
        /\ SameFlags(s1, s2) /\ ChunksOf(s2.settled) = ChunksOf(s1.settled)
    BY <2>1, <2>2, <2>3, SettleAllDoes, ResultKinds
  <2> QED
    BY <1>2, <2>2, <2>3, <2>4 DEF Fine, SameChunks, SameFlags
<1> QED
  BY <1>1, <1>2

(* An error: no chunk moves.                                               *)
LEMMA ErroredDoes ==
  ASSUME NEW st \in StreamRecords, StreamInv(st), NEW s2, s2 = Errored(st)
  PROVE  /\ Fine(st, s2) /\ SameChunks(st, s2) /\ s2.errored = TRUE
         /\ s2.closeRequested = st.closeRequested /\ s2.pulling = st.pulling
<1>1. CASE st.errored
  <2>1. s2 = st /\ st.errored = TRUE
    BY <1>1, Fields DEF Errored
  <2> QED
    BY <2>1 DEF Fine, SameChunks
<1>2. CASE ~st.errored
  <2> DEFINE s1 == [st EXCEPT !.errored = TRUE]
  <2>1. s2 = SettleAll(s1, ErrorResult)
    BY <1>2 DEF Errored
  <2>2. /\ s1 \in StreamRecords /\ s1.queue = st.queue
        /\ s1.requests = st.requests /\ s1.settled = st.settled
        /\ s1.errored = TRUE
        /\ s1.closeRequested = st.closeRequested /\ s1.pulling = st.pulling
    BY DEF StreamRecords
  <2>3. StreamInv(s1) /\ (Finished(st) => Finished(s1))
    BY <2>2 DEF StreamInv, Finished
  <2> HIDE DEF s1
  <2>4. /\ s2 \in StreamRecords /\ StreamInv(s2) /\ s2.queue = s1.queue
        /\ SameFlags(s1, s2) /\ ChunksOf(s2.settled) = ChunksOf(s1.settled)
        /\ Finished(s1) => Finished(s2)
    BY <2>1, <2>2, <2>3, SettleAllDoes, ResultKinds
  <2> QED
    BY <2>2, <2>3, <2>4 DEF Fine, SameChunks, SameFlags
<1> QED
  BY <1>1, <1>2

(* cancel() and abort() forget what is queued.                             *)
LEMMA CancelledDoes ==
  ASSUME NEW st \in StreamRecords, StreamInv(st), NEW s2, s2 = Cancelled(st)
  PROVE  /\ Fine(st, s2) /\ s2.closeRequested = TRUE
         /\ s2.errored = st.errored /\ s2.pulling = st.pulling
         /\ ChunksOf(s2.settled) = ChunksOf(st.settled)
         /\ Range(s2.queue) \subseteq Range(st.queue)
         /\ st.closeRequested => s2 = st
<1>1. CASE st.closeRequested
  <2>1. s2 = st /\ st.closeRequested = TRUE
    BY <1>1, Fields DEF Cancelled
  <2> QED
    BY <1>1, <2>1 DEF Fine
<1>2. CASE ~st.closeRequested
  <2> DEFINE s1 == [st EXCEPT !.queue = <<>>]
  <2>1. s2 = Closed(s1)
    BY <1>2 DEF Cancelled
  <2>2. /\ s1 \in StreamRecords /\ s1.queue = <<>>
        /\ s1.requests = st.requests /\ s1.settled = st.settled
        /\ s1.closeRequested = st.closeRequested
        /\ s1.errored = st.errored /\ s1.pulling = st.pulling
    <3>1. <<>> \in Seq(1..MaxChunks)
      OBVIOUS
    <3> QED
      BY <3>1 DEF StreamRecords
  <2>3. StreamInv(s1) /\ ~Finished(st)
    <3>1. Increasing(<<>>)
      BY DEF Increasing
    <3> QED
      BY <1>2, <2>2, <3>1 DEF StreamInv, Finished
  <2> HIDE DEF s1
  <2>4. /\ Fine(s1, s2) /\ SameChunks(s1, s2) /\ s2.closeRequested = TRUE
        /\ s2.errored = s1.errored /\ s2.pulling = s1.pulling
    BY <2>1, <2>2, <2>3, ClosedDoes
  <2> QED
    BY <1>2, <2>2, <2>3, <2>4, NoChunks DEF Fine, SameChunks
<1> QED
  BY <1>1, <1>2

(* The first result goes to a callback.                                    *)
Taken(st) == [st EXCEPT !.settled = Tail(@)]
First(st) == Head(st.settled)

(* A callback of the reader is run: after the end nothing is left.         *)
LEMMA TakenDoes ==
  ASSUME NEW st \in StreamRecords, StreamInv(st), st.settled # <<>>,
         NEW s2, s2 = Taken(st), NEW r, r = First(st)
  PROVE  /\ Fine(st, s2) /\ SameFlags(st, s2) /\ s2.queue = st.queue
         /\ r \in Results
         /\ ChunksOf(s2.settled) \subseteq ChunksOf(st.settled)
         /\ r.kind = "chunk" =>
               /\ r.n \in ChunksOf(st.settled)
               /\ ChunksOf(st.settled) = ChunksOf(s2.settled) \cup {r.n}
               /\ \A n \in ChunksOf(s2.settled) : r.n < n
         /\ r.kind # "chunk" => ChunksOf(s2.settled) = ChunksOf(st.settled)
         /\ r.kind = "done" => Finished(s2)
         /\ r.kind = "error" => st.errored
         /\ Finished(st) => r.kind # "chunk"
<1> USE DEF First
<1>1. /\ s2.queue = st.queue /\ s2.requests = st.requests
      /\ s2.closeRequested = st.closeRequested
      /\ s2.errored = st.errored /\ s2.pulling = st.pulling
      /\ s2.settled = Tail(st.settled)
  BY DEF StreamRecords, Taken
<1>2. st.settled \in Seq(Results)
  BY Fields
<1>3. /\ Tail(st.settled) \in Seq(Results) /\ Head(st.settled) \in Results
      /\ ChunksOf(Tail(st.settled)) \subseteq ChunksOf(st.settled)
      /\ Head(st.settled).kind = "chunk" =>
            /\ Head(st.settled).n \in ChunksOf(st.settled)
            /\ ChunksOf(st.settled) =
                  ChunksOf(Tail(st.settled)) \cup {Head(st.settled).n}
            /\ \A n \in ChunksOf(Tail(st.settled)) : Head(st.settled).n < n
      /\ Head(st.settled).kind # "chunk" =>
            ChunksOf(st.settled) = ChunksOf(Tail(st.settled))
      /\ ChunksIncrease(Tail(st.settled))
  BY <1>2, ChunksTail DEF StreamInv
<1>4. /\ \A k : Has(Tail(st.settled), k) => Has(st.settled, k)
      /\ Has(st.settled, Head(st.settled).kind)
      /\ EndIsLast(Tail(st.settled))
      /\ Head(st.settled).kind = "done" => ~Has(Tail(st.settled), "chunk")
  BY <1>2, KindsTail DEF StreamInv
<1>5. s2 \in StreamRecords
  BY <1>3 DEF StreamRecords, Taken
<1>6. StreamInv(s2)
  BY <1>1, <1>3, <1>4 DEF StreamInv
<1>7. Finished(st) => Finished(s2)
  BY <1>1, <1>4 DEF Finished
<1>8. r.kind = "done" => Finished(s2)
  BY <1>1, <1>4 DEF Finished, StreamInv
<1>9. r.kind = "error" => st.errored
  BY <1>4 DEF StreamInv
<1>10. Finished(st) => r.kind # "chunk"
  BY <1>4 DEF Finished
<1> QED
  BY <1>1, <1>3, <1>5, <1>6, <1>7, <1>8, <1>9, <1>10 DEF Fine, SameFlags

(* The flag of a pull                                                      *)
LEMMA PullingDoes ==
  ASSUME NEW st \in StreamRecords, StreamInv(st), NEW b \in BOOLEAN,
         NEW s2, s2 = [st EXCEPT !.pulling = b]
  PROVE  /\ Fine(st, s2) /\ SameChunks(st, s2) /\ s2.pulling = b
         /\ s2.closeRequested = st.closeRequested /\ s2.errored = st.errored
<1>1. /\ s2.queue = st.queue /\ s2.requests = st.requests
      /\ s2.closeRequested = st.closeRequested
      /\ s2.errored = st.errored /\ s2.pulling = b
      /\ s2.settled = st.settled /\ s2 \in StreamRecords
  BY DEF StreamRecords
<1>2. StreamInv(s2) /\ (Finished(st) => Finished(s2))
  BY <1>1 DEF StreamInv, Finished
<1> QED
  BY <1>1, <1>2 DEF Fine, SameChunks

-----------------------------------------------------------------------------
(* The line of the chunks                                                  *)

(* The places, one by one.                                                 *)
LEMMA PlacesAre ==
  /\ Places[1] = Range(delivered) /\ Places[2] = ChunksOf(slot)
  /\ Places[3] = ChunksOf(js["out"].settled)
  /\ Places[4] = Range(js["out"].queue)
  /\ Places[5] = ChunksOf(js["src"].settled)
  /\ Places[6] = Range(js["src"].queue) /\ Places[7] = ChunksOf(<<answer>>)
  /\ 1..7 = {1, 2, 3, 4, 5, 6, 7}
BY DEF Places

(* ... and after a step.                                                   *)
LEMMA PlacesAreNext ==
  /\ Places'[1] = Range(delivered') /\ Places'[2] = ChunksOf(slot')
  /\ Places'[3] = ChunksOf(js'["out"].settled)
  /\ Places'[4] = Range(js'["out"].queue)
  /\ Places'[5] = ChunksOf(js'["src"].settled)
  /\ Places'[6] = Range(js'["src"].queue) /\ Places'[7] = ChunksOf(<<answer'>>)
BY DEF Places

(* An answer is one result.                                                *)
LEMMA AnswerChunks ==
  ASSUME NEW r \in Results
  PROVE  ChunksOf(<<r>>) = IF r.kind = "chunk" THEN {r.n} ELSE {}
<1> DEFINE q == <<r>>
<1>1. q \in Seq(Results) /\ Len(q) = 1 /\ q[1] = r /\ 1..1 = {1}
  OBVIOUS
<1> HIDE DEF q
<1>2. ASSUME NEW n
      PROVE  n \in ChunksOf(q) <=> r.kind = "chunk" /\ r.n = n
  BY <1>1, ChunksAt
<1>3. ChunksOf(q) = IF r.kind = "chunk" THEN {r.n} ELSE {}
  BY <1>2
<1> QED
  BY <1>3 DEF q

(* Chunks that go away leave the others in line.                           *)
LEMMA FewerInLine ==
  ASSUME NEW p, NEW q, InLine(p), \A s \in 1..7 : q[s] \subseteq p[s]
  PROVE  InLine(q)
BY DEF InLine

(* The first chunk of a place goes to the end of an earlier one, and there *)
(* is none in between.                                                     *)
LEMMA MovedInLine ==
  ASSUME NEW p, NEW q, InLine(p),
         NEW from \in 1..7, NEW to \in 1..7, to < from,
         NEW n \in p[from],
         \A s \in 1..7 : to < s /\ s < from => p[s] = {},
         \A s \in 1..7 : s # from /\ s # to => q[s] \subseteq p[s],
         q[to] \subseteq p[to] \cup {n}, q[from] \subseteq p[from],
         \A m \in q[from] : n < m
  PROVE  InLine(q)
<1> SUFFICES ASSUME NEW s \in 1..7, NEW t \in 1..7, s < t,
                    NEW k \in q[s], NEW m \in q[t]
             PROVE  k < m
  BY DEF InLine
<1>1. CASE k \in p[s] /\ m \in p[t]
  BY <1>1 DEF InLine
<1>2. CASE s = to /\ k = n
  <2>1. CASE t = from
    BY <1>2, <2>1
  <2>2. CASE t # from
    <3>1. m \in p[t] /\ from < t
      BY <1>2, <2>2
    <3> QED
      BY <1>2, <3>1 DEF InLine
  <2> QED
    BY <2>1, <2>2
<1>3. CASE t = to /\ m = n
  <2>1. k \in p[s] /\ s < from
    BY <1>3
  <2> QED
    BY <1>3, <2>1 DEF InLine
<1> QED
  BY <1>1, <1>2, <1>3

(* A new chunk comes last.                                                 *)
LEMMA LastInLine ==
  ASSUME NEW p, NEW q, InLine(p), NEW n,
         \A s \in 1..6 : q[s] = p[s] /\ \A m \in p[s] : m < n,
         q[7] = {n}
  PROVE  InLine(q)
<1> SUFFICES ASSUME NEW s \in 1..7, NEW t \in 1..7, s < t,
                    NEW k \in q[s], NEW m \in q[t]
             PROVE  k < m
  BY DEF InLine
<1>1. s \in 1..6 /\ k \in p[s] /\ s \in 1..7
  OBVIOUS
<1>2. CASE t = 7
  BY <1>1, <1>2
<1>3. CASE t \in 1..6
  BY <1>1, <1>3 DEF InLine
<1> QED
  BY <1>2, <1>3

(* Chunks move, or go away where that is no loss.                          *)
LEMMA ChunksStay ==
  ASSUME ChunksInv, produced' = produced, overwritten \subseteq overwritten',
         Increasing(delivered'), InLine(Places'),
         \A s \in 1..7 : \A n \in Places'[s] : \E t \in 1..7 : n \in Places[t],
         Whole' => Whole,
         Whole' => \A s \in 1..7 : \A n \in Places[s] :
                      n \in overwritten' \/ \E t \in 1..7 : n \in Places'[t]
  PROVE  ChunksInv'
<1>1. \A s \in 1..7 : Places'[s] \subseteq 1..produced'
  BY DEF ChunksInv
<1>2. ASSUME Whole', NEW n \in 1..produced'
      PROVE  n \in overwritten' \/ \E s \in 1..7 : n \in Places'[s]
  BY <1>2 DEF ChunksInv
<1>3. InLine(Places)'
  BY DEF InLine
<1> QED
  BY <1>1, <1>2, <1>3 DEF ChunksInv

(* No place changes.                                                       *)
LEMMA ChunksRest ==
  ASSUME ChunksInv, produced' = produced, overwritten' = overwritten,
         delivered' = delivered, ChunksOf(slot') = ChunksOf(slot),
         SameChunks(js["out"], js'["out"]), SameChunks(js["src"], js'["src"]),
         ChunksOf(<<answer'>>) = ChunksOf(<<answer>>), Whole' => Whole
  PROVE  ChunksInv'
<1>1. \A s \in 1..7 : Places'[s] = Places[s]
  BY PlacesAre, PlacesAreNext DEF SameChunks
<1>2. InLine(Places')
  BY <1>1 DEF ChunksInv, InLine
<1> QED
  BY <1>1, <1>2, ChunksStay DEF ChunksInv

-----------------------------------------------------------------------------
(* What a step leaves alone                                                *)

(* One stream changes.                                                     *)
LEMMA JsUpdate ==
  ASSUME Types, NEW s \in Streams, NEW st \in StreamRecords,
         js' = [js EXCEPT ![s] = st]
  PROVE  /\ js' \in [Streams -> StreamRecords] /\ js'[s] = st
         /\ \A t \in Streams : t # s => js'[t] = js[t]
BY DEF Types

(* The source has nothing to do with it.                                   *)
LEMMA SourceStays ==
  ASSUME SourceInv,
         UNCHANGED <<cancelled, inner, pull, answer, failed, threw>>,
         SameFlags(js["src"], js'["src"]), stopped \subseteq stopped'
  PROVE  SourceInv'
BY DEF SourceInv, SameFlags

(* The pump has nothing to do with it.                                     *)
LEMMA PumpStays ==
  ASSUME PumpInv, piped' = piped, pump' = pump, stopped \subseteq stopped',
         Whole' => Whole, ~piped => js'["out"] = js["out"],
         Finished(js["src"]) => Finished(js'["src"]),
         js'["out"].errored = js["out"].errored,
         stopped' = {} =>
            js'["out"].closeRequested = js["out"].closeRequested
  PROVE  PumpInv'
BY DEF PumpInv

(* The reader has nothing to do with it.                                   *)
LEMMA ReaderStays ==
  ASSUME ReaderInv, piped' = piped, done' = done, outcome' = outcome,
         slot' = slot, Whole' => Whole,
         Finished(js["src"]) => Finished(js'["src"]),
         Finished(js["out"]) => Finished(js'["out"])
  PROVE  ReaderInv'
BY DEF ReaderInv, Target

(* A stream that is as it was is fine.                                     *)
LEMMA SameIsFine ==
  ASSUME NEW st \in StreamRecords, StreamInv(st)
  PROVE  Fine(st, st) /\ SameChunks(st, st) /\ SameFlags(st, st)
BY DEF Fine, SameChunks, SameFlags

(* The parts of the invariant that concern the streams.                    *)
LEMMA StreamFacts ==
  ASSUME PipeInv
  PROVE  /\ js["src"] \in StreamRecords /\ js["out"] \in StreamRecords
         /\ StreamInv(js["src"]) /\ StreamInv(js["out"])
         /\ "src" \in Streams /\ "out" \in Streams
         /\ \A m \in ChunksOf(js["src"].settled),
               n \in Range(js["src"].queue) : m < n
         /\ \A m \in ChunksOf(js["out"].settled),
               n \in Range(js["out"].queue) : m < n
<1>1. /\ js["src"] \in StreamRecords /\ js["out"] \in StreamRecords
      /\ StreamInv(js["src"]) /\ StreamInv(js["out"])
      /\ "src" \in Streams /\ "out" \in Streams /\ InLine(Places)
  BY DEF PipeInv, Types, Streams, ChunksInv
<1>2. /\ \A m \in Places[5], n \in Places[6] : m < n
      /\ \A m \in Places[3], n \in Places[4] : m < n
  BY <1>1 DEF InLine
<1> QED
  BY <1>1, <1>2, PlacesAre

-----------------------------------------------------------------------------
(* Reading                                                                 *)

(* A chunk at most moves from the queue of a stream to its answered reads. *)
ReadMoves(st, s2) ==
    \/ SameChunks(st, s2)
    \/ \E n \in Range(st.queue) :
          /\ ChunksOf(s2.settled) = ChunksOf(st.settled) \cup {n}
          /\ Range(st.queue) = Range(s2.queue) \cup {n}
          /\ \A m \in Range(s2.queue) : n < m

(* ... which keeps the line.                                               *)
LEMMA ReadKeepsLine ==
  ASSUME ChunksInv,
         UNCHANGED <<answer, produced, failed, delivered, slot, overwritten,
                     piped, stopped>>,
         \/ js'["out"] = js["out"] /\ ReadMoves(js["src"], js'["src"])
         \/ js'["src"] = js["src"] /\ ReadMoves(js["out"], js'["out"])
  PROVE  ChunksInv'
<1>1. Whole' => Whole
  BY DEF Whole
<1>2. CASE /\ SameChunks(js["src"], js'["src"])
           /\ SameChunks(js["out"], js'["out"])
  BY <1>1, <1>2, ChunksRest
<1>3. ASSUME NEW from \in {4, 6}, NEW n \in Places[from],
             Places'[from - 1] = Places[from - 1] \cup {n},
             Places[from] = Places'[from] \cup {n},
             \A m \in Places'[from] : n < m,
             \A s \in 1..7 : s # from /\ s # from - 1 => Places'[s] = Places[s]
      PROVE  ChunksInv'
  <2>1. from \in 1..7 /\ from - 1 \in 1..7 /\ from - 1 < from
        /\ \A s \in 1..7 : ~(from - 1 < s /\ s < from)
    OBVIOUS
  <2>2. InLine(Places')
    <3>1. InLine(Places)
      BY DEF ChunksInv
    <3>2. /\ \A s \in 1..7 : s # from /\ s # from - 1 =>
                Places'[s] \subseteq Places[s]
          /\ Places'[from - 1] \subseteq Places[from - 1] \cup {n}
          /\ Places'[from] \subseteq Places[from]
      BY <1>3
    <3> HIDE <1>3
    <3> QED
      BY <1>3, <2>1, <3>1, <3>2, MovedInLine
  <2>3. \A s \in 1..7 : \A m \in Places'[s] : \E t \in 1..7 : m \in Places[t]
    BY <1>3, <2>1
  <2>4. \A s \in 1..7 : \A m \in Places[s] : \E t \in 1..7 : m \in Places'[t]
    BY <1>3, <2>1
  <2> QED
    BY <1>1, <2>2, <2>3, <2>4, ChunksStay DEF ChunksInv
<1>4. ASSUME js'["out"] = js["out"], NEW n \in Range(js["src"].queue),
             ChunksOf(js'["src"].settled)
                = ChunksOf(js["src"].settled) \cup {n},
             Range(js["src"].queue) = Range(js'["src"].queue) \cup {n},
             \A m \in Range(js'["src"].queue) : n < m
      PROVE  ChunksInv'
  <2>1. /\ n \in Places[6] /\ Places'[5] = Places[5] \cup {n}
        /\ Places[6] = Places'[6] \cup {n} /\ \A m \in Places'[6] : n < m
        /\ \A s \in 1..7 : s # 6 /\ s # 5 => Places'[s] = Places[s]
    BY <1>4, PlacesAre, PlacesAreNext
  <2>2. 6 - 1 = 5
    OBVIOUS
  <2> QED
    BY <1>3, <2>1, <2>2
<1>5. ASSUME js'["src"] = js["src"], NEW n \in Range(js["out"].queue),
             ChunksOf(js'["out"].settled)
                = ChunksOf(js["out"].settled) \cup {n},
             Range(js["out"].queue) = Range(js'["out"].queue) \cup {n},
             \A m \in Range(js'["out"].queue) : n < m
      PROVE  ChunksInv'
  <2>1. /\ n \in Places[4] /\ Places'[3] = Places[3] \cup {n}
        /\ Places[4] = Places'[4] \cup {n} /\ \A m \in Places'[4] : n < m
        /\ \A s \in 1..7 : s # 4 /\ s # 3 => Places'[s] = Places[s]
    BY <1>5, PlacesAre, PlacesAreNext
  <2>2. 4 - 1 = 3
    OBVIOUS
  <2> QED
    BY <1>3, <2>1, <2>2
<1> QED
  BY <1>2, <1>4, <1>5 DEF ReadMoves, SameChunks

-----------------------------------------------------------------------------
(* The steps                                                               *)

(* The first chunk of a place goes to an earlier one, as MovedInLine says. *)
LEMMA ChunkMoves ==
  ASSUME ChunksInv, NEW from \in 1..7, NEW to \in 1..7, to < from,
         NEW n \in Places[from], produced' = produced,
         overwritten \subseteq overwritten', Increasing(delivered'),
         Whole' => Whole,
         \A s \in 1..7 : to < s /\ s < from => Places[s] = {},
         \A s \in 1..7 : s # from /\ s # to => Places'[s] = Places[s],
         n \in Places'[to], Places'[to] \subseteq Places[to] \cup {n},
         \A m \in Places[to] : m \in Places'[to] \/ m \in overwritten',
         Places[from] = Places'[from] \cup {n}, \A m \in Places'[from] : n < m
  PROVE  ChunksInv'
<1>1. InLine(Places')
  <2>1. /\ InLine(Places)
        /\ \A s \in 1..7 : s # from /\ s # to => Places'[s] \subseteq Places[s]
        /\ Places'[from] \subseteq Places[from]
    BY DEF ChunksInv
  <2> QED
    BY <2>1, MovedInLine
<1>2. \A s \in 1..7 : \A m \in Places'[s] : \E t \in 1..7 : m \in Places[t]
  <2> SUFFICES ASSUME NEW s \in 1..7, NEW m \in Places'[s]
               PROVE  \E t \in 1..7 : m \in Places[t]
    OBVIOUS
  <2>1. m \in Places[s] \/ m = n
    BY DEF ChunksInv
  <2> QED
    BY <2>1
<1>3. \A s \in 1..7 : \A m \in Places[s] :
         m \in overwritten' \/ \E t \in 1..7 : m \in Places'[t]
  <2> SUFFICES ASSUME NEW s \in 1..7, NEW m \in Places[s]
               PROVE  m \in overwritten' \/ \E t \in 1..7 : m \in Places'[t]
    OBVIOUS
  <2>1. m \in Places'[s] \/ m = n \/ m \in overwritten'
    OBVIOUS
  <2> QED
    BY <2>1
<1> QED
  BY <1>1, <1>2, <1>3, ChunksStay

(* Chunks are lost only where that is told.                                *)
LEMMA ChunksLost ==
  ASSUME ChunksInv, produced' = produced, overwritten \subseteq overwritten',
         Increasing(delivered'), ~Whole',
         \A s \in 1..7 : Places'[s] \subseteq Places[s]
  PROVE  ChunksInv'
<1>1. InLine(Places')
  BY FewerInLine DEF ChunksInv
<1>2. \A s \in 1..7 : \A n \in Places'[s] : \E t \in 1..7 : n \in Places[t]
  OBVIOUS
<1> QED
  BY <1>1, <1>2, ChunksStay

(* A future gets the Mutex.                                                *)
LEMMA StepPullLocks ==
  ASSUME PipeInv, Future, PullLocks
  PROVE  PipeInv'
<1> USE DEF PipeInv
<1>1. /\ js' = js /\ cancelled' = cancelled /\ inner' = inner
      /\ produced' = produced /\ failed' = failed /\ threw' = threw
      /\ rpc' = rpc /\ slot' = slot /\ done' = done /\ calls' = calls
      /\ wakers' = wakers /\ woken' = woken /\ spurious' = spurious
      /\ delivered' = delivered /\ outcome' = outcome
      /\ overwritten' = overwritten /\ piped' = piped /\ pump' = pump
      /\ stopped' = stopped /\ gone' = gone
      /\ pull = "spawned" /\ pull' \in {"awaiting", "answered"}
      /\ answer' = answer \/ answer' = EndResult
  BY DEF PullLocks, readerVars, Future
<1>2. Types'
  BY <1>1, ResultKinds DEF Types, PullStates, Has
<1>3. SourceInv'
  BY <1>1, ResultKinds DEF SourceInv, PullLocks, Types
<1>4. PumpInv' /\ ReaderInv' /\ StreamInv(js["src"])' /\ StreamInv(js["out"])'
  BY <1>1 DEF PumpInv, ReaderInv, StreamInv, Whole, Target
<1>5. ChunksInv'
  <2>1. answer.kind # "chunk" /\ answer \in Results /\ answer' \in Results
        /\ answer'.kind # "chunk"
    BY <1>1, ResultKinds DEF SourceInv, Types
  <2>2. ChunksOf(<<answer>>) = {}
    BY <2>1, AnswerChunks
  <2>3. ChunksOf(<<answer'>>) = {}
    BY <2>1, AnswerChunks
  <2> QED
    BY <1>1, <2>2, <2>3, ChunksRest DEF SameChunks, Whole
<1> QED
  BY <1>2, <1>3, <1>4, <1>5

(* The Rust stream answers.                                                *)
LEMMA StepAnswer ==
  ASSUME PipeInv, Future, Answer
  PROVE  PipeInv'
<1> USE DEF PipeInv
<1>1. /\ js' = js /\ cancelled' = cancelled /\ inner' = inner
      /\ threw' = threw
      /\ rpc' = rpc /\ slot' = slot /\ done' = done /\ calls' = calls
      /\ wakers' = wakers /\ woken' = woken /\ spurious' = spurious
      /\ delivered' = delivered /\ outcome' = outcome
      /\ overwritten' = overwritten /\ piped' = piped /\ pump' = pump
      /\ stopped' = stopped /\ gone' = gone
      /\ pull = "awaiting" /\ pull' = "answered"
  BY DEF Answer, readerVars, Future
<1>2. \/ /\ produced < MaxChunks /\ produced' = produced + 1
         /\ answer' = Chunk(produced + 1) /\ failed' = failed
      \/ answer' = EndResult /\ produced' = produced /\ failed' = failed
      \/ answer' = ErrorResult /\ failed' = TRUE /\ produced' = produced
  BY DEF Answer
<1>3. answer' \in Results /\ produced' \in 0..MaxChunks
  <2>1. produced \in 0..MaxChunks /\ MaxChunks \in Nat
    BY ChunksAssumption DEF Types
  <2>2. produced < MaxChunks => produced + 1 \in 1..MaxChunks
    BY <2>1
  <2> QED
    BY <1>2, <2>1, <2>2, ResultKinds
<1>4. Types'
  BY <1>1, <1>2, <1>3 DEF Types, PullStates, Has
<1>5. SourceInv'
  <2>1. ~js["src"].errored /\ ~failed /\ threw = FALSE
    BY <1>1, ResultKinds DEF SourceInv, Types
  <2>2. js["src"].closeRequested => cancelled
    BY <1>1 DEF SourceInv
  <2>3. answer'.kind = "error" <=> failed'
    BY <1>2, <2>1, ResultKinds
  <2> QED
    BY <1>1, <2>1, <2>2, <2>3 DEF SourceInv
<1>6. /\ PumpInv' /\ ReaderInv' /\ StreamInv(js["src"])'
      /\ StreamInv(js["out"])'
  BY <1>1, <1>2 DEF PumpInv, ReaderInv, StreamInv, Whole, Target
<1>7. Whole' => Whole
  BY <1>1, <1>2 DEF Whole
<1>8. ChunksOf(<<answer>>) = {}
  BY <1>1, AnswerChunks DEF SourceInv, Types
<1>9. ChunksInv'
  <2>1. CASE answer'.kind # "chunk"
    <3>1. ChunksOf(<<answer'>>) = {}
      BY <1>3, <2>1, AnswerChunks
    <3>2. produced' = produced
      BY <1>2, <2>1, ResultKinds
    <3> QED
      BY <1>1, <1>7, <1>8, <3>1, <3>2, ChunksRest DEF SameChunks
  <2>2. CASE answer'.kind = "chunk"
    <3>1. produced' = produced + 1 /\ answer' = Chunk(produced')
          /\ produced \in Nat
      BY <1>2, <2>2, ResultKinds DEF Types
    <3>2. ChunksOf(<<answer'>>) = {produced'}
      BY <1>3, <2>2, <3>1, AnswerChunks, ResultKinds
    <3>3. /\ \A s \in 1..6 : Places'[s] = Places[s]
          /\ Places'[7] = {produced'} /\ Places[7] = {}
      BY <1>1, <1>8, <3>2, PlacesAre, PlacesAreNext
    <3>4. \A s \in 1..7 : Places[s] \subseteq 1..produced
      BY DEF ChunksInv
    <3>5. InLine(Places')
      <4>1. \A s \in 1..6 : s \in 1..7
        OBVIOUS
      <4>2. \A s \in 1..6 : \A m \in Places[s] : m < produced'
        BY <3>1, <3>4, <4>1
      <4>3. InLine(Places)
        BY DEF ChunksInv
      <4> QED
        BY <3>3, <4>2, <4>3, LastInLine
    <3>6. InLine(Places)'
      BY <3>5 DEF InLine
    <3>7. \A s \in 1..7 : Places'[s] \subseteq 1..produced'
      <4> SUFFICES ASSUME NEW s \in 1..7, NEW m \in Places'[s]
                   PROVE  m \in 1..produced'
        OBVIOUS
      <4>1. CASE s = 7
        BY <3>1, <3>3, <4>1
      <4>2. CASE s \in 1..6
        BY <3>1, <3>3, <3>4, <4>2
      <4> QED
        BY <4>1, <4>2
    <3>8. ASSUME Whole', NEW n \in 1..produced'
          PROVE  n \in overwritten' \/ \E s \in 1..7 : n \in Places'[s]
      <4>1. CASE n = produced'
        BY <3>3, <4>1
      <4>2. CASE n \in 1..produced
        <5>1. n \in overwritten \/ \E s \in 1..7 : n \in Places[s]
          BY <1>7, <3>8, <4>2 DEF ChunksInv
        <5>2. \A s \in 1..7 : Places[s] \subseteq Places'[s]
          BY <3>3
        <5> QED
          BY <1>1, <5>1, <5>2
      <4> QED
        BY <3>1, <4>1, <4>2
    <3>9. Increasing(delivered)'
      BY <1>1 DEF ChunksInv, Increasing
    <3> QED
      BY <3>6, <3>7, <3>8, <3>9 DEF ChunksInv
  <2> QED
    BY <2>1, <2>2
<1> QED
  BY <1>4, <1>5, <1>6, <1>9

(* The resolver runs, or the rejection of a failed future.                 *)
LEMMA StepResolve ==
  ASSUME PipeInv, PullPromise, Resolve
  PROVE  PipeInv'
<1> USE DEF PipeInv
<1>1. /\ cancelled' = cancelled /\ produced' = produced /\ failed' = failed
      /\ rpc' = rpc /\ slot' = slot /\ done' = done /\ calls' = calls
      /\ wakers' = wakers /\ woken' = woken /\ spurious' = spurious
      /\ delivered' = delivered /\ outcome' = outcome
      /\ overwritten' = overwritten /\ piped' = piped /\ pump' = pump
      /\ stopped' = stopped /\ gone' = gone
      /\ pull = "answered" /\ answer' = EndResult
  BY DEF Resolve, readerVars, PullPromise
<1>2. /\ ~js["src"].errored /\ (js["src"].closeRequested => cancelled)
      /\ (failed <=> answer.kind = "error")
      /\ answer \in Results
  BY <1>1 DEF SourceInv, Types
<1>3. Whole' <=> Whole
  BY <1>1 DEF Whole
<1>4. ChunksOf(<<answer'>>) = {} /\ answer' \in Results
  BY <1>1, ResultKinds, AnswerChunks
<1>5. CASE /\ answer.kind = "error" /\ pull' = "rejected"
           /\ js' = js /\ inner' = inner /\ threw' = threw
  <2>1. Types'
    BY <1>1, <1>4, <1>5 DEF Types, PullStates, Has
  <2>2. SourceInv'
    BY <1>1, <1>2, <1>5, ResultKinds DEF SourceInv
  <2>3. /\ PumpInv' /\ ReaderInv' /\ StreamInv(js["src"])'
        /\ StreamInv(js["out"])'
    BY <1>1, <1>3, <1>5 DEF PumpInv, ReaderInv, StreamInv, Target
  <2>4. ChunksOf(<<answer>>) = {}
    BY <1>2, <1>5, AnswerChunks
  <2>5. ChunksInv'
    BY <1>1, <1>3, <1>4, <1>5, <2>4, ChunksRest DEF SameChunks
  <2> QED
    BY <2>1, <2>2, <2>3, <2>5
<1>6. CASE /\ answer.kind # "error" /\ cancelled /\ pull' = "fulfilled"
           /\ js' = js /\ inner' = inner /\ threw' = threw
  <2>1. Types'
    BY <1>1, <1>4, <1>6 DEF Types, PullStates, Has
  <2>2. SourceInv'
    BY <1>1, <1>2, <1>6, ResultKinds DEF SourceInv
  <2>3. /\ PumpInv' /\ ReaderInv' /\ StreamInv(js["src"])'
        /\ StreamInv(js["out"])'
    BY <1>1, <1>3, <1>6 DEF PumpInv, ReaderInv, StreamInv, Target
  <2>4. ~Whole' /\ Increasing(delivered')
    BY <1>1, <1>6 DEF SourceInv, Whole, ChunksInv
  <2>5. \A s \in 1..7 : Places'[s] \subseteq Places[s]
    BY <1>1, <1>4, <1>6, PlacesAre, PlacesAreNext
  <2>6. ChunksInv'
    BY <1>1, <2>4, <2>5, ChunksLost
  <2> QED
    BY <2>1, <2>2, <2>3, <2>6
<1>7. CASE /\ answer.kind = "chunk" /\ ~cancelled
           /\ threw' = ~IsReadable(js["src"])
           /\ pull' = IF threw' THEN "rejected" ELSE "fulfilled"
           /\ js' = IF threw' THEN js
                    ELSE [js EXCEPT !["src"] = Enqueued(@, answer.n)]
           /\ inner' = inner
  <2> DEFINE st == js["src"]
             s2 == Enqueued(st, answer.n)
  <2>1. /\ IsReadable(st) /\ threw' = FALSE /\ pull' = "fulfilled"
        /\ js' = [js EXCEPT !["src"] = s2]
    BY <1>2, <1>7 DEF IsReadable
  <2>2. answer.n \in 1..MaxChunks /\ ChunksOf(<<answer>>) = {answer.n}
    BY <1>2, <1>7, ResultKinds, AnswerChunks
  <2>3. st \in StreamRecords /\ StreamInv(st) /\ "src" \in Streams
        /\ js["out"] \in StreamRecords /\ StreamInv(js["out"])
    BY StreamFacts
  <2>4. InLine(Places)
    BY DEF ChunksInv
  <2>5. /\ \A m \in Places[5], n \in Places[7] : m < n
        /\ \A m \in Places[6], n \in Places[7] : m < n
    BY <2>4 DEF InLine
  <2>6. /\ \A m \in ChunksOf(st.settled) : m < answer.n
        /\ \A m \in Range(st.queue) : m < answer.n
    BY <2>2, <2>5, PlacesAre
  <2>7. /\ Fine(st, s2) /\ SameFlags(st, s2)
        /\ \/ /\ Range(st.queue) = {} /\ Range(s2.queue) = {}
              /\ ChunksOf(s2.settled) = ChunksOf(st.settled) \cup {answer.n}
           \/ /\ ChunksOf(s2.settled) = ChunksOf(st.settled)
              /\ Range(s2.queue) = Range(st.queue) \cup {answer.n}
    <3> HIDE DEF st, s2
    <3>1. ASSUME NEW x, x = Enqueued(st, answer.n)
          PROVE  /\ Fine(st, x) /\ SameFlags(st, x)
                 /\ \/ /\ Range(st.queue) = {} /\ Range(x.queue) = {}
                       /\ ChunksOf(x.settled)
                             = ChunksOf(st.settled) \cup {answer.n}
                    \/ /\ ChunksOf(x.settled) = ChunksOf(st.settled)
                       /\ Range(x.queue) = Range(st.queue) \cup {answer.n}
      BY <2>1, <2>2, <2>3, <2>6, <3>1, EnqueuedDoes
    <3> QED
      BY <3>1 DEF s2
  <2> HIDE DEF s2
  <2>8. /\ js' \in [Streams -> StreamRecords] /\ js'["src"] = s2
        /\ js'["out"] = js["out"] /\ s2 \in StreamRecords
        /\ StreamInv(s2) /\ (Finished(st) => Finished(s2))
    BY <2>1, <2>3, <2>7, JsUpdate DEF Fine, Streams
  <2>9. Types'
    BY <1>1, <1>4, <1>7, <2>1, <2>8 DEF Types, PullStates, Has
  <2>10. SourceInv'
    BY <1>1, <1>2, <1>7, <2>1, <2>7, <2>8, ResultKinds DEF SourceInv, SameFlags
  <2>11. PumpInv'
    BY <1>1, <1>3, <2>8, PumpStays
  <2>12. ReaderInv'
    BY <1>1, <1>3, <2>8, ReaderStays
  <2>13. StreamInv(js["src"])' /\ StreamInv(js["out"])'
    BY <2>3, <2>8 DEF StreamInv
  <2>14. /\ \A s \in {1, 2, 3, 4} : Places'[s] = Places[s]
         /\ Places[7] = {answer.n} /\ Places'[7] = {}
         /\ Places[5] = ChunksOf(st.settled) /\ Places[6] = Range(st.queue)
         /\ Places'[5] = ChunksOf(s2.settled) /\ Places'[6] = Range(s2.queue)
    BY <1>1, <1>4, <2>2, <2>8, PlacesAre, PlacesAreNext
  <2>15. ChunksInv'
    <3>1. Increasing(delivered')
      BY <1>1 DEF ChunksInv
    <3>2. ASSUME NEW to \in {5, 6}, to = 5 => Places[6] = {},
                 Places'[to] = Places[to] \cup {answer.n},
                 \A s \in {5, 6} : s # to => Places'[s] = Places[s]
          PROVE  ChunksInv'
      <4>1. /\ to \in 1..7 /\ 7 \in 1..7 /\ to < 7 /\ answer.n \in Places[7]
            /\ \A s \in 1..7 : to < s /\ s < 7 => Places[s] = {}
            /\ \A s \in 1..7 : s # 7 /\ s # to => Places'[s] = Places[s]
            /\ Places[7] = Places'[7] \cup {answer.n}
            /\ \A m \in Places'[7] : answer.n < m
        BY <2>14, <3>2
      <4>2. /\ answer.n \in Places'[to]
            /\ Places'[to] \subseteq Places[to] \cup {answer.n}
            /\ \A m \in Places[to] : m \in Places'[to]
        BY <3>2
      <4> QED
        BY <1>1, <1>3, <3>1, <4>1, <4>2, ChunkMoves
    <3> QED
      BY <2>7, <2>14, <3>2
  <2> QED
    BY <2>9, <2>10, <2>11, <2>12, <2>13, <2>15
<1>8. CASE /\ answer.kind = "done" /\ ~cancelled
           /\ js' = [js EXCEPT !["src"] = Closed(@)]
           /\ inner' = FALSE /\ pull' = "fulfilled" /\ threw' = threw
  <2> DEFINE st == js["src"]
             s2 == Closed(st)
  <2>1. st \in StreamRecords /\ StreamInv(st) /\ "src" \in Streams
        /\ js["out"] \in StreamRecords /\ StreamInv(js["out"])
    BY StreamFacts
  <2>2. /\ Fine(st, s2) /\ SameChunks(st, s2) /\ s2.closeRequested = TRUE
        /\ s2.errored = st.errored /\ s2.pulling = st.pulling
    BY <2>1, ClosedDoes
  <2>3. js' = [js EXCEPT !["src"] = s2]
    BY <1>8
  <2> HIDE DEF s2
  <2>4. /\ js' \in [Streams -> StreamRecords] /\ js'["src"] = s2
        /\ js'["out"] = js["out"] /\ s2 \in StreamRecords
        /\ StreamInv(s2) /\ (Finished(st) => Finished(s2))
    BY <2>1, <2>2, <2>3, JsUpdate DEF Fine, Streams
  <2>5. Types'
    BY <1>1, <1>4, <1>8, <2>4 DEF Types, PullStates, Has
  <2>6. SourceInv'
    BY <1>1, <1>2, <1>8, <2>2, <2>4, ResultKinds DEF SourceInv
  <2>7. PumpInv'
    BY <1>1, <1>3, <2>4, PumpStays
  <2>8. ReaderInv'
    BY <1>1, <1>3, <2>4, ReaderStays
  <2>9. StreamInv(js["src"])' /\ StreamInv(js["out"])'
    BY <2>1, <2>4 DEF StreamInv
  <2>10. ChunksOf(<<answer>>) = {}
    BY <1>2, <1>8, AnswerChunks
  <2>11. SameChunks(js["src"], js'["src"]) /\ SameChunks(js["out"], js'["out"])
    BY <2>2, <2>4 DEF SameChunks
  <2>12. ChunksInv'
    BY <1>1, <1>3, <1>4, <2>10, <2>11, ChunksRest
  <2> QED
    BY <2>5, <2>6, <2>7, <2>8, <2>9, <2>12
<1> QED
  BY <1>5, <1>6, <1>7, <1>8 DEF Resolve

(* The stream hears of the pull, and may pull again.                       *)
LEMMA StepPullReacts ==
  ASSUME PipeInv, PullPromise, PullReacts
  PROVE  PipeInv'
<1> USE DEF PipeInv
<1> DEFINE st == js["src"]
           caught == IF pull = "rejected" THEN Errored(st) ELSE st
           rest == [caught EXCEPT !.pulling = FALSE]
           s2 == js'["src"]
<1>1. /\ cancelled' = cancelled /\ produced' = produced /\ failed' = failed
      /\ inner' = inner /\ answer' = answer /\ threw' = threw
      /\ rpc' = rpc /\ slot' = slot /\ done' = done /\ calls' = calls
      /\ wakers' = wakers /\ woken' = woken /\ spurious' = spurious
      /\ delivered' = delivered /\ outcome' = outcome
      /\ overwritten' = overwritten /\ piped' = piped /\ pump' = pump
      /\ stopped' = stopped /\ gone' = gone
      /\ pull \in {"fulfilled", "rejected"}
  BY DEF PullReacts, readerVars, PullPromise
<1>2. /\ ~st.errored /\ answer.kind # "chunk"
      /\ (failed <=> pull = "rejected")
  BY <1>1 DEF SourceInv, Types
<1>3. st \in StreamRecords /\ StreamInv(st) /\ "src" \in Streams
      /\ js["out"] \in StreamRecords /\ StreamInv(js["out"])
  BY StreamFacts
<1>4. /\ Fine(st, caught) /\ SameChunks(st, caught)
      /\ caught.closeRequested = st.closeRequested
      /\ caught.errored = (pull = "rejected")
  <2>1. CASE pull = "rejected"
    <3>1. caught = Errored(st)
      BY <2>1
    <3> HIDE DEF caught
    <3>2. /\ Fine(st, caught) /\ SameChunks(st, caught)
          /\ caught.errored = TRUE
          /\ caught.closeRequested = st.closeRequested
      BY <1>3, <3>1, ErroredDoes
    <3> QED
      BY <2>1, <3>2
  <2>2. CASE pull # "rejected"
    <3>1. caught = st
      BY <2>2
    <3>2. Fine(st, st) /\ SameChunks(st, st)
      BY <1>3, SameIsFine
    <3>3. st.errored = FALSE
      BY <1>2, <1>3, Fields
    <3> QED
      BY <2>2, <3>1, <3>2, <3>3
  <2> QED
    BY <2>1, <2>2
<1> HIDE DEF caught
<1>5. ASSUME NEW b \in BOOLEAN, NEW x, x = [caught EXCEPT !.pulling = b]
      PROVE  /\ Fine(st, x) /\ SameChunks(st, x) /\ x.pulling = b
             /\ x.closeRequested = st.closeRequested
             /\ x.errored = (pull = "rejected")
  <2>1. caught \in StreamRecords /\ StreamInv(caught)
    BY <1>4 DEF Fine
  <2>2. /\ Fine(caught, x) /\ SameChunks(caught, x) /\ x.pulling = b
        /\ x.closeRequested = caught.closeRequested
        /\ x.errored = caught.errored
    BY <1>5, <2>1, PullingDoes
  <2> QED
    BY <1>4, <2>2 DEF Fine, SameChunks
<1>6. \/ /\ pull' = "spawned" /\ NeedsPull(rest)
         /\ js' = [js EXCEPT !["src"] = [rest EXCEPT !.pulling = TRUE]]
      \/ /\ pull' = "none" /\ js' = [js EXCEPT !["src"] = rest]
  BY DEF PullReacts, caught
<1>7. /\ [rest EXCEPT !.pulling = TRUE] = [caught EXCEPT !.pulling = TRUE]
      /\ rest.errored = caught.errored
      /\ rest.closeRequested = caught.closeRequested
  BY <1>4 DEF Fine, StreamRecords
<1>8. \E b \in BOOLEAN : /\ b = (pull' # "none")
                         /\ js' = [js EXCEPT !["src"] =
                                      [caught EXCEPT !.pulling = b]]
  BY <1>6, <1>7
<1>9. /\ js' \in [Streams -> StreamRecords] /\ js'["out"] = js["out"]
      /\ Fine(st, s2) /\ SameChunks(st, s2)
      /\ s2.pulling = (pull' # "none")
      /\ s2.closeRequested = st.closeRequested
      /\ s2.errored = (pull = "rejected")
  <2>1. PICK b \in BOOLEAN : /\ b = (pull' # "none")
                             /\ js' = [js EXCEPT !["src"] =
                                          [caught EXCEPT !.pulling = b]]
    BY <1>8
  <2> DEFINE x == [caught EXCEPT !.pulling = b]
  <2>2. /\ Fine(st, x) /\ SameChunks(st, x) /\ x.pulling = b
        /\ x.closeRequested = st.closeRequested
        /\ x.errored = (pull = "rejected")
    BY <1>5
  <2>3. js' = [js EXCEPT !["src"] = x]
    BY <2>1
  <2> HIDE DEF x
  <2>4. /\ js' \in [Streams -> StreamRecords] /\ js'["src"] = x
        /\ js'["out"] = js["out"]
    BY <1>3, <2>2, <2>3, JsUpdate DEF Fine, Streams
  <2> QED
    BY <2>1, <2>2, <2>4
<1>10. pull' \in {"none", "spawned"}
       /\ (pull' = "spawned" => pull # "rejected" /\ ~st.closeRequested)
  BY <1>4, <1>6, <1>7 DEF NeedsPull, IsReadable
<1> HIDE DEF s2, rest
<1>11. Types'
  BY <1>1, <1>9, <1>10 DEF Types, PullStates, Has
<1>12. SourceInv'
  <2>1. js'["src"].pulling = (pull' # "none") /\ ~threw'
    BY <1>1, <1>9 DEF s2, SourceInv
  <2>2. answer'.kind # "chunk"
    BY <1>1, <1>2
  <2>3. js'["src"].closeRequested => cancelled' \/ pull' = "none"
    BY <1>9, <1>10 DEF s2
  <2>4. /\ js'["src"].errored <=> pull = "rejected"
        /\ js'["src"].errored => pull' = "none"
    BY <1>9, <1>10 DEF s2
  <2>5. /\ js'["src"].errored <=> failed'
        /\ pull' # "rejected" /\ (answer'.kind = "error" => failed')
    BY <1>1, <1>2, <1>10, <2>4 DEF SourceInv
  <2>6. /\ cancelled' => "src" \in stopped'
        /\ "src" \notin stopped' =>
              /\ js'["src"].closeRequested <=> ~inner'
              /\ js'["src"].closeRequested => ~failed'
    BY <1>1, <1>9 DEF s2, SourceInv
  <2> QED
    BY <2>1, <2>2, <2>3, <2>4, <2>5, <2>6 DEF SourceInv
<1>13. Whole' <=> Whole
  BY <1>1 DEF Whole
<1>14. PumpInv'
  BY <1>1, <1>9, <1>13, PumpStays DEF Fine, s2
<1>15. ReaderInv'
  BY <1>1, <1>9, <1>13, ReaderStays DEF Fine, s2
<1>16. StreamInv(js["src"])' /\ StreamInv(js["out"])'
  BY <1>3, <1>9 DEF StreamInv, Fine, s2
<1>17. ChunksInv'
  BY <1>1, <1>9, <1>13, ChunksRest DEF SameChunks, s2
<1> QED
  BY <1>11, <1>12, <1>14, <1>15, <1>16, <1>17

(* JavaScript cancels a stream: its chunks are lost.                       *)
LEMMA StepCancel ==
  ASSUME PipeInv, NEW s \in Streams, Cancel(s)
  PROVE  PipeInv'
<1> USE DEF PipeInv
<1> DEFINE st == js[s]
           s2 == Cancelled(st)
<1>1. /\ produced' = produced /\ failed' = failed /\ pull' = pull
      /\ answer' = answer /\ threw' = threw
      /\ rpc' = rpc /\ slot' = slot /\ done' = done /\ calls' = calls
      /\ wakers' = wakers /\ woken' = woken /\ spurious' = spurious
      /\ delivered' = delivered /\ outcome' = outcome
      /\ overwritten' = overwritten /\ piped' = piped /\ pump' = pump
      /\ stopped' = stopped \cup {s} /\ gone' = gone
  BY DEF Cancel, CancelSource, readerVars, srcVars
<1>2. /\ js' = [js EXCEPT ![s] = s2]
      /\ s = "src" =>
           IF st.closeRequested THEN cancelled' = cancelled /\ inner' = inner
           ELSE cancelled' = TRUE /\ inner' = (inner /\ pull = "awaiting")
      /\ s = "out" => piped /\ cancelled' = cancelled /\ inner' = inner
  BY DEF Cancel, CancelSource, srcVars
<1>3. st \in StreamRecords /\ StreamInv(st) /\ s \in {"src", "out"}
  BY StreamFacts DEF Streams
<1>4. /\ Fine(st, s2) /\ s2.closeRequested = TRUE
      /\ s2.errored = st.errored /\ s2.pulling = st.pulling
      /\ ChunksOf(s2.settled) = ChunksOf(st.settled)
      /\ Range(s2.queue) \subseteq Range(st.queue)
  BY <1>3, CancelledDoes
<1> HIDE DEF s2
<1>5. /\ js' \in [Streams -> StreamRecords] /\ js'[s] = s2
      /\ \A t \in Streams : t # s => js'[t] = js[t]
  BY <1>2, <1>3, <1>4, JsUpdate DEF Fine
<1>6. ~Whole' /\ (Whole' => Whole)
  BY <1>1 DEF Whole
<1>7. cancelled' \in BOOLEAN /\ inner' \in BOOLEAN
  BY <1>2, <1>3 DEF Types
<1>8. Types'
  BY <1>1, <1>5, <1>7 DEF Types, Has
<1>9. SourceInv'
  <2>1. CASE s = "src"
    <3>1. /\ js'["src"].pulling = (pull' # "none") /\ ~threw'
          /\ answer'.kind = "chunk" => pull' = "answered"
          /\ js'["src"].errored => pull' = "none"
          /\ js'["src"].errored \/ pull' = "rejected" \/ answer'.kind = "error"
                => failed'
          /\ failed' => \/ js'["src"].errored \/ pull' = "rejected"
                        \/ pull' = "answered" /\ answer'.kind = "error"
      BY <1>1, <1>4, <1>5, <2>1 DEF SourceInv
    <3>2. js'["src"].closeRequested =>
             cancelled' \/ pull' \in {"none", "fulfilled"}
      BY <1>1, <1>2, <2>1 DEF SourceInv
    <3>3. "src" \in stopped'
      BY <1>1, <2>1
    <3> QED
      BY <3>1, <3>2, <3>3 DEF SourceInv
  <2>2. CASE s = "out"
    <3>1. js'["src"] = js["src"]
      BY <1>5, <2>2 DEF Streams
    <3> QED
      BY <1>1, <1>2, <2>2, <3>1, SourceStays DEF SameFlags
  <2> QED
    BY <1>3, <2>1, <2>2
<1>10. PumpInv'
  <2>1. ~piped => js'["out"] = js["out"]
    BY <1>2, <1>3, <1>5 DEF Streams
  <2>2. js'["out"].errored = js["out"].errored
        /\ (Finished(js["src"]) => Finished(js'["src"]))
    BY <1>3, <1>4, <1>5 DEF Fine, Streams
  <2> QED
    BY <1>1, <1>6, <2>1, <2>2, PumpStays
<1>11. ReaderInv'
  BY <1>6 DEF ReaderInv
<1>12. StreamInv(js["src"])' /\ StreamInv(js["out"])'
  <2>1. StreamInv(js'["src"]) /\ StreamInv(js'["out"])
    BY <1>3, <1>4, <1>5 DEF Fine, Streams
  <2> QED
    BY <2>1 DEF StreamInv
<1>13. ChunksInv'
  <2>1. \A t \in Streams :
           /\ ChunksOf(js'[t].settled) = ChunksOf(js[t].settled)
           /\ Range(js'[t].queue) \subseteq Range(js[t].queue)
    BY <1>4, <1>5
  <2>2. \A t \in 1..7 : Places'[t] \subseteq Places[t]
    BY <1>1, <2>1, PlacesAre, PlacesAreNext DEF Streams
  <2>3. Increasing(delivered')
    BY <1>1 DEF ChunksInv
  <2> QED
    BY <1>1, <1>6, <2>2, <2>3, ChunksLost
<1> QED
  BY <1>8, <1>9, <1>10, <1>11, <1>12, <1>13

(* The finally callback wakes the task, the environment ends, or nothing   *)
(* happens.                                                                *)
LEMMA StepRest ==
  ASSUME PipeInv, WakeReader \/ EnvEnds \/ UNCHANGED vars
  PROVE  PipeInv'
<1> USE DEF PipeInv
<1>1. /\ js' = js /\ cancelled' = cancelled /\ inner' = inner /\ pull' = pull
      /\ answer' = answer /\ produced' = produced /\ failed' = failed
      /\ threw' = threw /\ rpc' = rpc /\ slot' = slot /\ done' = done
      /\ calls' = calls /\ spurious' = spurious
      /\ delivered' = delivered /\ outcome' = outcome
      /\ overwritten' = overwritten /\ piped' = piped /\ pump' = pump
      /\ stopped' = stopped
  BY DEF WakeReader, Wake, EnvEnds, vars, srcVars, readerVars
<1>2. /\ wakers' = wakers \/ (wakers > 0 /\ wakers' = wakers - 1)
      /\ woken' = woken \/ woken' = TRUE
      /\ gone' = gone \/ gone' = TRUE
  BY DEF WakeReader, Wake, EnvEnds, vars, readerVars
<1>3. wakers' \in Nat /\ woken' \in BOOLEAN /\ gone' \in BOOLEAN
  <2>1. wakers \in Nat /\ woken \in BOOLEAN /\ gone \in BOOLEAN
    BY DEF Types
  <2>2. wakers' \in Nat
    BY <1>2, <2>1
  <2> QED
    BY <1>2, <2>1, <2>2
<1>4. Types'
  BY <1>1, <1>3 DEF Types, Has
<1>5. SourceInv' /\ PumpInv' /\ ReaderInv'
  BY <1>1 DEF SourceInv, PumpInv, ReaderInv, Whole, Target
<1>6. StreamInv(js["src"])' /\ StreamInv(js["out"])'
  BY <1>1 DEF StreamInv
<1>7. ChunksInv'
  BY <1>1, ChunksRest DEF SameChunks, Whole
<1> QED
  BY <1>4, <1>5, <1>6, <1>7

(* read() is called by the pump or by the reader.                          *)
LEMMA StepRead ==
  ASSUME PipeInv,
         \/ PumpRead
         \/ ReadCalled
  PROVE  PipeInv'
<1> USE DEF PipeInv
<1>1. /\ cancelled' = cancelled /\ inner' = inner /\ answer' = answer
      /\ produced' = produced /\ failed' = failed /\ threw' = threw
      /\ rpc' = rpc /\ slot' = slot /\ done' = done /\ wakers' = wakers
      /\ woken' = woken /\ spurious' = spurious /\ delivered' = delivered
      /\ outcome' = outcome /\ overwritten' = overwritten
      /\ piped' = piped /\ stopped' = stopped /\ gone' = gone
  BY DEF PumpRead, ReadCalled, Read, readerVars
<1>2. /\ calls' = calls \/ (calls > 0 /\ calls' = calls - 1)
      /\ \/ pump' = pump
         \/ pump = "reading" /\ pump' = "waiting"
      /\ \/ Read("src")
         \/ piped /\ Read("out")
  BY DEF PumpRead, ReadCalled, Target, readerVars
<1>3. Whole' <=> Whole
  BY <1>1 DEF Whole
<1>4. /\ js["src"] \in StreamRecords /\ js["out"] \in StreamRecords
      /\ StreamInv(js["src"]) /\ StreamInv(js["out"])
      /\ "src" \in Streams /\ "out" \in Streams
      /\ \A m \in ChunksOf(js["src"].settled), n \in Range(js["src"].queue) :
            m < n
      /\ \A m \in ChunksOf(js["out"].settled), n \in Range(js["out"].queue) :
            m < n
  BY StreamFacts
<1>5. ASSUME NEW s \in Streams, NEW x, x = ReadFrom(js[s])
      PROVE  Fine(js[s], x) /\ SameFlags(js[s], x) /\ ReadMoves(js[s], x)
  <2>1. js[s] \in StreamRecords /\ StreamInv(js[s])
        /\ \A m \in ChunksOf(js[s].settled), n \in Range(js[s].queue) : m < n
    BY <1>4 DEF Streams
  <2> QED
    BY <1>5, <2>1, ReadFromDoes DEF ReadMoves
<1>6. ASSUME js' \in [Streams -> StreamRecords], pull' \in PullStates,
             SourceInv',
             Fine(js["src"], js'["src"]), Fine(js["out"], js'["out"]),
             ~piped => js'["out"] = js["out"],
             js'["out"].errored = js["out"].errored,
             js'["out"].closeRequested = js["out"].closeRequested,
             \/ js'["out"] = js["out"] /\ ReadMoves(js["src"], js'["src"])
             \/ js'["src"] = js["src"] /\ ReadMoves(js["out"], js'["out"])
      PROVE  PipeInv'
  <2>1. calls' \in Nat /\ pump' \in PumpStates
    BY <1>2 DEF Types, PumpStates
  <2>2. Types'
    BY <1>1, <1>6, <2>1 DEF Types, Has
  <2>3. PumpInv'
    <3>1. CASE pump' = pump
      BY <1>1, <1>3, <1>6, <3>1, PumpStays DEF Fine
    <3>2. CASE pump = "reading" /\ pump' = "waiting"
      BY <1>1, <1>3, <1>6, <3>2 DEF PumpInv
    <3> QED
      BY <1>2, <3>1, <3>2
  <2>4. ReaderInv'
    BY <1>1, <1>3, <1>6, ReaderStays DEF Fine
  <2>5. StreamInv(js["src"])' /\ StreamInv(js["out"])'
    <3>1. StreamInv(js'["src"]) /\ StreamInv(js'["out"])
      BY <1>6 DEF Fine
    <3> QED
      BY <3>1 DEF StreamInv
  <2>6. ChunksInv'
    BY <1>1, <1>6, ReadKeepsLine
  <2> QED
    BY <1>6, <2>2, <2>3, <2>4, <2>5, <2>6
<1>7. CASE Read("src")
  <2> DEFINE st == js["src"]
             s1 == ReadFrom(st)
             s2 == js'["src"]
  <2>1. Fine(st, s1) /\ SameFlags(st, s1) /\ ReadMoves(st, s1)
    BY <1>4, <1>5
  <2>2. \/ /\ NeedsPull(s1) /\ ~cancelled /\ pull' = "spawned"
           /\ js' = [js EXCEPT !["src"] = [s1 EXCEPT !.pulling = TRUE]]
        \/ /\ pull' = pull
           /\ js' = [js EXCEPT !["src"] = s1]
    BY <1>7 DEF Read, PullIfNeeded
  <2> HIDE DEF s1
  <2>3. CASE /\ NeedsPull(s1) /\ ~cancelled /\ pull' = "spawned"
             /\ js' = [js EXCEPT !["src"] = [s1 EXCEPT !.pulling = TRUE]]
    <3> DEFINE x == [s1 EXCEPT !.pulling = TRUE]
    <3>1. s1 \in StreamRecords /\ StreamInv(s1)
      BY <2>1 DEF Fine
    <3>2. /\ Fine(s1, x) /\ SameChunks(s1, x) /\ x.pulling = TRUE
          /\ x.closeRequested = s1.closeRequested /\ x.errored = s1.errored
      BY <3>1, PullingDoes
    <3>3. js' = [js EXCEPT !["src"] = x]
      BY <2>3
    <3> HIDE DEF x
    <3>4. /\ js' \in [Streams -> StreamRecords] /\ s2 = x
          /\ js'["out"] = js["out"]
      BY <1>4, <3>2, <3>3, JsUpdate DEF Fine, Streams
    <3>5. /\ Fine(st, s2) /\ ReadMoves(st, s2) /\ s2.pulling = TRUE
          /\ s2.closeRequested = st.closeRequested
          /\ s2.errored = st.errored
      BY <2>1, <3>2, <3>4 DEF Fine, ReadMoves, SameChunks, SameFlags
    <3>6. st.pulling = FALSE /\ ~st.closeRequested /\ ~st.errored
      BY <1>4, <2>1, <2>3, Fields DEF NeedsPull, IsReadable, SameFlags
    <3>7. pull = "none"
      BY <3>6 DEF SourceInv
    <3>8. ~failed /\ answer.kind # "chunk"
      BY <3>6, <3>7 DEF SourceInv
    <3>9. SourceInv'
      BY <1>1, <2>3, <3>5, <3>6, <3>8 DEF SourceInv
    <3>10. Fine(js["out"], js'["out"]) /\ pull' \in PullStates
      BY <1>4, <2>3, <3>4, SameIsFine DEF PullStates
    <3> QED
      BY <1>6, <3>4, <3>5, <3>9, <3>10
  <2>4. CASE pull' = pull /\ js' = [js EXCEPT !["src"] = s1]
    <3>1. /\ js' \in [Streams -> StreamRecords] /\ s2 = s1
          /\ js'["out"] = js["out"]
      BY <1>4, <2>1, <2>4, JsUpdate DEF Fine, Streams
    <3>2. SourceInv'
      BY <1>1, <2>1, <2>4, <3>1, SourceStays
    <3>3. Fine(js["out"], js'["out"]) /\ pull' \in PullStates
      BY <1>4, <2>4, <3>1, SameIsFine DEF Types
    <3> QED
      BY <1>6, <2>1, <3>1, <3>2, <3>3
  <2> QED
    BY <2>2, <2>3, <2>4
<1>8. CASE piped /\ Read("out")
  <2> DEFINE st == js["out"]
             s1 == ReadFrom(st)
  <2>1. Fine(st, s1) /\ SameFlags(st, s1) /\ ReadMoves(st, s1)
    BY <1>4, <1>5
  <2>2. pull' = pull /\ js' = [js EXCEPT !["out"] = s1]
    BY <1>8 DEF Read
  <2> HIDE DEF s1
  <2>3. /\ js' \in [Streams -> StreamRecords] /\ js'["out"] = s1
        /\ js'["src"] = js["src"]
    BY <1>4, <2>1, <2>2, JsUpdate DEF Fine, Streams
  <2>4. SourceInv'
    BY <1>1, <2>2, <2>3, SourceStays DEF SameFlags
  <2>5. Fine(js["src"], js'["src"]) /\ pull' \in PullStates
    BY <1>4, <2>2, <2>3, SameIsFine DEF Types
  <2> QED
    BY <1>6, <1>8, <2>1, <2>3, <2>4, <2>5 DEF SameFlags
<1> QED
  BY <1>2, <1>7, <1>8

(* The pump gets a result.                                                 *)
LEMMA StepPumpResult ==
  ASSUME PipeInv, PumpResult
  PROVE  PipeInv'
<1> USE DEF PipeInv
<1> DEFINE st == js["src"]
           out == js["out"]
           s2 == Taken(st)
           r == First(st)
           o2 == Enqueued(out, r.n)
<1>1. /\ cancelled' = cancelled /\ inner' = inner /\ pull' = pull
      /\ answer' = answer /\ produced' = produced /\ failed' = failed
      /\ threw' = threw /\ rpc' = rpc /\ slot' = slot /\ done' = done
      /\ calls' = calls /\ wakers' = wakers /\ woken' = woken
      /\ spurious' = spurious /\ delivered' = delivered
      /\ outcome' = outcome /\ overwritten' = overwritten
      /\ piped' = piped /\ stopped' = stopped /\ gone' = gone
      /\ pump = "waiting" /\ st.settled # <<>>
  BY DEF PumpResult, readerVars, srcVars
<1>2. /\ st \in StreamRecords /\ StreamInv(st) /\ out \in StreamRecords
      /\ StreamInv(out) /\ "src" \in Streams /\ "out" \in Streams
  BY StreamFacts
<1>3. /\ Fine(st, s2) /\ SameFlags(st, s2) /\ r \in Results
      /\ ChunksOf(s2.settled) \subseteq ChunksOf(st.settled)
      /\ Range(s2.queue) = Range(st.queue)
      /\ r.kind = "chunk" =>
            /\ r.n \in ChunksOf(st.settled)
            /\ ChunksOf(st.settled) = ChunksOf(s2.settled) \cup {r.n}
            /\ \A n \in ChunksOf(s2.settled) : r.n < n
      /\ r.kind # "chunk" => ChunksOf(s2.settled) = ChunksOf(st.settled)
      /\ r.kind = "done" => Finished(s2)
      /\ r.kind = "error" => st.errored
  <2>1. /\ Fine(st, s2) /\ SameFlags(st, s2) /\ s2.queue = st.queue
        /\ r \in Results
        /\ ChunksOf(s2.settled) \subseteq ChunksOf(st.settled)
        /\ r.kind = "chunk" =>
              /\ r.n \in ChunksOf(st.settled)
              /\ ChunksOf(st.settled) = ChunksOf(s2.settled) \cup {r.n}
              /\ \A n \in ChunksOf(s2.settled) : r.n < n
        /\ r.kind # "chunk" => ChunksOf(s2.settled) = ChunksOf(st.settled)
        /\ r.kind = "done" => Finished(s2)
        /\ r.kind = "error" => st.errored
    BY <1>1, <1>2, TakenDoes
  <2> QED
    BY <2>1
<1>4. piped /\ (Whole' <=> Whole)
  BY <1>1 DEF PumpInv, Whole
<1>5. stopped = {} => IsReadable(out)
  BY <1>1, <1>2, Fields DEF PumpInv, IsReadable
<1>6. \/ /\ r.kind = "chunk" /\ IsReadable(out) /\ pump' = "reading"
         /\ js' = [js EXCEPT !["src"] = s2, !["out"] = o2]
      \/ /\ r.kind = "chunk" /\ ~IsReadable(out) /\ pump' = "failing"
         /\ js' = [js EXCEPT !["src"] = s2]
      \/ /\ r.kind # "chunk"
         /\ pump' = IF r.kind = "done" THEN "closing" ELSE "failing"
         /\ js' = [js EXCEPT !["src"] = s2]
  BY DEF PumpResult, PumpWrites, Taken, First
<1>7. Increasing(delivered')
  BY <1>1 DEF ChunksInv
<1> HIDE DEF s2, o2, r
<1>8. ASSUME js' \in [Streams -> StreamRecords], js'["src"] = s2,
             Fine(out, js'["out"]), SameFlags(out, js'["out"]),
             pump' \in {"reading", "closing", "failing"},
             pump' = "failing" => ~Whole,
             pump' = "closing" => Finished(s2),
             ChunksInv'
      PROVE  PipeInv'
  <2>1. Types'
    BY <1>1, <1>8 DEF Types, Has, PumpStates
  <2>2. SourceInv'
    BY <1>1, <1>3, <1>8, SourceStays
  <2>3. PumpInv'
    BY <1>1, <1>4, <1>8 DEF PumpInv, SameFlags
  <2>4. ReaderInv'
    BY <1>1, <1>3, <1>4, <1>8, ReaderStays DEF Fine
  <2>5. StreamInv(js["src"])' /\ StreamInv(js["out"])'
    <3>1. StreamInv(js'["src"]) /\ StreamInv(js'["out"])
      BY <1>3, <1>8 DEF Fine
    <3> QED
      BY <3>1 DEF StreamInv
  <2> QED
    BY <1>8, <2>1, <2>2, <2>3, <2>4, <2>5
<1>9. CASE /\ r.kind = "chunk" /\ IsReadable(out) /\ pump' = "reading"
           /\ js' = [js EXCEPT !["src"] = s2, !["out"] = o2]
  <2>1. r.n \in 1..MaxChunks /\ r.n \in Places[5]
    BY <1>3, <1>9, ResultKinds, PlacesAre
  <2>2. /\ \A m \in ChunksOf(out.settled) : m < r.n
        /\ \A m \in Range(out.queue) : m < r.n
    <3>1. /\ \A m \in Places[3], n \in Places[5] : m < n
          /\ \A m \in Places[4], n \in Places[5] : m < n
      BY DEF ChunksInv, InLine
    <3> QED
      BY <2>1, <3>1, PlacesAre
  <2>3. /\ Fine(out, o2) /\ SameFlags(out, o2)
        /\ \/ /\ Range(out.queue) = {} /\ Range(o2.queue) = {}
              /\ ChunksOf(o2.settled) = ChunksOf(out.settled) \cup {r.n}
           \/ /\ ChunksOf(o2.settled) = ChunksOf(out.settled)
              /\ Range(o2.queue) = Range(out.queue) \cup {r.n}
    BY <1>2, <1>9, <2>1, <2>2, EnqueuedDoes DEF o2
  <2>4. /\ js' \in [Streams -> StreamRecords] /\ js'["src"] = s2
        /\ js'["out"] = o2
    BY <1>2, <1>3, <1>9, <2>3 DEF Types, Fine, Streams
  <2>5. /\ \A s \in {1, 2, 6, 7} : Places'[s] = Places[s]
        /\ Places[3] = ChunksOf(out.settled) /\ Places[4] = Range(out.queue)
        /\ Places'[3] = ChunksOf(o2.settled) /\ Places'[4] = Range(o2.queue)
        /\ Places[5] = Places'[5] \cup {r.n}
        /\ \A m \in Places'[5] : r.n < m
    BY <1>1, <1>3, <1>9, <2>4, PlacesAre, PlacesAreNext
  <2>6. ASSUME NEW to \in {3, 4}, to = 3 => Places[4] = {},
               Places'[to] = Places[to] \cup {r.n},
               \A s \in {3, 4} : s # to => Places'[s] = Places[s]
        PROVE  ChunksInv'
    <3>1. /\ to \in 1..7 /\ 5 \in 1..7 /\ to < 5
          /\ \A s \in 1..7 : to < s /\ s < 5 => Places[s] = {}
          /\ \A s \in 1..7 : s # 5 /\ s # to => Places'[s] = Places[s]
      BY <2>5, <2>6
    <3>2. /\ r.n \in Places'[to] /\ Places'[to] \subseteq Places[to] \cup {r.n}
          /\ \A m \in Places[to] : m \in Places'[to]
      BY <2>6
    <3> QED
      BY <1>1, <1>4, <1>7, <2>1, <2>5, <3>1, <3>2, ChunkMoves
  <2>7. ChunksInv'
    BY <2>3, <2>5, <2>6
  <2> QED
    BY <1>8, <1>9, <2>3, <2>4, <2>7
<1>10. CASE /\ r.kind = "chunk" /\ ~IsReadable(out) /\ pump' = "failing"
            /\ js' = [js EXCEPT !["src"] = s2]
  <2>1. ~Whole /\ ~Whole'
    BY <1>4, <1>5, <1>10 DEF Whole
  <2>2. /\ js' \in [Streams -> StreamRecords] /\ js'["src"] = s2
        /\ js'["out"] = out
    BY <1>2, <1>3, <1>10, JsUpdate DEF Fine, Streams
  <2>3. \A s \in 1..7 : Places'[s] \subseteq Places[s]
    BY <1>1, <1>3, <2>2, PlacesAre, PlacesAreNext
  <2>4. ChunksInv'
    BY <1>1, <1>7, <2>1, <2>3, ChunksLost
  <2>5. Fine(out, js'["out"]) /\ SameFlags(out, js'["out"])
    BY <1>2, <2>2, SameIsFine
  <2> QED
    BY <1>8, <1>10, <2>1, <2>2, <2>4, <2>5
<1>11. CASE /\ r.kind # "chunk"
            /\ pump' = IF r.kind = "done" THEN "closing" ELSE "failing"
            /\ js' = [js EXCEPT !["src"] = s2]
  <2>1. /\ js' \in [Streams -> StreamRecords] /\ js'["src"] = s2
        /\ js'["out"] = out
    BY <1>2, <1>3, <1>11, JsUpdate DEF Fine, Streams
  <2>2. r.kind \in {"chunk", "done", "error"}
    BY <1>3, ResultKinds
  <2>3. pump' = "failing" => ~Whole
    BY <1>3, <1>4, <1>11, <2>2 DEF SourceInv, Whole
  <2>4. ChunksInv'
    BY <1>1, <1>3, <1>4, <1>11, <2>1, ChunksRest DEF SameChunks
  <2>5. Fine(out, js'["out"]) /\ SameFlags(out, js'["out"])
    BY <1>2, <2>1, SameIsFine
  <2> QED
    BY <1>3, <1>8, <1>11, <2>1, <2>2, <2>3, <2>4, <2>5
<1> QED
  BY <1>6, <1>9, <1>10, <1>11

(* The pump is through.                                                    *)
LEMMA StepPumpEnds ==
  ASSUME PipeInv, PumpEnds
  PROVE  PipeInv'
<1> USE DEF PipeInv
<1> DEFINE out == js["out"]
           o2 == IF pump = "closing" THEN Closed(out) ELSE Cancelled(out)
<1>1. /\ cancelled' = cancelled /\ inner' = inner /\ pull' = pull
      /\ answer' = answer /\ produced' = produced /\ failed' = failed
      /\ threw' = threw /\ rpc' = rpc /\ slot' = slot /\ done' = done
      /\ calls' = calls /\ wakers' = wakers /\ woken' = woken
      /\ spurious' = spurious /\ delivered' = delivered
      /\ outcome' = outcome /\ overwritten' = overwritten
      /\ piped' = piped /\ stopped' = stopped /\ gone' = gone
      /\ pump \in {"closing", "failing"} /\ pump' = "ended"
      /\ js' = [js EXCEPT !["out"] = o2]
  BY DEF PumpEnds, readerVars, srcVars
<1>2. /\ js["src"] \in StreamRecords /\ StreamInv(js["src"])
      /\ out \in StreamRecords /\ StreamInv(out) /\ "out" \in Streams
  BY StreamFacts
<1>3. /\ Fine(out, o2) /\ o2.errored = out.errored
      /\ ChunksOf(o2.settled) = ChunksOf(out.settled)
      /\ Range(o2.queue) \subseteq Range(out.queue)
      /\ pump = "closing" => SameChunks(out, o2)
  <2>1. CASE pump = "closing"
    <3>1. o2 = Closed(out)
      BY <2>1
    <3>2. Fine(out, o2) /\ o2.errored = out.errored /\ SameChunks(out, o2)
      BY <1>2, <3>1, ClosedDoes
    <3> QED
      BY <3>2 DEF SameChunks
  <2>2. CASE pump # "closing"
    <3>1. o2 = Cancelled(out)
      BY <2>2
    <3> QED
      BY <1>2, <2>2, <3>1, CancelledDoes
  <2> QED
    BY <2>1, <2>2
<1> HIDE DEF o2
<1>4. /\ js' \in [Streams -> StreamRecords] /\ js'["out"] = o2
      /\ js'["src"] = js["src"]
  BY <1>1, <1>2, <1>3, JsUpdate DEF Fine, Streams
<1>5. piped /\ (Whole' <=> Whole)
  BY <1>1 DEF PumpInv, Whole
<1>6. Types'
  BY <1>1, <1>4 DEF Types, Has, PumpStates
<1>7. SourceInv'
  BY <1>1, <1>4, SourceStays DEF SameFlags
<1>8. PumpInv'
  BY <1>1, <1>3, <1>4, <1>5 DEF PumpInv
<1>9. ReaderInv'
  BY <1>1, <1>3, <1>4, <1>5, ReaderStays DEF Fine
<1>10. StreamInv(js["src"])' /\ StreamInv(js["out"])'
  <2>1. StreamInv(js'["src"]) /\ StreamInv(js'["out"])
    BY <1>2, <1>3, <1>4 DEF Fine
  <2> QED
    BY <2>1 DEF StreamInv
<1>11. ChunksInv'
  <2>1. CASE pump = "closing"
    BY <1>1, <1>3, <1>4, <1>5, <2>1, ChunksRest DEF SameChunks
  <2>2. CASE pump = "failing"
    <3>1. ~Whole'
      BY <1>5, <2>2 DEF PumpInv
    <3>2. \A s \in 1..7 : Places'[s] \subseteq Places[s]
      BY <1>1, <1>3, <1>4, PlacesAre, PlacesAreNext
    <3>3. Increasing(delivered')
      BY <1>1 DEF ChunksInv
    <3> QED
      BY <1>1, <3>1, <3>2, <3>3, ChunksLost
  <2> QED
    BY <1>1, <2>1, <2>2
<1> QED
  BY <1>6, <1>7, <1>8, <1>9, <1>10, <1>11

(* What the slot holds                                                     *)
LEMMA SlotIs ==
  ASSUME Types, slot # <<>>
  PROVE  /\ Head(slot) \in Results /\ Head(slot).kind \in {"chunk", "error"}
         /\ ChunksOf(slot) = IF Head(slot).kind = "chunk" THEN {Head(slot).n}
                                                          ELSE {}
<1>1. slot \in Seq(Results) /\ Len(slot) <= 1 /\ ~Has(slot, "done")
  BY DEF Types
<1>2. Len(slot) = 1 /\ 1..1 = {1} /\ DOMAIN slot = {1} /\ Head(slot) = slot[1]
      /\ slot[1] \in Results
  <2>1. Len(slot) \in Nat \ {0}
    BY <1>1, EmptySeq
  <2>2. Len(slot) = 1
    <3>1. \A k \in Nat \ {0} : k <= 1 => k = 1
      OBVIOUS
    <3> QED
      BY <1>1, <2>1, <3>1, Zenon
  <2> QED
    BY <1>1, <2>2
<1>3. Head(slot).kind \in {"chunk", "error"}
  BY <1>1, <1>2, ResultKinds DEF Has
<1>4. \A n : n \in ChunksOf(slot) <=> slot[1].kind = "chunk" /\ slot[1].n = n
  BY <1>1, <1>2, ChunksAt
<1>5. ChunksOf(slot) = IF Head(slot).kind = "chunk" THEN {Head(slot).n} ELSE {}
  BY <1>2, <1>4
<1> QED
  BY <1>2, <1>3, <1>5

(* The consumer polls.                                                     *)
LEMMA StepPoll ==
  ASSUME PipeInv, Poll
  PROVE  PipeInv'
<1> USE DEF PipeInv
<1>1. /\ js' = js /\ cancelled' = cancelled /\ inner' = inner /\ pull' = pull
      /\ answer' = answer /\ produced' = produced /\ failed' = failed
      /\ threw' = threw /\ done' = done /\ wakers' = wakers
      /\ overwritten' = overwritten /\ piped' = piped /\ pump' = pump
      /\ stopped' = stopped /\ gone' = gone
  BY DEF Poll, PollBegin, PollEnd, srcVars
<1>2. \/ /\ slot' = slot /\ delivered' = delivered /\ outcome' = outcome
         /\ rpc' \in {"polling", "parked"}
      \/ Ready(slot) /\ (slot = <<>> => done)
  BY DEF Poll, PollBegin, PollEnd
<1>3. calls' \in Nat /\ woken' \in BOOLEAN /\ spurious' \in 0..MaxSpurious
  <2>1. /\ calls \in Nat /\ woken \in BOOLEAN /\ spurious \in 0..MaxSpurious
        /\ MaxSpurious \in Nat
    BY SpuriousAssumption DEF Types
  <2>2. /\ calls' = calls \/ calls' = calls + 1
        /\ woken' = woken \/ woken' = FALSE
        /\ \/ spurious' = spurious
           \/ spurious < MaxSpurious /\ spurious' = spurious + 1
    BY DEF Poll, PollBegin, PollEnd
  <2>3. calls' \in Nat
    BY <2>1, <2>2
  <2>4. spurious' \in 0..MaxSpurious
    BY <2>1, <2>2
  <2> QED
    BY <2>1, <2>2, <2>3, <2>4
<1>4. Whole' <=> Whole
  BY <1>1 DEF Whole
<1>5. SourceInv' /\ PumpInv'
  BY <1>1, <1>4 DEF SourceInv, PumpInv
<1>6. StreamInv(js["src"])' /\ StreamInv(js["out"])'
  BY <1>1 DEF StreamInv
<1>7. ASSUME slot' \in Seq(Results), Len(slot') <= 1, ~Has(slot', "done"),
             rpc' \in ReaderStates, delivered' \in Seq(1..MaxChunks),
             outcome' \in {"none", "end", "error"},
             outcome' = "end" => outcome = "end" \/ done,
             Has(slot', "chunk") => slot' = slot /\ outcome' = outcome,
             ChunksInv'
      PROVE  PipeInv'
  <2>1. Types'
    <3>1. ~Has(slot, "done")'
      BY <1>7 DEF Has
    <3> QED
      BY <1>1, <1>3, <1>7, <3>1 DEF Types
  <2>2. ReaderInv'
    <3>1. ASSUME Whole'
          PROVE  outcome' = "end" => done' /\ ~Has(slot', "chunk")
      BY <1>1, <1>4, <1>7, <3>1 DEF ReaderInv
    <3>2. ASSUME Whole'
          PROVE  (done => Finished(js["src"]) /\ Finished(js[Target]))'
      BY <1>1, <1>4, <3>2 DEF ReaderInv, Target, Finished
    <3>3. Whole' => (outcome = "end" => done /\ ~Has(slot, "chunk"))'
      BY <3>1 DEF Has
    <3> QED
      BY <3>2, <3>3 DEF ReaderInv
  <2> QED
    BY <1>5, <1>6, <1>7, <2>1, <2>2
<1>8. CASE /\ slot' = slot /\ delivered' = delivered /\ outcome' = outcome
           /\ rpc' \in {"polling", "parked"}
  <2>1. ChunksInv'
    BY <1>1, <1>4, <1>8, ChunksRest DEF SameChunks
  <2> QED
    BY <1>7, <1>8, <2>1 DEF Types, ReaderStates
<1>9. CASE Ready(slot) /\ (slot = <<>> => done)
  <2>1. slot' = <<>> /\ slot' \in Seq(Results) /\ Len(slot') <= 1
        /\ ~Has(slot', "done") /\ ~Has(slot', "chunk")
        /\ ChunksOf(slot') = {}
    <3>1. slot' = <<>>
      BY <1>9 DEF Ready
    <3> QED
      BY <3>1, NoChunks DEF Has
  <2>2. CASE slot = <<>>
    <3>1. /\ rpc' = "ended" /\ outcome' = "end" /\ delivered' = delivered
          /\ done
      BY <1>9, <2>2 DEF Ready
    <3>2. ChunksInv'
      BY <1>1, <1>4, <2>1, <2>2, <3>1, ChunksRest DEF SameChunks
    <3> QED
      BY <1>7, <2>1, <3>1, <3>2 DEF Types, ReaderStates
  <2>3. CASE slot # <<>> /\ Head(slot).kind = "error"
    <3>1. /\ rpc' = "ended" /\ outcome' = "error" /\ delivered' = delivered
      BY <1>9, <2>3 DEF Ready
    <3>2. ChunksOf(slot) = {}
      BY <2>3, SlotIs
    <3>3. ChunksInv'
      BY <1>1, <1>4, <2>1, <3>1, <3>2, ChunksRest DEF SameChunks
    <3> QED
      BY <1>7, <2>1, <3>1, <3>3 DEF Types, ReaderStates
  <2>4. CASE slot # <<>> /\ Head(slot).kind = "chunk"
    <3> DEFINE n == Head(slot).n
    <3>1. /\ rpc' = "idle" /\ outcome' = outcome
          /\ delivered' = Append(delivered, n)
      BY <1>9, <2>4 DEF Ready
    <3>2. n \in 1..MaxChunks /\ ChunksOf(slot) = {n}
      BY <2>4, SlotIs, ResultKinds
    <3> HIDE DEF n
    <3>3. delivered \in Seq(1..MaxChunks) /\ Increasing(delivered)
      BY DEF Types, ChunksInv
    <3>4. \A m \in Range(delivered) : m < n
      <4>1. \A m \in Places[1], k \in Places[2] : m < k
        BY DEF ChunksInv, InLine
      <4> QED
        BY <3>2, <4>1, PlacesAre
    <3>5. /\ Append(delivered, n) \in Seq(1..MaxChunks)
          /\ Increasing(Append(delivered, n))
          /\ Range(Append(delivered, n)) = Range(delivered) \cup {n}
      BY <3>2, <3>3, <3>4, QueueAppend
    <3>6. /\ Increasing(delivered')
          /\ Range(delivered') = Range(delivered) \cup {n}
      BY <3>1, <3>5
    <3>7. /\ \A s \in {3, 4, 5, 6, 7} : Places'[s] = Places[s]
          /\ Places[2] = {n} /\ Places'[2] = {}
          /\ Places'[1] = Places[1] \cup {n}
      BY <1>1, <2>1, <3>2, <3>6, PlacesAre, PlacesAreNext
    <3>8. ChunksInv'
      <4>1. /\ 1 \in 1..7 /\ 2 \in 1..7 /\ 1 < 2 /\ n \in Places[2]
            /\ \A s \in 1..7 : 1 < s /\ s < 2 => Places[s] = {}
            /\ \A s \in 1..7 : s # 2 /\ s # 1 => Places'[s] = Places[s]
            /\ Places[2] = Places'[2] \cup {n}
            /\ \A m \in Places'[2] : n < m
        BY <3>7
      <4>2. /\ n \in Places'[1] /\ Places'[1] \subseteq Places[1] \cup {n}
            /\ \A m \in Places[1] : m \in Places'[1]
        BY <3>7
      <4> QED
        BY <1>1, <1>4, <3>6, <4>1, <4>2, ChunkMoves
    <3> QED
      BY <1>7, <2>1, <3>1, <3>5, <3>8 DEF Types, ReaderStates
  <2> QED
    BY <2>2, <2>3, <2>4, SlotIs
<1> QED
  BY <1>2, <1>8, <1>9

(* A result arrives in the slot of the reader.                             *)
LEMMA StepResultArrives ==
  ASSUME PipeInv, ResultArrives
  PROVE  PipeInv'
<1> USE DEF PipeInv
<1> DEFINE st == js[Target]
           s2 == Taken(st)
           r == First(st)
           other == IF piped THEN "src" ELSE "out"
<1>1. /\ cancelled' = cancelled /\ inner' = inner /\ pull' = pull
      /\ answer' = answer /\ produced' = produced /\ failed' = failed
      /\ threw' = threw /\ rpc' = rpc /\ calls' = calls /\ woken' = woken
      /\ spurious' = spurious /\ delivered' = delivered
      /\ outcome' = outcome /\ piped' = piped /\ pump' = pump
      /\ stopped' = stopped /\ gone' = gone
      /\ wakers' = wakers + 1 /\ st.settled # <<>>
      /\ js' = [js EXCEPT ![Target] = s2]
  BY DEF ResultArrives, Store, srcVars, Taken
<1>2. \/ /\ r.kind = "done" /\ done' = TRUE
         /\ slot' = slot /\ overwritten' = overwritten
      \/ /\ r.kind # "done" /\ done' = done /\ slot' = <<r>>
         /\ overwritten' = overwritten
                \cup {s.n : s \in {slot[i] : i \in DOMAIN slot}}
  BY DEF ResultArrives, Store, First
<1>3. /\ js["src"] \in StreamRecords /\ StreamInv(js["src"])
      /\ js["out"] \in StreamRecords /\ StreamInv(js["out"])
  BY StreamFacts
<1>4. /\ Target \in Streams /\ other \in Streams /\ other # Target
      /\ Streams = {Target, other} /\ st \in StreamRecords /\ StreamInv(st)
  BY <1>3 DEF Target, Streams
<1>5. /\ Fine(st, s2) /\ SameFlags(st, s2) /\ r \in Results
      /\ s2.queue = st.queue
      /\ ChunksOf(s2.settled) \subseteq ChunksOf(st.settled)
      /\ r.kind = "chunk" =>
            /\ r.n \in ChunksOf(st.settled)
            /\ ChunksOf(st.settled) = ChunksOf(s2.settled) \cup {r.n}
            /\ \A n \in ChunksOf(s2.settled) : r.n < n
      /\ r.kind # "chunk" => ChunksOf(s2.settled) = ChunksOf(st.settled)
      /\ r.kind = "done" => Finished(s2) /\ st.closeRequested
      /\ Finished(st) => r.kind # "chunk"
  <2>1. /\ Fine(st, s2) /\ SameFlags(st, s2) /\ r \in Results
        /\ s2.queue = st.queue
        /\ ChunksOf(s2.settled) \subseteq ChunksOf(st.settled)
        /\ r.kind = "chunk" =>
              /\ r.n \in ChunksOf(st.settled)
              /\ ChunksOf(st.settled) = ChunksOf(s2.settled) \cup {r.n}
              /\ \A n \in ChunksOf(s2.settled) : r.n < n
        /\ r.kind # "chunk" => ChunksOf(s2.settled) = ChunksOf(st.settled)
        /\ r.kind = "done" => Finished(s2)
        /\ Finished(st) => r.kind # "chunk"
    BY <1>1, <1>4, TakenDoes
  <2>2. r.kind = "done" => st.closeRequested
    BY <2>1 DEF Finished, SameFlags
  <2> QED
    BY <2>1, <2>2
<1> HIDE DEF s2, r
<1>6. /\ js' \in [Streams -> StreamRecords] /\ js'[Target] = s2
      /\ js'[other] = js[other]
  BY <1>1, <1>4, <1>5, JsUpdate DEF Fine
<1>7. /\ Whole' <=> Whole
      /\ ~piped => js["out"] = NewStream
  BY <1>1 DEF Whole, PumpInv
<1>8. /\ SameFlags(js["src"], js'["src"]) /\ SameFlags(js["out"], js'["out"])
      /\ Fine(js["src"], js'["src"]) /\ Fine(js["out"], js'["out"])
      /\ ~piped => js'["out"] = js["out"]
  BY <1>3, <1>5, <1>6, SameIsFine DEF Target, Fine
<1>9. /\ slot' \in Seq(Results) /\ Len(slot') <= 1 /\ ~Has(slot', "done")
      /\ done' \in BOOLEAN
      /\ Has(slot', "chunk") => slot' = slot \/ r.kind = "chunk"
  <2>1. CASE slot' = slot /\ done' = TRUE
    BY <2>1 DEF Types
  <2>2. CASE r.kind # "done" /\ done' = done /\ slot' = <<r>>
    <3>1. DOMAIN slot' = {1} /\ slot'[1] = r /\ Len(slot') = 1
      BY <2>2
    <3>2. slot' \in Seq(Results)
      BY <1>5, <2>2
    <3>3. done' \in BOOLEAN
      BY <2>2 DEF Types
    <3> QED
      BY <2>2, <3>1, <3>2, <3>3 DEF Has
  <2> QED
    BY <1>2, <2>1, <2>2
<1>10. Types'
  <2>1. wakers' \in Nat
    BY <1>1 DEF Types
  <2>2. ~Has(slot, "done")'
    BY <1>9 DEF Has
  <2> QED
    BY <1>1, <1>6, <1>9, <2>1, <2>2 DEF Types
<1>11. SourceInv'
  BY <1>1, <1>8, SourceStays
<1>12. PumpInv'
  BY <1>1, <1>7, <1>8, PumpStays DEF Fine, SameFlags
<1>13. ReaderInv'
  <2>1. ASSUME Whole', done'
        PROVE  Finished(js'["src"]) /\ Finished(js'[Target])
    <3>1. CASE done
      BY <1>4, <1>5, <1>6, <1>7, <1>8, <2>1, <3>1 DEF ReaderInv, Fine
    <3>2. CASE r.kind = "done"
      <4>1. Finished(js'[Target])
        BY <1>5, <1>6, <3>2
      <4>2. CASE Target = "src"
        BY <4>1, <4>2
      <4>3. CASE Target = "out"
        <5>1. js["out"].closeRequested /\ Whole
          BY <1>5, <1>7, <2>1, <3>2, <4>3
        <5>2. pump = "ended"
          BY <5>1 DEF PumpInv, Whole
        <5>3. Finished(js["src"])
          BY <5>1, <5>2 DEF PumpInv
        <5> QED
          BY <1>8, <4>1, <5>3 DEF Fine
      <4> QED
        BY <4>2, <4>3 DEF Target
    <3> QED
      BY <1>2, <2>1, <3>1, <3>2
  <2>2. ASSUME Whole', outcome' = "end"
        PROVE  done' /\ ~Has(slot', "chunk")
    <3>1. done /\ ~Has(slot, "chunk") /\ Finished(js[Target])
      BY <1>1, <1>7, <2>2 DEF ReaderInv
    <3> QED
      BY <1>2, <1>5, <1>9, <3>1
  <2>3. Whole' => (done => Finished(js["src"]) /\ Finished(js[Target]))'
    BY <1>1, <2>1 DEF Target, Finished
  <2>4. Whole' => (outcome = "end" => done /\ ~Has(slot, "chunk"))'
    BY <2>2 DEF Has
  <2> QED
    BY <2>3, <2>4 DEF ReaderInv
<1>14. StreamInv(js["src"])' /\ StreamInv(js["out"])'
  <2>1. StreamInv(js'["src"]) /\ StreamInv(js'["out"])
    BY <1>8 DEF Fine
  <2> QED
    BY <2>1 DEF StreamInv
<1>15. Increasing(delivered')
  BY <1>1 DEF ChunksInv
<1>16. ASSUME r.kind # "done"
       PROVE  \A n \in Places[2] : n \in overwritten'
  <2>1. \A n : n \in ChunksOf(slot) <=>
              \E i \in 1..Len(slot) : slot[i].kind = "chunk" /\ slot[i].n = n
    BY ChunksAt DEF Types
  <2>2. slot \in Seq(Results)
    BY DEF Types
  <2>3. DOMAIN slot = 1..Len(slot)
    BY <2>2, LenProperties
  <2>4. ASSUME NEW n \in ChunksOf(slot)
        PROVE  n \in overwritten'
    <3>1. PICK i \in DOMAIN slot : slot[i].n = n
      BY <2>1, <2>3, <2>4
    <3> QED
      BY <1>2, <1>16, <3>1
  <2> QED
    BY <2>4, PlacesAre
<1>17. ChunksInv'
  <2>1. CASE r.kind = "done"
    <3>1. slot' = slot /\ overwritten' = overwritten
      BY <1>2, <2>1
    <3>2. /\ SameChunks(js["src"], js'["src"])
          /\ SameChunks(js["out"], js'["out"])
      BY <1>5, <1>6, <2>1 DEF SameChunks, Target
    <3> QED
      BY <1>1, <1>7, <3>1, <3>2, ChunksRest
  <2>2. CASE r.kind = "error"
    <3>1. ChunksOf(slot') = {} /\ overwritten \subseteq overwritten'
      BY <1>2, <1>5, <2>2, AnswerChunks
    <3>2. /\ SameChunks(js["src"], js'["src"])
          /\ SameChunks(js["out"], js'["out"])
      BY <1>5, <1>6, <2>2 DEF SameChunks, Target
    <3>3. /\ \A s \in {1, 3, 4, 5, 6, 7} : Places'[s] = Places[s]
          /\ Places'[2] = {}
      BY <1>1, <3>1, <3>2, PlacesAre, PlacesAreNext DEF SameChunks
    <3>4. InLine(Places')
      <4>1. InLine(Places) /\ \A s \in 1..7 : Places'[s] \subseteq Places[s]
        BY <3>3 DEF ChunksInv
      <4> QED
        BY <4>1, FewerInLine
    <3>5. /\ \A s \in 1..7 : \A n \in Places'[s] :
                \E t \in 1..7 : n \in Places[t]
          /\ \A s \in 1..7 : \A n \in Places[s] :
                n \in overwritten' \/ \E t \in 1..7 : n \in Places'[t]
      BY <1>16, <2>2, <3>3
    <3> QED
      BY <1>1, <1>7, <1>15, <3>1, <3>4, <3>5, ChunksStay
  <2>3. CASE r.kind = "chunk"
    <3> DEFINE from == IF piped THEN 3 ELSE 5
    <3>1. ChunksOf(slot') = {r.n} /\ overwritten \subseteq overwritten'
      BY <1>2, <1>5, <2>3, AnswerChunks
    <3>2. /\ Places[from] = ChunksOf(st.settled)
          /\ Places'[from] = ChunksOf(s2.settled)
          /\ \A s \in 1..7 : s # from /\ s # 2 => Places'[s] = Places[s]
          /\ Places'[2] = {r.n}
      <4>1. CASE piped
        BY <1>1, <1>5, <1>6, <3>1, <4>1, PlacesAre, PlacesAreNext DEF Target
      <4>2. CASE ~piped
        BY <1>1, <1>5, <1>6, <3>1, <4>2, PlacesAre, PlacesAreNext DEF Target
      <4> QED
        BY <4>1, <4>2
    <3>3. ~piped => Places[3] = {} /\ Places[4] = {}
      BY <1>7, NoChunks, PlacesAre DEF NewStream
    <3>4. /\ from \in 1..7 /\ 2 \in 1..7 /\ 2 < from
          /\ \A s \in 1..7 : 2 < s /\ s < from => Places[s] = {}
      BY <3>3
    <3> HIDE DEF from
    <3>5. /\ r.n \in Places[from] /\ r.n \in Places'[2]
          /\ Places'[2] \subseteq Places[2] \cup {r.n}
          /\ \A m \in Places[2] : m \in Places'[2] \/ m \in overwritten'
          /\ Places[from] = Places'[from] \cup {r.n}
          /\ \A m \in Places'[from] : r.n < m
      BY <1>5, <1>16, <2>3, <3>2
    <3>6. /\ produced' = produced /\ (Whole' => Whole)
          /\ \A s \in 1..7 : s # from /\ s # 2 => Places'[s] = Places[s]
          /\ overwritten \subseteq overwritten'
      BY <1>1, <1>7, <3>1, <3>2
    <3> QED
      BY <1>15, <3>4, <3>5, <3>6, ChunkMoves
  <2> QED
    BY <1>5, <2>1, <2>2, <2>3, ResultKinds
<1> QED
  BY <1>10, <1>11, <1>12, <1>13, <1>14, <1>17

-----------------------------------------------------------------------------
(* The invariant                                                           *)

(* It holds at the start.                                                  *)
LEMMA PipeInit == Init => PipeInv
<1> SUFFICES ASSUME Init
             PROVE  PipeInv
  OBVIOUS
<1> USE DEF Init, SrcInit, ReaderInit
<1>1. /\ js = [s \in Streams |-> NewStream] /\ js["src"] = NewStream
      /\ js["out"] = NewStream
  BY DEF Streams
<1>2. /\ NewStream.queue = <<>> /\ NewStream.settled = <<>>
      /\ NewStream.requests = 0 /\ NewStream.closeRequested = FALSE
      /\ NewStream.errored = FALSE /\ NewStream.pulling = FALSE
      /\ NewStream \in StreamRecords
  BY DEF NewStream, StreamRecords
<1>3. StreamInv(NewStream)
  <2>1. DOMAIN <<>> = {}
    OBVIOUS
  <2> QED
    BY <1>2, <2>1
       DEF StreamInv, Increasing, ChunksIncrease, EndIsLast, Has
<1>4. Types
  <2>1. /\ answer \in Results /\ ~Has(slot, "done")
        /\ produced \in 0..MaxChunks
        /\ spurious \in 0..MaxSpurious
    BY ResultKinds, ChunksAssumption, SpuriousAssumption DEF Has
  <2>2. js \in [Streams -> StreamRecords]
    BY <1>1, <1>2
  <2>3. /\ slot \in Seq(Results) /\ Len(slot) <= 1
        /\ delivered \in Seq(1..MaxChunks)
    OBVIOUS
  <2>4. piped \in BOOLEAN /\ pump \in {"none", "reading"}
    OBVIOUS
  <2> QED
    BY <2>1, <2>2, <2>3, <2>4
       DEF Types, PullStates, ReaderStates, PumpStates, Streams
<1>5. SourceInv
  BY <1>1, <1>2, ResultKinds DEF SourceInv
<1>6. PumpInv
  BY <1>1, <1>2 DEF PumpInv
<1>7. ReaderInv
  BY DEF ReaderInv
<1>8. ChunksInv
  <2>1. answer \in Results /\ answer.kind # "chunk"
    BY ResultKinds
  <2>2. ChunksOf(<<answer>>) = {}
    BY <2>1, AnswerChunks
  <2>3. \A s \in 1..7 : Places[s] = {}
    BY <1>1, <1>2, <2>2, NoChunks, PlacesAre
  <2>4. 1..produced = {} /\ Increasing(delivered)
    BY DEF Increasing
  <2> QED
    BY <2>3, <2>4 DEF ChunksInv, InLine
<1> QED
  BY <1>1, <1>3, <1>4, <1>5, <1>6, <1>7, <1>8 DEF PipeInv

(* Every step keeps it.                                                    *)
LEMMA PipeStep == PipeInv /\ [Next]_vars => PipeInv'
<1> SUFFICES ASSUME PipeInv, [Next]_vars
             PROVE  PipeInv'
  OBVIOUS
<1>1. CASE Loop
  <2>1. CASE PumpRead \/ ReadCalled
    BY <2>1, StepRead
  <2>2. CASE PumpResult
    BY <2>2, StepPumpResult
  <2>3. CASE PumpEnds
    BY <2>3, StepPumpEnds
  <2>4. CASE ResultArrives
    BY <2>4, StepResultArrives
  <2>5. CASE WakeReader
    BY <2>5, StepRest
  <2>6. CASE PullPromise
    BY <2>6, StepResolve, StepPullReacts DEF PullPromise
  <2> QED
    BY <1>1, <2>1, <2>2, <2>3, <2>4, <2>5, <2>6 DEF Loop
<1>2. CASE Future
  BY <1>2, StepPullLocks, StepAnswer DEF Future
<1>3. CASE Poll
  BY <1>3, StepPoll
<1>4. CASE \E s \in Streams : Cancel(s)
  BY <1>4, StepCancel
<1>5. CASE EnvEnds \/ UNCHANGED vars
  BY <1>5, StepRest
<1> QED
  BY <1>1, <1>2, <1>3, <1>4, <1>5 DEF Next, Done

(* What was overwritten is older than a chunk the reader still has.        *)
KeptInv == overwritten \subseteq Nat /\ NewestIsKept

(* A poll hands the chunk in the slot on.                                  *)
LEMMA KeptPoll ==
  ASSUME PipeInv, KeptInv, Poll
  PROVE  KeptInv'
<1> DEFINE held == Range(delivered) \cup ChunksOf(slot)
<1>1. overwritten' = overwritten /\ failed' = failed
  BY DEF Poll, PollBegin, PollEnd, srcVars
<1>2. held \subseteq Range(delivered') \cup ChunksOf(slot')
  <2>1. CASE slot' = slot /\ delivered' = delivered
    BY <2>1
  <2>2. CASE Ready(slot)
    <3>1. CASE slot = <<>> \/ Head(slot).kind = "error"
      <4>1. delivered' = delivered
        BY <2>2, <3>1 DEF Ready
      <4>2. ChunksOf(slot) = {}
        BY <3>1, NoChunks, SlotIs DEF PipeInv
      <4> QED
        BY <4>1, <4>2
    <3>2. CASE slot # <<>> /\ Head(slot).kind = "chunk"
      <4> DEFINE n == Head(slot).n
      <4>1. delivered' = Append(delivered, n)
        BY <2>2, <3>2 DEF Ready
      <4>2. n \in 1..MaxChunks /\ ChunksOf(slot) = {n}
        BY <3>2, SlotIs, ResultKinds DEF PipeInv
      <4> HIDE DEF n
      <4>3. \A m \in Range(delivered) : m < n
        BY <4>2, PlacesAre DEF PipeInv, ChunksInv, InLine
      <4>4. Range(Append(delivered, n)) = Range(delivered) \cup {n}
        BY <4>2, <4>3, QueueAppend DEF PipeInv, Types, ChunksInv
      <4> QED
        BY <4>1, <4>2, <4>4
    <3> QED
      BY <3>1, <3>2, SlotIs DEF PipeInv
  <2> QED
    BY <2>1, <2>2 DEF Poll, PollBegin, PollEnd
<1> QED
  BY <1>1, <1>2 DEF KeptInv, NewestIsKept

(* A result that arrives is newer than all that came before, or an error.  *)
LEMMA KeptResultArrives ==
  ASSUME PipeInv, KeptInv, ResultArrives
  PROVE  KeptInv'
<1> DEFINE st == js[Target]
           r == First(st)
<1>1. /\ failed' = failed /\ delivered' = delivered
      /\ st.settled # <<>>
  BY DEF ResultArrives, Store, srcVars
<1>2. \/ r.kind = "done" /\ slot' = slot /\ overwritten' = overwritten
      \/ /\ r.kind # "done" /\ slot' = <<r>>
         /\ overwritten' = overwritten
                \cup {s.n : s \in {slot[i] : i \in DOMAIN slot}}
  BY DEF ResultArrives, Store, First
<1>3. /\ js["src"] \in StreamRecords /\ StreamInv(js["src"])
      /\ js["out"] \in StreamRecords /\ StreamInv(js["out"])
  BY StreamFacts DEF PipeInv
<1>4. st \in StreamRecords /\ StreamInv(st)
  BY <1>3 DEF Target
<1>5. /\ r \in Results
      /\ r.kind = "chunk" => r.n \in ChunksOf(st.settled)
      /\ r.kind = "error" => st.errored
  BY <1>1, <1>4, TakenDoes
<1> HIDE DEF r
<1>6. r.kind = "error" => failed
  BY <1>5 DEF PipeInv, PumpInv, SourceInv, Target
<1>7. ASSUME NEW i \in DOMAIN slot
      PROVE  /\ slot[i].n \in Nat
             /\ slot[i].n \in ChunksOf(slot) \/ slot[i].n = 0
  <2>1. slot \in Seq(Results) /\ i \in 1..Len(slot) /\ slot[i] \in Results
    BY DEF PipeInv, Types
  <2>2. CASE slot[i].kind = "chunk"
    BY <2>1, <2>2, ChunksAt, ResultKinds, ChunksAssumption
  <2>3. CASE slot[i].kind # "chunk"
    BY <2>1, <2>3, ResultKinds DEF Results, EndResult, ErrorResult
  <2> QED
    BY <2>2, <2>3
<1>8. overwritten' \subseteq Nat
  <2>1. overwritten \subseteq Nat
    BY DEF KeptInv
  <2>2. {s.n : s \in {slot[i] : i \in DOMAIN slot}} \subseteq Nat
    BY <1>7
  <2> QED
    BY <1>2, <2>1, <2>2
<1>9. CASE r.kind = "chunk" /\ ~failed
  <2>1. r.n \in 1..MaxChunks /\ ChunksOf(slot') = {r.n}
    BY <1>2, <1>5, <1>9, ResultKinds, AnswerChunks
  <2>2. \A m \in Range(delivered) \cup ChunksOf(slot) :
           m < r.n /\ m \in Nat
    <3>1. r.n \in Places[3] \/ r.n \in Places[5]
      BY <1>5, <1>9, PlacesAre DEF Target
    <3>2. \A s \in 1..7 : Places[s] \subseteq 1..produced
      BY DEF PipeInv, ChunksInv
    <3>3. 1..produced \subseteq Nat
      BY ChunksAssumption DEF PipeInv, Types
    <3> QED
      BY <3>1, <3>2, <3>3, PlacesAre DEF PipeInv, ChunksInv, InLine
  <2>3. ASSUME NEW n \in overwritten
        PROVE  n < r.n
    <3>1. PICK m \in Range(delivered) \cup ChunksOf(slot) : n < m
      BY <1>9 DEF KeptInv, NewestIsKept
    <3>2. m \in Nat /\ m < r.n /\ n \in Nat /\ r.n \in Nat
      BY <2>1, <2>2, ChunksAssumption DEF KeptInv
    <3> QED
      BY <3>1, <3>2
  <2>4. \A i \in DOMAIN slot : slot[i].n < r.n
    BY <1>7, <2>1, <2>2, ChunksAssumption
  <2>5. \A n \in overwritten' : n < r.n
    BY <1>2, <2>3, <2>4
  <2> QED
    BY <1>8, <2>1, <2>5 DEF KeptInv, NewestIsKept
<1> QED
  BY <1>1, <1>2, <1>5, <1>6, <1>8, <1>9, ResultKinds DEF KeptInv, NewestIsKept

(* No other step touches what the reader has, and an error stays.          *)
LEMMA KeptStep == PipeInv /\ KeptInv /\ [Next]_vars => KeptInv'
<1> SUFFICES ASSUME PipeInv, KeptInv, [Next]_vars
             PROVE  KeptInv'
  OBVIOUS
<1>1. ASSUME slot' = slot, delivered' = delivered, failed => failed',
             overwritten' = overwritten
      PROVE  KeptInv'
  BY <1>1 DEF KeptInv, NewestIsKept, ChunksOf
<1>2. CASE Loop
  <2>1. CASE ResultArrives
    BY <2>1, KeptResultArrives
  <2>2. CASE PumpRead \/ ReadCalled \/ WakeReader
    BY <1>1, <2>2
       DEF PumpRead, ReadCalled, WakeReader, Wake, Read, readerVars, srcVars
  <2>3. CASE PumpResult \/ PumpEnds
    BY <1>1, <2>3 DEF PumpResult, PumpEnds, readerVars, srcVars
  <2>4. CASE PullPromise
    BY <1>1, <2>4 DEF PullPromise, Resolve, PullReacts, readerVars
  <2> QED
    BY <1>2, <2>1, <2>2, <2>3, <2>4 DEF Loop
<1>3. CASE Future
  BY <1>1, <1>3 DEF Future, PullLocks, Answer, readerVars
<1>4. CASE Poll
  BY <1>4, KeptPoll
<1>5. CASE \E s \in Streams : Cancel(s)
  BY <1>1, <1>5 DEF Cancel, CancelSource, readerVars, srcVars
<1>6. CASE EnvEnds \/ UNCHANGED vars
  BY <1>1, <1>6 DEF EnvEnds, vars, readerVars, srcVars
<1> QED
  BY <1>2, <1>3, <1>4, <1>5, <1>6 DEF Next, Done

(* ... so that both always hold.                                           *)
LEMMA PipeAlways == Spec => [](PipeInv /\ KeptInv)
<1>1. Init => PipeInv /\ KeptInv
  BY PipeInit DEF Init, ReaderInit, KeptInv, NewestIsKept
<1>2. Init /\ [][Next]_vars => [](PipeInv /\ KeptInv)
  BY <1>1, PipeStep, KeptStep, PTL
<1> QED
  BY <1>2, PTL DEF Spec

(* Every variable keeps its type, and one pull at most is in flight.       *)
THEOREM TypeCorrect == Spec => []TypeOK
<1>1. PipeInv => TypeOK
  <2> SUFFICES ASSUME PipeInv
               PROVE  TypeOK
    OBVIOUS
  <2>1. Types /\ SourceInv
    BY DEF PipeInv
  <2>2. ASSUME NEW s \in Streams
        PROVE  /\ js[s].queue \in Seq(1..MaxChunks) /\ js[s].requests \in Nat
               /\ \A i \in DOMAIN js[s].settled : js[s].settled[i] \in Results
               /\ js[s].closeRequested \in BOOLEAN
               /\ js[s].errored \in BOOLEAN /\ js[s].pulling \in BOOLEAN
    <3>1. js[s] \in StreamRecords
      BY <2>1 DEF Types
    <3>2. js[s].settled \in Seq(Results)
      BY <3>1, Fields
    <3>3. \A i \in DOMAIN js[s].settled : js[s].settled[i] \in Results
      BY <3>2
    <3> QED
      BY <3>1, <3>3, Fields
  <2>3. js["src"].pulling = (pull # "none")
    BY <2>1 DEF SourceInv
  <2> QED
    BY <2>1, <2>2, <2>3 DEF TypeOK, Types, Results
<1> QED
  BY <1>1, PipeAlways, PTL

(* The chunks of a Rust stream come to the consumer in their order, none   *)
(* is enqueued on a stream that throws, the newest is never overwritten by *)
(* another, and the end is told only when the consumer was given all those *)
(* that were not, however many there are and however three threads meet.   *)
THEOREM ChunksComeInOrder == Spec => []ChunksArrive
<1>1. PipeInv /\ KeptInv => ChunksArrive
  <2> SUFFICES ASSUME PipeInv, KeptInv
               PROVE  ChunksArrive
    OBVIOUS
  <2>1. /\ Types /\ SourceInv /\ PumpInv /\ ReaderInv /\ ChunksInv
        /\ StreamInv(js["src"]) /\ StreamInv(js["out"])
    BY DEF PipeInv
  <2>2. ChunksInOrder
    <3>1. DOMAIN Places = 1..7
      BY DEF Places
    <3>2. \A s \in Streams :
             Increasing(js[s].queue) /\ ChunksIncrease(js[s].settled)
      BY <2>1 DEF Streams, StreamInv
    <3> QED
      BY <2>1, <3>1, <3>2 DEF ChunksInOrder, ChunksInv, InLine
  <2>3. NoLateEnqueue
    BY <2>1 DEF SourceInv, NoLateEnqueue
  <2>4. EndIsComplete
    <3> SUFFICES ASSUME outcome = "end", Whole
                 PROVE  /\ ~failed /\ ~inner
                        /\ 1..produced
                              \subseteq Range(delivered) \cup overwritten
      BY DEF EndIsComplete, Whole
    <3>1. /\ Finished(js["src"]) /\ Finished(js[Target])
          /\ ~Has(slot, "chunk")
      BY <2>1 DEF ReaderInv
    <3>2. js["src"].closeRequested /\ ~failed /\ ~inner /\ ~cancelled
      BY <2>1, <3>1 DEF SourceInv, Whole, Finished
    <3>3. answer.kind # "chunk"
      BY <2>1, <3>2 DEF SourceInv
    <3>4. ~piped => js["out"].queue = <<>> /\ js["out"].settled = <<>>
      BY <2>1 DEF PumpInv, NewStream
    <3>5. \A s \in Streams : ChunksOf(js[s].settled) = {}
                             /\ Range(js[s].queue) = {}
      <4>1. \A s \in Streams : js[s].settled \in Seq(Results)
        BY <2>1, Fields DEF Types
      <4>2. ASSUME NEW s \in Streams, Finished(js[s])
            PROVE  ChunksOf(js[s].settled) = {} /\ Range(js[s].queue) = {}
        BY <4>1, <4>2, ChunksAt, NoChunks DEF Finished
      <4> QED
        BY <3>1, <3>4, <4>2, NoChunks DEF Streams, Target
    <3>6. ChunksOf(slot) = {} /\ ChunksOf(<<answer>>) = {}
      <4>1. slot \in Seq(Results) /\ answer \in Results
        BY <2>1 DEF Types
      <4>2. ChunksOf(slot) = {}
        BY <3>1, <4>1, ChunksAt
      <4>3. ChunksOf(<<answer>>) = {}
        BY <3>3, <4>1, AnswerChunks
      <4> QED
        BY <4>2, <4>3
    <3>7. \A s \in {2, 3, 4, 5, 6, 7} : Places[s] = {}
      BY <3>5, <3>6, PlacesAre DEF Streams
    <3>8. ASSUME NEW n \in 1..produced
          PROVE  n \in Range(delivered) \cup overwritten
      BY <2>1, <3>7, PlacesAre DEF ChunksInv
    <3> QED
      BY <3>2, <3>8
  <2> QED
    BY <2>2, <2>3, <2>4 DEF ChunksArrive, KeptInv
<1> QED
  BY <1>1, PipeAlways, PTL

=============================================================================
