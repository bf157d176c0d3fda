--------------------------- MODULE AsyncTask_proof ---------------------------
(***************************************************************************)
(* Proofs about AsyncTask for any tasks and signals: the types, the right  *)
(* outcome of every task, and that the promises settle as the abstract     *)
(* specification Settlement says.                                          *)
(***************************************************************************)
EXTENDS AsyncTask, SequenceTheorems, TLAPS

-----------------------------------------------------------------------------
(* The inductive invariant                                                 *)

(* What the place of a task's work on its way through the pool says about  *)
(* its value, its promise, its status and finally.                         *)
WorkInv(t) ==
    /\ work[t] = "none" => promise[t] = "none" /\ status[t] # 1
    /\ work[t] \in {"none", "queued", "running", "cancelled"} => value[t] = "uninit"
    /\ work[t] \in {"queued", "running", "executed", "cancelled"} =>
          promise[t] = "pending" /\ status[t] # 1
    /\ work[t] \notin {"done", "leaked"} => finals[t] = 0
    /\ work[t] = "executed" => value[t] # "uninit"
    /\ promise[t] = "none" => value[t] = "uninit"
    /\ work[t] = "done" =>
          /\ promise[t] # "none" /\ finals[t] = 1
          /\ promise[t] # "pending" \/ t \in raced

(* A completion is of executed work; an abort during its resolve is noted. *)
CompletionInv ==
    completing # None =>
        /\ work[completing] = "executed"
        /\ (step = "resolve" /\ status[completing] = 2) => completing \in raced

(* The stack of a signal holds the tasks it was given to; work cancelled,  *)
(* or finished without being marked completed, had its signal fire.        *)
SignalInv ==
    /\ \A s \in Signals : \A i \in DOMAIN stack[s] : signalOf[stack[s][i]] = s
    /\ \A t \in Tasks :
          /\ status[t] # 1 /\ signalOf[t] # None
          /\ work[t] \in {"cancelled", "done"} \/ status[t] = 2
          => signalOf[t] \in fired
    /\ \A t \in Tasks : work[t] = "none" /\ signalOf[t] = None => status[t] # 2
    /\ \A t \in staleCancel : work[t] = "done" /\ signalOf[t] = None

(* A task on_abort_impl got to in time stays aborted until it is done.     *)
AbortInv ==
    \A t \in due \ skipped :
        /\ promise[t] \in {"pending", "aborted"}
        /\ status[t] = 2 \/ work[t] \in {"done", "leaked"}
        /\ ~(completing = t /\ step = "convert")

IndInv ==
    TypeOK /\ (\A t \in Tasks : WorkInv(t)) /\ CompletionInv /\ SignalInv /\ AbortInv

-----------------------------------------------------------------------------
(* A process that has made no task satisfies the invariant.                *)
LEMMA InitIndInv == Init => IndInv
<1> SUFFICES ASSUME Init PROVE IndInv
  OBVIOUS
<1>1. TypeOK
  <2>1. stack \in [Signals -> Seq(Tasks)]
    BY DEF Init
  <2>2. /\ value \in [Tasks -> {"uninit", "ok", "err"}]
        /\ status \in [Tasks -> 0..2] /\ finals \in [Tasks -> 0..1]
    BY DEF Init
  <2>4. /\ work \in [Tasks -> WorkStates] /\ promise \in [Tasks -> PromiseStates]
        /\ signalOf \in [Tasks -> Signals \cup {None}]
    BY DEF Init, WorkStates, PromiseStates
  <2>3. completing = None
    BY DEF Init
  <2> QED
    BY <2>1, <2>2, <2>3, <2>4 DEF Init, TypeOK
<1>2. (\A t \in Tasks : WorkInv(t)) /\ CompletionInv /\ AbortInv
  BY DEF Init, WorkInv, CompletionInv, AbortInv
<1>3. SignalInv
  BY NoneAssumption DEF Init, SignalInv
<1> QED
  BY <1>1, <1>2, <1>3 DEF IndInv

(* What on_abort_impl reaches is on the stack of the signal.               *)
LEMMA ReachedOnStack ==
    ASSUME TypeOK, NEW s \in Signals
    PROVE  /\ Reached(s) \subseteq Tasks /\ Range(stack[s]) \subseteq Tasks
           /\ Reached(s) \subseteq Range(stack[s])
           /\ \A t \in Reached(s) : status[t] # 1
           /\ \A t \in Range(stack[s]) :
                 \E i \in DOMAIN stack[s] : t = stack[s][i]
<1>1. stack[s] \in Seq(Tasks)
  BY DEF TypeOK
<1>2. \A i \in DOMAIN stack[s] : stack[s][i] \in Tasks /\ i \in 1..i
  BY <1>1
<1> QED
  BY <1>2 DEF Reached, Range

(* napi_cancel_async_work changes only queued work, and only of its tasks. *)
LEMMA NapiCancelEffect ==
    ASSUME TypeOK, NEW T \in SUBSET Tasks, NapiCancel(T)
    PROVE  /\ work' \in [Tasks -> WorkStates] /\ staleCancel' \subseteq Tasks
           /\ \A t \in Tasks :
                 \/ work'[t] = work[t]
                 \/ t \in T /\ work[t] = "queued" /\ work'[t] = "cancelled"
           /\ \A t \in staleCancel' :
                 t \in staleCancel \/ (t \in T /\ work[t] = "done")
<1> QED
  BY DEF NapiCancel, TypeOK, WorkStates

(* The end of a completion types the variables it changes.                 *)
LEMMA CompleteEndType ==
    ASSUME IndInv, NEW t \in Tasks, completing = t,
           NEW p \in PromiseStates, CompleteEnd(t, p)
    PROVE  TypeOK'
<1> QED
  BY NoneAssumption DEF CompleteEnd, Finally, IndInv, CompletionInv, WorkInv,
     TypeOK, WorkStates, PromiseStates, signalVars

(* No step of JS, of the pool or of a completion leaves the types; in      *)
(* particular finally runs at most once, and a value that complete_impl    *)
(* reads has been written by execute.                                      *)
LEMMA TypeStep == IndInv /\ [Next]_vars => TypeOK'
<1> SUFFICES ASSUME IndInv, [Next]_vars PROVE TypeOK'
  OBVIOUS
<1> USE DEF taskVars, signalVars, jsVars
<1>1. ASSUME NEW t \in Tasks, NEW s \in Signals, TakeSignal(t, s) PROVE TypeOK'
  BY <1>1 DEF TakeSignal, IndInv, TypeOK
<1>2. ASSUME NEW t \in Tasks, Run(t) \/ RunFails(t) PROVE TypeOK'
  BY <1>2 DEF Run, RunFails, IndInv, TypeOK, WorkStates, PromiseStates
<1>3. ASSUME NEW t \in Tasks, Cancel(t) PROVE TypeOK'
  <2>1. work' \in [Tasks -> WorkStates] /\ staleCancel' \subseteq Tasks
    BY <1>3, NapiCancelEffect DEF Cancel, IndInv
  <2>2. status' \in [Tasks -> 0..2] /\ raced' \subseteq Tasks
    BY <1>3 DEF Cancel, IndInv, TypeOK
  <2> QED
    BY <1>3, <2>1, <2>2 DEF Cancel, IndInv, TypeOK
<1>4. ASSUME NEW s \in Signals, OnAbort(s) PROVE TypeOK'
  <2>1. Reached(s) \subseteq Tasks /\ Range(stack[s]) \subseteq Tasks
    BY ReachedOnStack DEF IndInv
  <2>2. work' \in [Tasks -> WorkStates] /\ staleCancel' \subseteq Tasks
    BY <1>4, <2>1, NapiCancelEffect DEF OnAbort, IndInv
  <2>3. /\ status' \in [Tasks -> 0..2] /\ raced' \subseteq Tasks
        /\ due' \subseteq Tasks /\ skipped' \subseteq due'
    BY <1>4, <2>1 DEF OnAbort, IndInv, TypeOK
  <2> QED
    BY <1>4, <2>2, <2>3 DEF OnAbort, IndInv, TypeOK
<1>5. ASSUME NEW t \in Tasks, Execute(t) PROVE TypeOK'
  <2>1. CASE ExecuteBegin(t)
    BY <2>1 DEF ExecuteBegin, IndInv, TypeOK, WorkStates
  <2>2. CASE ExecuteEnd(t)
    <3>1. PICK r \in {"ok", "err"} : value' = [value EXCEPT ![t] = r]
      BY <2>2 DEF ExecuteEnd
    <3>2. work' \in [Tasks -> WorkStates]
      BY <2>2 DEF ExecuteEnd, IndInv, TypeOK, WorkStates
    <3> QED
      BY <2>2, <3>1, <3>2 DEF ExecuteEnd, IndInv, TypeOK
  <2> QED
    BY <1>5, <2>1, <2>2 DEF Execute
<1>6. ASSUME NEW t \in Tasks, CompleteAborted(t) PROVE TypeOK'
  <2>1. finals[t] = 0
    BY <1>6 DEF CompleteAborted, Ended, IndInv, WorkInv
  <2> QED
    BY <1>6, <2>1 DEF CompleteAborted, Finally, IndInv, TypeOK, WorkStates,
       PromiseStates, Ended
<1>7. ASSUME NEW t \in Tasks, ResolveBegin(t) PROVE TypeOK'
  BY <1>7 DEF ResolveBegin, Ended, IsAborted, IndInv, WorkInv, TypeOK
<1>8. ASSUME NEW t \in Tasks, ResolveEnd(t) PROVE TypeOK'
  <2>1. CASE \E p \in PromiseStates : CompleteEnd(t, p)
    BY <1>8, <2>1, CompleteEndType DEF ResolveEnd
  <2>2. CASE step' = "convert" /\ UNCHANGED <<taskVars, status, signalVars,
                completing, envFailing, staleCancel, raced>>
    BY <2>2 DEF IndInv, TypeOK
  <2> QED
    BY <1>8, <2>1, <2>2 DEF ResolveEnd, IndInv, TypeOK, PromiseStates
<1>9. ASSUME NEW t \in Tasks, ConvertEnd(t) PROVE TypeOK'
  BY <1>9, CompleteEndType DEF ConvertEnd, PromiseStates
<1>10. ASSUME NEW t \in Tasks, CompleteFails(t) PROVE TypeOK'
  BY <1>10, NoneAssumption DEF CompleteFails, IndInv, TypeOK, WorkStates
<1>11. ASSUME EnvFails PROVE TypeOK'
  BY <1>11 DEF EnvFails, IndInv, TypeOK
<1>12. CASE UNCHANGED vars
  BY <1>12 DEF vars, IndInv, TypeOK
<1> QED
  BY <1>1, <1>2, <1>3, <1>4, <1>5, <1>6, <1>7, <1>8, <1>9, <1>10, <1>11, <1>12
  DEF Next, User, Complete, Done

(* A completion ends only executed work, whose promise is still pending.   *)
LEMMA CompleteEndWork ==
    ASSUME IndInv, NEW t \in Tasks, completing = t, NEW p \in PromiseStates,
           p \in {"pending", "fulfilled", "rejected"},
           p = "pending" => t \in raced,
           CompleteEnd(t, p)
    PROVE  \A u \in Tasks : WorkInv(u)'
<1>1. work[t] = "executed" /\ finals[t] = 0
  BY NoneAssumption DEF IndInv, CompletionInv, WorkInv
<1> QED
  BY <1>1 DEF CompleteEnd, Finally, IndInv, WorkInv, TypeOK, signalVars

(* Taking queued work off the pool, and cancelling it, change nothing else. *)
LEMMA UnchangedWork ==
    ASSUME TypeOK, \A u \in Tasks : WorkInv(u),
           \A u \in Tasks : \/ work'[u] = work[u]
                            \/ work[u] = "queued" /\ work'[u] = "cancelled",
           \A u \in Tasks : status'[u] = 1 => status[u] = 1,
           raced \subseteq raced', UNCHANGED <<value, promise, finals>>
    PROVE  \A u \in Tasks : WorkInv(u)'
<1> SUFFICES ASSUME NEW u \in Tasks PROVE WorkInv(u)'
  OBVIOUS
<1>1. CASE work'[u] = work[u]
  BY <1>1 DEF WorkInv
<1>2. CASE work[u] = "queued" /\ work'[u] = "cancelled"
  BY <1>2 DEF WorkInv
<1> QED
  BY <1>1, <1>2

(* Every step of a task's work keeps its value, its promise and its status *)
(* in line with it.                                                        *)
LEMMA WorkStep == IndInv /\ [Next]_vars => \A u \in Tasks : WorkInv(u)'
<1> SUFFICES ASSUME IndInv, [Next]_vars PROVE \A u \in Tasks : WorkInv(u)'
  OBVIOUS
<1> USE DEF taskVars, signalVars, jsVars
<1>1. ASSUME NEW t \in Tasks, NEW s \in Signals, TakeSignal(t, s)
      PROVE  \A u \in Tasks : WorkInv(u)'
  BY <1>1 DEF TakeSignal, IndInv, WorkInv
<1>2. ASSUME NEW t \in Tasks, Run(t) \/ RunFails(t)
      PROVE  \A u \in Tasks : WorkInv(u)'
  <2>1. status[t] # 1
    BY <1>2 DEF Run, RunFails, IndInv, WorkInv
  <2> QED
    BY <1>2, <2>1 DEF Run, RunFails, IndInv, WorkInv, TypeOK
<1>3. ASSUME NEW t \in Tasks, Cancel(t) PROVE \A u \in Tasks : WorkInv(u)'
  <2>1. \A u \in Tasks : \/ work'[u] = work[u]
                         \/ work[u] = "queued" /\ work'[u] = "cancelled"
    BY <1>3, NapiCancelEffect DEF Cancel, IndInv
  <2>2. \A u \in Tasks : status'[u] = 1 => status[u] = 1
    BY <1>3 DEF Cancel, IndInv, TypeOK
  <2>3. raced \subseteq raced' /\ UNCHANGED <<value, promise, finals>>
    BY <1>3 DEF Cancel
  <2> QED
    BY <2>1, <2>2, <2>3, UnchangedWork DEF IndInv
<1>4. ASSUME NEW s \in Signals, OnAbort(s) PROVE \A u \in Tasks : WorkInv(u)'
  <2>1. Reached(s) \subseteq Tasks
    BY ReachedOnStack DEF IndInv
  <2>2. \A u \in Tasks : \/ work'[u] = work[u]
                         \/ work[u] = "queued" /\ work'[u] = "cancelled"
    BY <1>4, <2>1, NapiCancelEffect DEF OnAbort, IndInv
  <2>3. \A u \in Tasks : status'[u] = 1 => status[u] = 1
    BY <1>4 DEF OnAbort
  <2>4. raced \subseteq raced' /\ UNCHANGED <<value, promise, finals>>
    BY <1>4 DEF OnAbort
  <2> QED
    BY <2>2, <2>3, <2>4, UnchangedWork DEF IndInv
<1>5. ASSUME NEW t \in Tasks, Execute(t) PROVE \A u \in Tasks : WorkInv(u)'
  BY <1>5 DEF Execute, ExecuteBegin, ExecuteEnd, IndInv, WorkInv, TypeOK
<1>6. ASSUME NEW t \in Tasks, CompleteAborted(t)
      PROVE  \A u \in Tasks : WorkInv(u)'
  BY <1>6 DEF CompleteAborted, Ended, Finally, IndInv, WorkInv, TypeOK
<1>7. ASSUME NEW t \in Tasks, ResolveBegin(t) PROVE \A u \in Tasks : WorkInv(u)'
  BY <1>7 DEF ResolveBegin, IndInv, WorkInv
<1>8. ASSUME NEW t \in Tasks, ResolveEnd(t) PROVE \A u \in Tasks : WorkInv(u)'
  <2>1. promise[t] = "pending"
    BY <1>8, NoneAssumption DEF ResolveEnd, IndInv, CompletionInv, WorkInv
  <2>2. CASE status[t] = 2 /\ CompleteEnd(t, promise[t])
    <3>1. t \in raced
      BY <1>8, <2>2, NoneAssumption DEF ResolveEnd, IndInv, CompletionInv
    <3> QED
      BY <1>8, <2>1, <2>2, <3>1, CompleteEndWork DEF ResolveEnd, PromiseStates
  <2>3. CASE CompleteEnd(t, "rejected")
    BY <1>8, <2>3, CompleteEndWork DEF ResolveEnd, PromiseStates
  <2>4. CASE UNCHANGED <<taskVars, status, raced>>
    BY <2>4 DEF IndInv, WorkInv
  <2> QED
    BY <1>8, <2>2, <2>3, <2>4 DEF ResolveEnd
<1>9. ASSUME NEW t \in Tasks, ConvertEnd(t) PROVE \A u \in Tasks : WorkInv(u)'
  BY <1>9, CompleteEndWork DEF ConvertEnd, PromiseStates
<1>10. ASSUME NEW t \in Tasks, CompleteFails(t)
       PROVE  \A u \in Tasks : WorkInv(u)'
  BY <1>10 DEF CompleteFails, Ended, IndInv, WorkInv, TypeOK
<1>11. ASSUME EnvFails \/ UNCHANGED vars PROVE \A u \in Tasks : WorkInv(u)'
  BY <1>11 DEF EnvFails, vars, IndInv, WorkInv
<1> QED
  BY <1>1, <1>2, <1>3, <1>4, <1>5, <1>6, <1>7, <1>8, <1>9, <1>10, <1>11
  DEF Next, User, Complete, Done

(* Between the steps of a completion only its own work is executed work    *)
(* being completed, and an abort during resolve is noted in raced.         *)
LEMMA CompletionStep == IndInv /\ [Next]_vars => CompletionInv'
<1> SUFFICES ASSUME IndInv, [Next]_vars PROVE CompletionInv'
  OBVIOUS
<1> USE NoneAssumption DEF taskVars, signalVars, jsVars
<1>1. ASSUME NEW t \in Tasks, NEW s \in Signals, TakeSignal(t, s)
      PROVE  CompletionInv'
  BY <1>1 DEF TakeSignal, IndInv, CompletionInv
<1>2. ASSUME NEW t \in Tasks, Run(t) \/ RunFails(t) PROVE CompletionInv'
  BY <1>2 DEF Run, RunFails, IndInv, CompletionInv, TypeOK
<1>3. ASSUME NEW t \in Tasks, Cancel(t) PROVE CompletionInv'
  <2>1. \A u \in Tasks : work[u] = "executed" => work'[u] = "executed"
    BY <1>3, NapiCancelEffect DEF Cancel, IndInv
  <2> QED
    BY <1>3, <2>1 DEF Cancel, IndInv, CompletionInv, TypeOK
<1>4. ASSUME NEW s \in Signals, OnAbort(s) PROVE CompletionInv'
  <2>1. Reached(s) \subseteq Tasks
    BY ReachedOnStack DEF IndInv
  <2>2. \A u \in Tasks : work[u] = "executed" => work'[u] = "executed"
    BY <1>4, <2>1, NapiCancelEffect DEF OnAbort, IndInv
  <2>3. /\ \A u \in Tasks : status'[u] = status[u] \/ u \in Reached(s)
        /\ raced \subseteq raced'
        /\ completing \in Reached(s) /\ step = "resolve" => completing \in raced'
    BY <1>4 DEF OnAbort
  <2> QED
    BY <1>4, <2>2, <2>3 DEF OnAbort, IndInv, CompletionInv, TypeOK
<1>5. ASSUME NEW t \in Tasks, Execute(t) PROVE CompletionInv'
  BY <1>5 DEF Execute, ExecuteBegin, ExecuteEnd, IndInv, CompletionInv, TypeOK
<1>6. ASSUME NEW t \in Tasks, Complete(t) PROVE CompletionInv'
  <2>1. CASE CompleteAborted(t)
    BY <2>1 DEF CompleteAborted, Ended, CompletionInv
  <2>2. CASE ResolveBegin(t)
    BY <2>2 DEF ResolveBegin, Ended, IsAborted, CompletionInv
  <2>3. CASE ResolveEnd(t)
    BY <2>3 DEF ResolveEnd, CompleteEnd, IndInv, CompletionInv
  <2>4. CASE ConvertEnd(t) \/ CompleteFails(t)
    BY <2>4 DEF ConvertEnd, CompleteEnd, CompleteFails, CompletionInv
  <2> QED
    BY <1>6, <2>1, <2>2, <2>3, <2>4 DEF Complete
<1>7. ASSUME EnvFails \/ UNCHANGED vars PROVE CompletionInv'
  BY <1>7 DEF EnvFails, vars, IndInv, CompletionInv
<1> QED
  BY <1>1, <1>2, <1>3, <1>4, <1>5, <1>6, <1>7 DEF Next, User, Done

(* A stack holds only the tasks its signal was given to, a signal that     *)
(* canceled work has fired, and work that was deleted is only canceled by  *)
(* AsyncWorkPromise::cancel.                                               *)
LEMMA SignalStep == IndInv /\ [Next]_vars => SignalInv'
<1> SUFFICES ASSUME IndInv, [Next]_vars PROVE SignalInv'
  OBVIOUS
<1> USE NoneAssumption DEF taskVars, signalVars, jsVars
<1> DEFINE StackInv ==
               \A s \in Signals : \A i \in DOMAIN stack[s] : signalOf[stack[s][i]] = s
           FiredInv(t) ==
               /\ status[t] # 1 /\ signalOf[t] # None
               /\ work[t] \in {"cancelled", "done"} \/ status[t] = 2
               => signalOf[t] \in fired
           EarlyInv(t) == work[t] = "none" /\ signalOf[t] = None => status[t] # 2
           StaleInv == \A t \in staleCancel : work[t] = "done" /\ signalOf[t] = None
<1>1. ASSUME NEW t \in Tasks, NEW s \in Signals, TakeSignal(t, s)
      PROVE  SignalInv'
  <2>1. StackInv'
    <3> SUFFICES ASSUME NEW r \in Signals, NEW i \in DOMAIN stack'[r]
                 PROVE  signalOf'[stack'[r][i]] = r
      OBVIOUS
    <3>1. stack[r] \in Seq(Tasks) /\ signalOf \in [Tasks -> Signals \cup {None}]
      BY DEF IndInv, TypeOK
    <3>2. \A j \in DOMAIN stack[r] : stack[r][j] \in Tasks /\ stack[r][j] # t
      BY <1>1, <3>1 DEF TakeSignal, IndInv, SignalInv
    <3>3. CASE i \in DOMAIN stack[r]
      <4>1. stack'[r][i] = stack[r][i]
        BY <1>1, <3>1, <3>3 DEF TakeSignal, IndInv, TypeOK
      <4> QED
        BY <1>1, <3>1, <3>2, <3>3, <4>1 DEF TakeSignal, IndInv, SignalInv
    <3>4. CASE i \notin DOMAIN stack[r]
      <4>1. r = s /\ stack'[r][i] = t
        BY <1>1, <3>1, <3>4 DEF TakeSignal, IndInv, TypeOK
      <4> QED
        BY <1>1, <3>1, <4>1 DEF TakeSignal
    <3> QED
      BY <3>3, <3>4
  <2>2. \A u \in Tasks : FiredInv(u)' /\ EarlyInv(u)'
    BY <1>1 DEF TakeSignal, IndInv, SignalInv, WorkInv, TypeOK
  <2>3. StaleInv'
    BY <1>1 DEF TakeSignal, IndInv, SignalInv, TypeOK
  <2> QED
    BY <2>1, <2>2, <2>3 DEF SignalInv
<1>2. ASSUME NEW t \in Tasks, Run(t) \/ RunFails(t) PROVE SignalInv'
  BY <1>2 DEF Run, RunFails, IndInv, SignalInv, TypeOK
<1>3. ASSUME NEW t \in Tasks, Cancel(t) PROVE SignalInv'
  <2>1. /\ \A u \in Tasks :
              work'[u] = work[u] \/ (u = t /\ work[u] # "done" /\ work'[u] # "none")
        /\ \A u \in staleCancel' : u \in staleCancel \/ (u = t /\ work[t] = "done")
    BY <1>3, NapiCancelEffect DEF Cancel, IndInv
  <2>2. /\ signalOf[t] = None /\ work[t] # "none"
        /\ UNCHANGED <<stack, signalOf, fired>>
    BY <1>3 DEF Cancel, IndInv, WorkInv
  <2>3. \A u \in Tasks : u # t => status'[u] = status[u]
    BY <1>3 DEF Cancel, IndInv, TypeOK
  <2>4. \A u \in Tasks : FiredInv(u)' /\ EarlyInv(u)'
    BY <2>1, <2>2, <2>3 DEF IndInv, SignalInv
  <2>5. StaleInv'
    BY <2>1, <2>2 DEF IndInv, SignalInv, TypeOK
  <2> QED
    BY <2>2, <2>4, <2>5 DEF IndInv, SignalInv
<1>4. ASSUME NEW s \in Signals, OnAbort(s) PROVE SignalInv'
  <2>1. /\ Reached(s) \subseteq Tasks
        /\ \A u \in Reached(s) : signalOf[u] = s /\ status[u] # 1
    BY ReachedOnStack DEF IndInv, SignalInv
  <2>2. /\ \A u \in Tasks : work'[u] = work[u] \/
                (u \in Reached(s) /\ work[u] = "queued" /\ work'[u] = "cancelled")
        /\ \A u \in staleCancel' : u \in staleCancel \/
                                     (u \in Reached(s) /\ work[u] = "done")
    BY <1>4, <2>1, NapiCancelEffect DEF OnAbort, IndInv
  <2>3. /\ fired' = fired \cup {s} /\ UNCHANGED <<stack, signalOf>>
        /\ \A u \in Tasks \ Reached(s) : status'[u] = status[u]
    BY <1>4 DEF OnAbort
  <2>4. \A u \in Tasks : FiredInv(u)' /\ EarlyInv(u)'
    BY <2>1, <2>2, <2>3 DEF IndInv, SignalInv
  <2>5. \A u \in Reached(s) : work[u] # "done"
    BY <1>4, <2>1 DEF OnAbort, IndInv, SignalInv
  <2>6. StaleInv'
    BY <2>2, <2>3, <2>5 DEF IndInv, SignalInv, TypeOK
  <2> QED
    BY <2>3, <2>4, <2>6 DEF IndInv, SignalInv
<1>5. ASSUME NEW t \in Tasks, Execute(t) PROVE SignalInv'
  BY <1>5 DEF Execute, ExecuteBegin, ExecuteEnd, IndInv, SignalInv, TypeOK
<1>6. ASSUME NEW t \in Tasks, CompleteAborted(t) PROVE SignalInv'
  BY <1>6 DEF CompleteAborted, IsAborted, Ended, Finally, IndInv, SignalInv, TypeOK
<1>7. ASSUME NEW t \in Tasks, ResolveBegin(t) PROVE SignalInv'
  BY <1>7 DEF ResolveBegin, IndInv, SignalInv
<1>8. ASSUME NEW t \in Tasks, NEW p \in PromiseStates, completing = t,
             CompleteEnd(t, p)
      PROVE  SignalInv'
  <2>1. work[t] # "done"
    BY <1>8 DEF IndInv, CompletionInv
  <2> QED
    BY <1>8, <2>1 DEF CompleteEnd, Finally, IndInv, SignalInv, TypeOK
<1>9. ASSUME NEW t \in Tasks, ResolveEnd(t) \/ ConvertEnd(t) PROVE SignalInv'
  <2>1. CASE UNCHANGED <<taskVars, status, signalVars, staleCancel>>
    BY <2>1 DEF IndInv, SignalInv
  <2> QED
    BY <1>8, <1>9, <2>1 DEF ResolveEnd, ConvertEnd, PromiseStates, IndInv, TypeOK
<1>10. ASSUME NEW t \in Tasks, CompleteFails(t) PROVE SignalInv'
  <2>1. work[t] # "done"
    BY <1>10 DEF CompleteFails, Ended, IndInv, CompletionInv
  <2> QED
    BY <1>10, <2>1 DEF CompleteFails, IndInv, SignalInv, TypeOK
<1>11. ASSUME EnvFails \/ UNCHANGED vars PROVE SignalInv'
  BY <1>11 DEF EnvFails, vars, IndInv, SignalInv
<1> QED
  BY <1>1, <1>2, <1>3, <1>4, <1>5, <1>6, <1>7, <1>9, <1>10, <1>11
  DEF Next, User, Complete, Done

(* Nothing but the completion of t changes an answer t was given: once     *)
(* on_abort_impl got to t, every branch of complete_impl leaves its promise *)
(* or makes it an AbortError.                                              *)
LEMMA AbortStep == IndInv /\ [Next]_vars => AbortInv'
<1> SUFFICES ASSUME IndInv, [Next]_vars PROVE AbortInv'
  OBVIOUS
<1> USE NoneAssumption DEF taskVars, signalVars, jsVars
<1>1. ASSUME NEW t \in Tasks, NEW s \in Signals, TakeSignal(t, s) PROVE AbortInv'
  BY <1>1 DEF TakeSignal, IndInv, AbortInv
<1>2. ASSUME NEW t \in Tasks, Run(t) \/ RunFails(t) PROVE AbortInv'
  BY <1>2 DEF Run, RunFails, IndInv, AbortInv, WorkInv, TypeOK
<1>3. ASSUME NEW t \in Tasks, Cancel(t) PROVE AbortInv'
  <2>1. \A u \in Tasks : work[u] \in {"done", "leaked"} => work'[u] = work[u]
    BY <1>3, NapiCancelEffect DEF Cancel, IndInv
  <2> QED
    BY <1>3, <2>1 DEF Cancel, IndInv, AbortInv, TypeOK
<1>4. ASSUME NEW s \in Signals, OnAbort(s) PROVE AbortInv'
  <2>1. Reached(s) \subseteq Tasks /\ Range(stack[s]) \subseteq Tasks
    BY ReachedOnStack DEF IndInv
  <2>2. \A u \in Tasks : work[u] \in {"done", "leaked"} => work'[u] = work[u]
    BY <1>4, <2>1, NapiCancelEffect DEF OnAbort, IndInv
  <2>3. /\ \A u \in due' \ skipped' :
              u \in due \ skipped \/ (u \in Reached(s) /\ Unfinished(u))
        /\ \A u \in Tasks : status'[u] = status[u] \/ status'[u] = 2
        /\ \A u \in Tasks \cap Reached(s) : status'[u] = 2
        /\ UNCHANGED <<promise, completing, step>>
    BY <1>4 DEF OnAbort
  <2> QED
    BY <2>1, <2>2, <2>3 DEF Unfinished, IndInv, AbortInv, TypeOK
<1>5. ASSUME NEW t \in Tasks, Execute(t) PROVE AbortInv'
  BY <1>5 DEF Execute, ExecuteBegin, ExecuteEnd, IndInv, AbortInv, TypeOK
<1>6. ASSUME NEW t \in Tasks, CompleteAborted(t) PROVE AbortInv'
  BY <1>6 DEF CompleteAborted, Ended, Finally, IndInv, AbortInv, TypeOK
<1>7. ASSUME NEW t \in Tasks, ResolveBegin(t) PROVE AbortInv'
  BY <1>7 DEF ResolveBegin, IndInv, AbortInv
<1>8. ASSUME NEW t \in Tasks, NEW p \in PromiseStates, CompleteEnd(t, p),
             t \in due \ skipped => p \in {"pending", "aborted"}
      PROVE  AbortInv'
  BY <1>8 DEF CompleteEnd, Finally, IndInv, AbortInv, TypeOK
<1>9. ASSUME NEW t \in Tasks, ResolveEnd(t) PROVE AbortInv'
  <2>1. promise[t] = "pending" /\ work[t] = "executed"
    BY <1>9 DEF ResolveEnd, IndInv, CompletionInv, WorkInv
  <2>2. CASE status[t] = 2 /\ CompleteEnd(t, promise[t])
    BY <2>1, <2>2, <1>8 DEF PromiseStates
  <2>3. CASE status[t] # 2
    <3>1. t \notin due \ skipped
      BY <2>1, <2>3 DEF IndInv, AbortInv
    <3>2. CASE CompleteEnd(t, "rejected")
      BY <3>1, <3>2, <1>8 DEF PromiseStates
    <3>3. CASE step' = "convert" /\ UNCHANGED <<taskVars, status, signalVars, completing>>
      BY <1>9, <3>1, <3>3 DEF ResolveEnd, IndInv, AbortInv
    <3> QED
      BY <1>9, <2>3, <3>2, <3>3 DEF ResolveEnd
  <2> QED
    BY <1>9, <2>2, <2>3 DEF ResolveEnd
<1>10. ASSUME NEW t \in Tasks, ConvertEnd(t) PROVE AbortInv'
  <2>1. t \notin due \ skipped
    BY <1>10 DEF ConvertEnd, IndInv, AbortInv
  <2> QED
    BY <1>8, <1>10, <2>1 DEF ConvertEnd, PromiseStates
<1>11. ASSUME NEW t \in Tasks, CompleteFails(t) PROVE AbortInv'
  BY <1>11 DEF CompleteFails, IndInv, AbortInv, TypeOK
<1>12. ASSUME EnvFails \/ UNCHANGED vars PROVE AbortInv'
  BY <1>12 DEF EnvFails, vars, IndInv, AbortInv
<1> QED
  BY <1>1, <1>2, <1>3, <1>4, <1>5, <1>6, <1>7, <1>9, <1>10, <1>11, <1>12
  DEF Next, User, Complete, Done

-----------------------------------------------------------------------------
(* The inductive invariant holds in every state of every behaviour.        *)
THEOREM Invariance == Spec => []IndInv
<1>1. IndInv /\ [Next]_vars => IndInv'
  BY TypeStep, WorkStep, CompletionStep, SignalStep, AbortStep DEF IndInv
<1> QED
  BY InitIndInv, <1>1, PTL DEF Spec

(* The variables keep their types: finally runs at most once for a task,   *)
(* and complete_impl never reads a value that execute has not written.     *)
THEOREM TypeCorrect == Spec => []TypeOK
<1>1. IndInv => TypeOK
  BY DEF IndInv
<1> QED
  BY Invariance, <1>1, PTL

(* on_abort_impl never cancels async work that complete_impl has deleted;  *)
(* a task it got to in time never yields an outcome of its own; and a task *)
(* whose work is deleted ran finally once and settled its promise, unless  *)
(* it was aborted while its resolve ran.                                   *)
THEOREM RightOutcome == Spec => []OutcomeIsRight
<1>1. IndInv => OutcomeIsRight
  BY DEF IndInv, TypeOK, WorkInv, SignalInv, AbortInv, OutcomeIsRight,
     AbortCancelsLiveWork, AbortRejects, CompletedIsSettled
<1> QED
  BY Invariance, <1>1, PTL

-----------------------------------------------------------------------------
(* The promises of async tasks settle as Settlement says                   *)

(* Settling the promise of t, seen through the mapping.                    *)
LEMMA AbstractChange ==
    ASSUME TypeOK, NEW t \in Tasks, NEW p \in PromiseStates,
           promise' = [promise EXCEPT ![t] = p]
    PROVE  AbstractPromise' = [AbstractPromise EXCEPT
              ![t] = IF p = "aborted" THEN "rejected" ELSE p]
<1> QED
  BY DEF AbstractPromise, TypeOK

(* Every step starts, produces, settles or leaves alone: complete_impl,    *)
(* the only code that settles, meets a promise that is still pending.      *)
LEMMA StepSimulation == IndInv /\ [Next]_vars => [Promised!Next]_(Promised!svars)
<1> SUFFICES ASSUME IndInv, [Next]_vars
             PROVE  Promised!Next \/ UNCHANGED <<AbstractPromise, AbstractOutcome>>
  BY DEF Promised!svars
<1> USE DEF taskVars, signalVars, jsVars
<1> DEFINE Same == UNCHANGED <<AbstractPromise, AbstractOutcome>>
<1>0. TypeOK
  BY DEF IndInv
<1>1. UNCHANGED promise => UNCHANGED AbstractPromise
  BY DEF AbstractPromise
<1>2. UNCHANGED value => UNCHANGED AbstractOutcome
  BY DEF AbstractOutcome
<1>3. ASSUME NEW t \in Tasks, Run(t) PROVE Promised!Next
  <2>1. AbstractPromise[t] = "none"
    BY <1>3 DEF Run, AbstractPromise, IndInv, WorkInv
  <2>2. AbstractPromise' = [AbstractPromise EXCEPT ![t] = "pending"]
    BY <1>0, <1>3, AbstractChange DEF Run, PromiseStates
  <2>3. Promised!Start(t)
    BY <1>2, <1>3, <2>1, <2>2 DEF Run, Promised!Start
  <2> QED
    BY <2>3 DEF Promised!Next
<1>4. ASSUME NEW t \in Tasks, ExecuteEnd(t) PROVE Promised!Next
  <2>1. AbstractPromise[t] # "none" /\ AbstractOutcome[t] = "none"
    BY <1>4 DEF ExecuteEnd, AbstractPromise, AbstractOutcome, IndInv, WorkInv
  <2>2. PICK r \in {"ok", "err"} : value' = [value EXCEPT ![t] = r]
    BY <1>4 DEF ExecuteEnd
  <2>3. AbstractOutcome' = [AbstractOutcome EXCEPT ![t] = r]
    BY <1>0, <2>2 DEF AbstractOutcome, TypeOK
  <2>4. Promised!Produce(t)
    BY <1>1, <1>4, <2>1, <2>3 DEF ExecuteEnd, Promised!Produce
  <2> QED
    BY <2>4 DEF Promised!Next
<1>5. ASSUME NEW t \in Tasks, promise[t] = "pending", UNCHANGED value,
             NEW p \in {"aborted", "rejected"},
             promise' = [promise EXCEPT ![t] = p]
      PROVE  Promised!Next
  <2>1. AbstractPromise' = [AbstractPromise EXCEPT ![t] = "rejected"]
    BY <1>0, <1>5, AbstractChange DEF PromiseStates
  <2>2. Promised!Reject(t)
    BY <1>2, <1>5, <2>1 DEF AbstractPromise, Promised!Reject
  <2> QED
    BY <2>2 DEF Promised!Next
<1>6. ASSUME NEW t \in Tasks, ConvertEnd(t) PROVE Promised!Next
  <2>1. promise[t] = "pending" /\ value[t] # "uninit"
    BY <1>6, NoneAssumption DEF ConvertEnd, IndInv, CompletionInv, WorkInv
  <2>2. CASE CompleteEnd(t, "rejected")
    BY <1>5, <2>1, <2>2 DEF CompleteEnd
  <2>3. CASE CompleteEnd(t, "fulfilled")
    <3>1. AbstractPromise' = [AbstractPromise EXCEPT ![t] = "fulfilled"]
      BY <1>0, <2>3, AbstractChange DEF CompleteEnd, PromiseStates
    <3>2. Promised!Fulfil(t)
      BY <1>0, <1>2, <2>1, <2>3, <3>1
      DEF CompleteEnd, AbstractPromise, AbstractOutcome, TypeOK, Promised!Fulfil
    <3> QED
      BY <3>2 DEF Promised!Next
  <2> QED
    BY <1>6, <2>2, <2>3 DEF ConvertEnd
<1>7. ASSUME NEW t \in Tasks, CompleteAborted(t) PROVE Promised!Next
  <2>1. promise[t] = "pending"
    BY <1>7 DEF CompleteAborted, Ended, IndInv, WorkInv
  <2> QED
    BY <1>5, <1>7, <2>1 DEF CompleteAborted
<1>8. ASSUME NEW t \in Tasks, ResolveEnd(t) PROVE Promised!Next \/ Same
  <2>1. promise[t] = "pending"
    BY <1>8, NoneAssumption DEF ResolveEnd, IndInv, CompletionInv, WorkInv
  <2>2. CASE CompleteEnd(t, "rejected")
    BY <1>5, <2>1, <2>2 DEF CompleteEnd
  <2>3. CASE CompleteEnd(t, promise[t])
    BY <1>0, <1>1, <1>2, <2>3 DEF CompleteEnd, TypeOK
  <2>4. CASE UNCHANGED taskVars
    BY <1>1, <1>2, <2>4
  <2> QED
    BY <1>8, <2>2, <2>3, <2>4 DEF ResolveEnd
<1>9. ASSUME NEW t \in Tasks,
             (\E s \in Signals : TakeSignal(t, s)) \/ RunFails(t) \/ Cancel(t)
             \/ ExecuteBegin(t) \/ ResolveBegin(t) \/ CompleteFails(t)
      PROVE  Same
  BY <1>1, <1>2, <1>9 DEF TakeSignal, RunFails, Cancel, ExecuteBegin,
     ResolveBegin, CompleteFails
<1>10. ASSUME (\E s \in Signals : OnAbort(s)) \/ EnvFails \/ UNCHANGED vars
       PROVE  Same
  BY <1>1, <1>2, <1>10 DEF OnAbort, EnvFails, vars
<1> QED
  BY <1>3, <1>4, <1>6, <1>7, <1>8, <1>9, <1>10
  DEF Next, User, Execute, Complete, Done

(* An AsyncTask is a job in the sense of Settlement: its promise is made   *)
(* pending once, is settled at most once, never goes back, and is          *)
(* fulfilled only with what compute returned.                              *)
THEOREM Settles == Spec => SettlesOnce
<1>1. Init => Promised!Init
  BY DEF Init, Promised!Init, AbstractPromise, AbstractOutcome
<1> QED
  BY <1>1, Invariance, StepSimulation, PTL DEF Spec, SettlesOnce, Promised!Spec

=============================================================================
