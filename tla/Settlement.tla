----------------------------- MODULE Settlement -----------------------------
(***************************************************************************)
(* What the runtime promises for every job whose result it hands to        *)
(* JavaScript as a promise (an AsyncTask on the thread pool, a future on   *)
(* the tokio runtime): the promise is made pending, it is settled at most  *)
(* once, and it is fulfilled only with the value of work that ended well.  *)
(***************************************************************************)
CONSTANT Jobs

VARIABLES
    promise,  \* per job: "none" | "pending" | "fulfilled" | "rejected"
    outcome   \* per job, what its work came to: "none" | "ok" | "err"

svars == <<promise, outcome>>

Init == /\ promise = [j \in Jobs |-> "none"]
        /\ outcome = [j \in Jobs |-> "none"]

Start(j) == /\ promise[j] = "none"
            /\ promise' = [promise EXCEPT ![j] = "pending"]
            /\ UNCHANGED outcome

(* The work ends, before or after somebody rejected the promise. *)
Produce(j) == /\ promise[j] # "none" /\ outcome[j] = "none"
              /\ \E o \in {"ok", "err"} : outcome' = [outcome EXCEPT ![j] = o]
              /\ UNCHANGED promise

Fulfil(j) == /\ promise[j] = "pending" /\ outcome[j] # "none"
             /\ promise' = [promise EXCEPT ![j] = "fulfilled"]
             /\ UNCHANGED outcome

Reject(j) == /\ promise[j] = "pending"
             /\ promise' = [promise EXCEPT ![j] = "rejected"]
             /\ UNCHANGED outcome

Next == \E j \in Jobs : Start(j) \/ Produce(j) \/ Fulfil(j) \/ Reject(j)

Spec == Init /\ [][Next]_svars

=============================================================================
