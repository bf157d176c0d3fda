------------------------------ MODULE BufferRefs ------------------------------
(***************************************************************************)
(* References that Buffer and the typed arrays hold on a JS value, over    *)
(* the life of the environments of ModuleRegister.  A value taken from JS  *)
(* holds a reference of its environment and is Send: it may be dropped in  *)
(* a call of that environment, in a call of another one, or on a thread    *)
(* that runs no JS.  Drop (js_values/buffer.rs, and the same text in       *)
(* js_values/arraybuffer.rs) reads CUSTOM_GC_TSFN_DESTROYED first; on a    *)
(* thread without THREADS_CAN_ACCESS_ENV it then calls CUSTOM_GC_TSFN,     *)
(* whose custom_gc deletes the reference on the loop of the environment    *)
(* that made the function.                                                 *)
(***************************************************************************)
EXTENDS ModuleRegister

CONSTANT
    Buffers    \* the Rust values, each taken from JS at most once

VARIABLES
    ref,       \* the reference of each value, see RefStates
    home,      \* the environment in which it was created
    droppedBy, \* the environment in whose call it is dropped, None elsewhere
    deletedBy  \* history: the environment in which it was deleted

bufVars == <<ref, home, droppedBy, deletedBy>>
allVars == <<vars, bufVars>>

(* "checked": Drop has read the flag and is about to call the function.    *)
(* "lost": it will never be deleted.                                       *)
RefStates == {"none", "held", "checked", "queued", "deleted", "lost"}

BufInit ==
    /\ Init
    /\ ref = [b \in Buffers |-> "none"]
    /\ home = [b \in Buffers |-> None]
    /\ droppedBy = [b \in Buffers |-> None]
    /\ deletedBy = [b \in Buffers |-> None]

Runs(e) == pc[e] = "live" /\ blocking[e] = "no"

Delete(b, e) ==
    /\ ref' = [ref EXCEPT ![b] = "deleted"]
    /\ deletedBy' = [deletedBy EXCEPT ![b] = e]

Lose(b) ==
    /\ ref' = [ref EXCEPT ![b] = "lost"]
    /\ UNCHANGED deletedBy

-----------------------------------------------------------------------------
(* from_napi_value, of an argument of an exported function                 *)
Take(b, e) ==
    /\ ref[b] = "none" /\ Runs(e)
    /\ ref' = [ref EXCEPT ![b] = "held"]
    /\ home' = [home EXCEPT ![b] = e]
    /\ UNCHANGED <<vars, droppedBy, deletedBy>>

(* Mutant: the thread is not looked at.                                    *)
DropElsewhere_Unchecked(b) ==
    /\ ref[b] = "held"
    /\ IF gcDestroyed THEN Lose(b) ELSE Delete(b, None)
    /\ UNCHANGED <<vars, home, droppedBy>>

(* Drop on a thread without JS, up to the call of the function.            *)
DropElsewhere(b) ==
    /\ ref[b] = "held"
    /\ IF gcDestroyed
          THEN Lose(b)
          ELSE /\ ref' = [ref EXCEPT ![b] = "checked"]
               /\ UNCHANGED deletedBy
    /\ UNCHANGED <<vars, home, droppedBy>>

(* Drop in a call of e, or in the future of its block_on: unref and        *)
(* delete on this thread, with the env the value was taken in.             *)
DropInCall(b, e) ==
    /\ ref[b] = "held" /\ pc[e] = "live"
    /\ droppedBy' = [droppedBy EXCEPT ![b] = e]
    /\ IF gcDestroyed
          THEN Lose(b)
          ELSE IF thread[e] \in canAccess
          THEN Delete(b, e)
          ELSE /\ ref' = [ref EXCEPT ![b] = "checked"]
               /\ UNCHANGED deletedBy
    /\ UNCHANGED <<vars, home>>

(* napi_call_threadsafe_function: queued, or napi_closing.                 *)
CallCustomGc(b) ==
    /\ ref[b] = "checked"
    /\ IF gcDestroyed
          THEN Lose(b)
          ELSE /\ ref' = [ref EXCEPT ![b] = "queued"]
               /\ UNCHANGED deletedBy
    /\ UNCHANGED <<vars, home, droppedBy>>

-----------------------------------------------------------------------------
(* Mutant: the flag of the thread is tested the wrong way round.           *)
CustomGc_Inverted(b) ==
    /\ ref[b] = "queued" /\ Runs(gcOwner)
    /\ IF thread[gcOwner] \in canAccess THEN Lose(b) ELSE Delete(b, gcOwner)
    /\ UNCHANGED <<vars, home, droppedBy>>

(* custom_gc on the loop of the environment of CUSTOM_GC_TSFN, with the    *)
(* env of that environment.                                                *)
CustomGc(b) ==
    /\ ref[b] = "queued" /\ Runs(gcOwner)
    /\ IF thread[gcOwner] \in canAccess THEN Delete(b, gcOwner) ELSE Lose(b)
    /\ UNCHANGED <<vars, home, droppedBy>>

(* A step of an environment.  When it closes CUSTOM_GC_TSFN what is queued *)
(* comes back with a null env, for which N-API deletes nothing.            *)
EnvStep ==
    /\ Next
    /\ ref' = [b \in Buffers |->
                  IF ref[b] = "queued" /\ gcDestroyed' THEN "lost" ELSE ref[b]]
    /\ UNCHANGED <<home, droppedBy, deletedBy>>

Gc(b) == CallCustomGc(b) \/ CustomGc(b)

BufNext ==
    \/ EnvStep
    \/ \E b \in Buffers : \/ DropElsewhere(b)
                          \/ Gc(b)
                          \/ \E e \in Envs : Take(b, e) \/ DropInCall(b, e)

(* The thread that drops goes on, and the loop comes round to its queue    *)
(* between any two calls of the environment's functions.                   *)
BufFairness ==
    \A b \in Buffers : /\ WF_allVars(CallCustomGc(b))
                       /\ SF_allVars(CustomGc(b))

BufSpec == BufInit /\ [][BufNext]_allVars /\ Fairness /\ BufFairness

-----------------------------------------------------------------------------
BufTypeOK ==
    /\ TypeOK
    /\ ref \in [Buffers -> RefStates]
    /\ home \in [Buffers -> Envs \cup {None}]
    /\ droppedBy \in [Buffers -> Envs \cup {None}]
    /\ deletedBy \in [Buffers -> Envs \cup {None}]

(* The value was dropped in a call of another environment than its own, or *)
(* on a thread without JS when another environment made CUSTOM_GC_TSFN.    *)
Shared(b) == IF droppedBy[b] = None THEN gcOwner # home[b]
                                    ELSE droppedBy[b] # home[b]

(* A reference is deleted in the environment that created it, while that   *)
(* environment lives: the one place where N-API allows it.  Buffer::drop   *)
(* and custom_gc ensure it for a value that meets one environment only.    *)
DeletedAtHome ==
    [][\A b \in Buffers :
          ref[b] # "deleted" /\ ref'[b] = "deleted" =>
             Shared(b)' \/ (deletedBy'[b] = home[b] /\ pc[home[b]] = "live")]_allVars

(* "release it when dropped": a dropped value's reference is deleted in    *)
(* the end, on whatever thread it is dropped, unless the environment of    *)
(* CUSTOM_GC_TSFN ends first or the lock of RT is stuck.                   *)
DroppedIsDeleted ==
    \A b \in Buffers :
        ref[b] \in {"checked", "queued", "lost"}
            ~> ref[b] = "deleted" \/ gcDestroyed \/ Stuck

(* A buffer that is dropped is deleted, and where it may be.               *)
BuffersAreDeleted == DeletedAtHome /\ DroppedIsDeleted

=============================================================================
