--------------------------- MODULE ModuleRegister ---------------------------
(***************************************************************************)
(* The process-wide statics behind napi_register_module_v1                 *)
(* (crates/napi/src/bindgen_runtime/module_register.rs) and the async      *)
(* runtime RT (crates/napi/src/tokio_runtime.rs).  Every JS environment    *)
(* (the main one, each worker, a reloaded window) loads the module on its  *)
(* own thread: it counts itself, waits for the first registration, makes   *)
(* the CustomGC thread-safe function if it is the first, makes sure the    *)
(* runtime runs and installs the cleanup hook if nobody has.  RT is behind *)
(* a read-write lock: start and shutdown write, and block_on reads it for  *)
(* as long as its future runs.  The lock is std's futex lock, which keeps  *)
(* new readers out while a writer waits.                                   *)
(***************************************************************************)
EXTENDS Naturals, FiniteSets

CONSTANTS
    Envs,      \* the environments that load the module, each at most once
    Threads,   \* JS threads; one runs at most one environment at a time
    None       \* no environment and no thread

ASSUME NoneAssumption == None \notin Envs \cup Threads

VARIABLES
    pc,          \* where each environment is, see Phases
    thread,      \* the thread it runs on
    count,       \* MODULE_COUNT
    first,       \* FIRST_MODULE_REGISTERED
    hookAdded,   \* ENV_CLEANUP_HOOK_ADDED
    hooked,      \* the environments whose exit runs thread_cleanup
    rt,          \* RT holds a runtime
    blocking,    \* block_on per environment, see BlockStates
    gcOwner,     \* the environment of CUSTOM_GC_TSFN
    gcDestroyed, \* CUSTOM_GC_TSFN_DESTROYED
    canAccess,   \* the threads with THREADS_CAN_ACCESS_ENV set
    gcMade,      \* history: environments that made a CustomGC function
    overlapped   \* history: environments that came in during a shutdown

regVars == <<count, first, thread>>
hookVars == <<hookAdded, hooked>>
gcVars == <<gcOwner, gcDestroyed, canAccess, gcMade>>
vars == <<pc, regVars, hookVars, rt, blocking, gcVars, overlapped>>

(* "starting" and "shutting" wait for RT.write(); "closing" closes the     *)
(* thread-safe functions of the environment.                               *)
Registering == {"waiting", "registering", "starting", "hooking", "finishing"}
Leaving == {"exiting", "shutting", "closing"}
Phases == Registering \cup Leaving \cup {"out", "live", "gone"}

(* "spawning": the future in block_on calls spawn, which reads RT.         *)
BlockStates == {"no", "running", "spawning", "spawned"}

Init ==
    /\ pc = [e \in Envs |-> "out"]
    /\ thread = [e \in Envs |-> None]
    /\ count = 0 /\ first = FALSE
    /\ hookAdded = FALSE /\ hooked = {}
    /\ rt = TRUE
    /\ blocking = [e \in Envs |-> "no"]
    /\ gcOwner = None /\ gcDestroyed = FALSE
    /\ canAccess = {} /\ gcMade = {}
    /\ overlapped = {}

Goto(e, p) == pc' = [pc EXCEPT ![e] = p]

-----------------------------------------------------------------------------
(* The lock of RT                                                          *)

Writers == {e \in Envs : pc[e] \in {"starting", "shutting"}}
Readers == {e \in Envs : blocking[e] # "no"}

MayRead == Writers = {}
MayWrite == Readers = {}

-----------------------------------------------------------------------------
(* napi_register_module_v1                                                 *)

(* MODULE_COUNT.fetch_add: all but the one that finds 0 have to wait.      *)
Enter(e) ==
    /\ pc[e] = "out"
    /\ \E th \in Threads :
          /\ \A f \in Envs : thread[f] = th => pc[f] = "gone"
          /\ thread' = [thread EXCEPT ![e] = th]
    /\ Goto(e, IF count = 0 THEN "registering" ELSE "waiting")
    /\ count' = count + 1
    /\ overlapped' = IF \E f \in Envs : pc[f] = "shutting"
                        THEN overlapped \cup {e} ELSE overlapped
    /\ UNCHANGED <<first, hookVars, rt, blocking, gcVars>>

(* Mutant: nobody waits for the first registration.                        *)
WaitFirst_Not(e) ==
    /\ pc[e] = "waiting"
    /\ Goto(e, "registering")
    /\ UNCHANGED <<regVars, hookVars, rt, blocking, gcVars, overlapped>>

(* wait_first_thread_registered spins.                                     *)
WaitFirst(e) ==
    /\ pc[e] = "waiting" /\ first
    /\ Goto(e, "registering")
    /\ UNCHANGED <<regVars, hookVars, rt, blocking, gcVars, overlapped>>

(* The exports are defined, then create_custom_gc.                         *)
CreateCustomGc(e) ==
    /\ pc[e] = "registering"
    /\ IF first THEN UNCHANGED <<gcOwner, gcMade>>
                ELSE gcOwner' = e /\ gcMade' = gcMade \cup {e}
    /\ canAccess' = canAccess \cup {thread[e]}
    /\ Goto(e, "starting")
    /\ UNCHANGED <<regVars, hookVars, rt, blocking, gcDestroyed, overlapped>>

(* Mutant: the runtime is left to its lazy initialisation.                 *)
StartRuntime_Lazy(e) ==
    /\ pc[e] = "starting" /\ MayWrite
    /\ Goto(e, "hooking")
    /\ UNCHANGED <<regVars, hookVars, rt, blocking, gcVars, overlapped>>

(* start_async_runtime: a new runtime if there is none.                    *)
StartRuntime(e) ==
    /\ pc[e] = "starting" /\ MayWrite
    /\ rt' = TRUE
    /\ Goto(e, "hooking")
    /\ UNCHANGED <<regVars, hookVars, blocking, gcVars, overlapped>>

(* Under the lock of ENV_CLEANUP_HOOK_ADDED, the only hook ever is added.  *)
AddHook(e) ==
    /\ pc[e] = "hooking"
    /\ hookAdded' = TRUE
    /\ hooked' = IF hookAdded THEN hooked ELSE hooked \cup {e}
    /\ Goto(e, "finishing")
    /\ UNCHANGED <<regVars, rt, blocking, gcVars, overlapped>>

(* Mutant: the flag is not set at the end.                                 *)
Registered_FlagUnset(e) ==
    /\ pc[e] = "finishing"
    /\ Goto(e, "live")
    /\ UNCHANGED <<regVars, hookVars, rt, blocking, gcVars, overlapped>>

Registered(e) ==
    /\ pc[e] = "finishing"
    /\ first' = TRUE
    /\ Goto(e, "live")
    /\ UNCHANGED <<count, thread, hookVars, rt, blocking, gcVars, overlapped>>

-----------------------------------------------------------------------------
(* block_on, by a function the environment exports                         *)

(* It panics without a runtime, else it holds the read lock to the end.    *)
BlockOn(e) ==
    /\ pc[e] = "live" /\ blocking[e] = "no"
    /\ MayRead /\ rt
    /\ blocking' = [blocking EXCEPT ![e] = "running"]
    /\ UNCHANGED <<pc, regVars, hookVars, rt, gcVars, overlapped>>

(* The future calls spawn, directly or in execute_tokio_future.            *)
SpawnInside(e) ==
    /\ blocking[e] = "running"
    /\ blocking' = [blocking EXCEPT ![e] = "spawning"]
    /\ UNCHANGED <<pc, regVars, hookVars, rt, gcVars, overlapped>>

Spawned(e) ==
    /\ blocking[e] = "spawning" /\ MayRead
    /\ blocking' = [blocking EXCEPT ![e] = "spawned"]
    /\ UNCHANGED <<pc, regVars, hookVars, rt, gcVars, overlapped>>

BlockOnEnds(e) ==
    /\ blocking[e] \in {"running", "spawned"}
    /\ blocking' = [blocking EXCEPT ![e] = "no"]
    /\ UNCHANGED <<pc, regVars, hookVars, rt, gcVars, overlapped>>

-----------------------------------------------------------------------------
(* The end of an environment                                               *)

Exit(e) ==
    /\ pc[e] = "live" /\ blocking[e] = "no"
    /\ Goto(e, "exiting")
    /\ UNCHANGED <<regVars, hookVars, rt, blocking, gcVars, overlapped>>

(* Mutant: the hook was added twice.                                       *)
Cleanup_Twice(e) ==
    /\ pc[e] = "exiting"
    /\ count' = IF e \in hooked THEN count - 2 ELSE count
    /\ Goto(e, IF e \in hooked /\ count <= 2 THEN "shutting" ELSE "closing")
    /\ UNCHANGED <<first, thread, hookVars, rt, blocking, gcVars, overlapped>>

(* The cleanup hooks run; thread_cleanup does MODULE_COUNT.fetch_sub.      *)
Cleanup(e) ==
    /\ pc[e] = "exiting"
    /\ IF e \in hooked
          THEN /\ count' = count - 1
               /\ Goto(e, IF count = 1 THEN "shutting" ELSE "closing")
          ELSE /\ Goto(e, "closing")
               /\ UNCHANGED count
    /\ UNCHANGED <<first, thread, hookVars, rt, blocking, gcVars, overlapped>>

(* shutdown_async_runtime *)
Shutdown(e) ==
    /\ pc[e] = "shutting" /\ MayWrite
    /\ rt' = FALSE
    /\ Goto(e, "closing")
    /\ UNCHANGED <<regVars, hookVars, blocking, gcVars, overlapped>>

(* The thread-safe functions are finalized: custom_gc_finalize.            *)
CloseFunctions(e) ==
    /\ pc[e] = "closing"
    /\ gcDestroyed' = (gcDestroyed \/ gcOwner = e)
    /\ Goto(e, "gone")
    /\ UNCHANGED <<regVars, hookVars, rt, blocking, gcOwner, canAccess, gcMade,
                   overlapped>>

-----------------------------------------------------------------------------
Register(e) ==
    WaitFirst(e) \/ CreateCustomGc(e) \/ StartRuntime(e) \/ AddHook(e)
    \/ Registered(e)

Block(e) == Spawned(e) \/ BlockOnEnds(e)

Leave(e) == Cleanup(e) \/ Shutdown(e) \/ CloseFunctions(e)

(* Somebody waits to write RT for the end of a block_on whose future waits *)
(* to read it.                                                             *)
Stuck == Writers # {} /\ \E e \in Envs : blocking[e] = "spawning"

(* The process may end when every environment has, or never because of     *)
(* the lock.                                                               *)
Done ==
    /\ Stuck \/ \A e \in Envs : pc[e] = "gone"
    /\ UNCHANGED vars

Next ==
    \/ \E e \in Envs : Enter(e) \/ Register(e) \/ BlockOn(e) \/ SpawnInside(e)
                       \/ Block(e) \/ Exit(e) \/ Leave(e)
    \/ Done

(* Threads are scheduled (the spinning ones too), and futures end.         *)
Fairness ==
    \A e \in Envs : /\ WF_vars(Register(e))
                    /\ WF_vars(Block(e))
                    /\ WF_vars(Leave(e))

Spec == Init /\ [][Next]_vars
FairSpec == Spec /\ Fairness

-----------------------------------------------------------------------------
TypeOK ==
    /\ pc \in [Envs -> Phases]
    /\ thread \in [Envs -> Threads \cup {None}]
    /\ count \in Nat
    /\ first \in BOOLEAN /\ hookAdded \in BOOLEAN /\ rt \in BOOLEAN
    /\ hooked \subseteq Envs
    /\ blocking \in [Envs -> BlockStates]
    /\ gcOwner \in Envs \cup {None} /\ gcDestroyed \in BOOLEAN
    /\ canAccess \subseteq Threads
    /\ gcMade \subseteq Envs /\ overlapped \subseteq Envs

(* The CustomGC function is made once in the life of the process, however  *)
(* many environments register at the same time.                            *)
OneCustomGc == Cardinality(gcMade) <= 1

(* A registered environment has a runtime to the end: MODULE_COUNT covers  *)
(* it, so that nobody's exit shuts the runtime down.  The exception is one *)
(* that came in between another's fetch_sub and its shutdown.              *)
LiveHasRuntime == \A e \in Envs : pc[e] = "live" => rt \/ e \in overlapped

(* What a registration is for: the one function, and a runtime to the end. *)
RegisteredIsReady == OneCustomGc /\ LiveHasRuntime

(* Every registration comes to its end, unless the lock of RT is stuck.    *)
RegistrationEnds ==
    \A e \in Envs : pc[e] \in Registering ~> (pc[e] = "live" \/ Stuck)

=============================================================================
